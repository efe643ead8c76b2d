----------------------------- MODULE NodeProofs -----------------------------
(***************************************************************************)
(* Descriptors and the names of farms, proved for any number of farms,     *)
(* descriptors and calls of ssyncdctl: what Pound sends is filed under its *)
(* own farm and sessions are written to the Pound of theirs, but for the   *)
(* numbers that an add_farm takes in between.                              *)
(***************************************************************************)
EXTENDS Node, FoldLemmas

-----------------------------------------------------------------------------
\* Types

Kinds == {"free", "epoll", "ctl", "socket", "pound", "other"}

LEMMA FileTypes ==
    /\ Free \in Files /\ Free.kind = "free"
    /\ \A k \in Kinds : File(k, NoName) \in Files /\ File(k, NoName).kind = k
                        /\ ~File(k, NoName).watched
BY DEF Free, File, Files, Kinds

LEMMA FilesFields ==
    ASSUME NEW x \in Files
    PROVE  /\ x.farm \in Names /\ x.kind \in Kinds
           /\ x.data \in BOOLEAN /\ x.hup \in BOOLEAN /\ x.watched \in BOOLEAN
           /\ \A y \in BOOLEAN :
                 /\ [x EXCEPT !.data = y] \in Files /\ [x EXCEPT !.data = y].kind = x.kind
                 /\ [x EXCEPT !.data = y].farm = x.farm
                 /\ [x EXCEPT !.data = y].watched = x.watched
                 /\ [x EXCEPT !.hup = y] \in Files /\ [x EXCEPT !.hup = y].kind = x.kind
                 /\ [x EXCEPT !.hup = y].farm = x.farm
                 /\ [x EXCEPT !.hup = y].watched = x.watched
                 /\ [x EXCEPT !.watched = y] \in Files
                 /\ [x EXCEPT !.watched = y].kind = x.kind
                 /\ [x EXCEPT !.watched = y].farm = x.farm
           /\ \A f \in Names :
                 /\ [x EXCEPT !.kind = "pound", !.farm = f] \in Files
                 /\ [x EXCEPT !.kind = "pound", !.farm = f].kind = "pound"
                 /\ [x EXCEPT !.kind = "pound", !.farm = f].farm = f
                 /\ [x EXCEPT !.kind = "pound", !.farm = f].watched = x.watched
BY DEF Files, Names, Kinds

Ats == {"idle", "find", "socket", "connect", "watch", "name", "announce", "look",
        "send", "full", "remove"}

LEMMA JobFields ==
    ASSUME NEW j \in Jobs
    PROVE  /\ j.at \in Ats /\ j.farm \in Names /\ j.fd \in FDs \cup {0}
           /\ j.send \in BOOLEAN /\ j.early \in BOOLEAN
BY DEF Jobs, Ats

\* A job is its place, farm, number and two flags.
IsJob(j, a, f, d, s, e) ==
    j \in Jobs /\ j.at = a /\ j.farm = f /\ j.fd = d /\ j.send = s /\ j.early = e

LEMMA JobChanges ==
    ASSUME NEW j \in Jobs
    PROVE  /\ IsJob(j, j.at, j.farm, j.fd, j.send, j.early)
           /\ \A a \in Ats : IsJob([j EXCEPT !.at = a], a, j.farm, j.fd, j.send, j.early)
           /\ \A a \in Ats, d \in FDs \cup {0} :
                 IsJob([j EXCEPT !.at = a, !.fd = d], a, j.farm, d, j.send, j.early)
           /\ \A a \in Ats, d \in FDs \cup {0}, e \in BOOLEAN :
                 IsJob([j EXCEPT !.at = a, !.fd = d, !.early = e], a, j.farm, d, j.send, e)
           /\ \A e \in BOOLEAN :
                 IsJob([j EXCEPT !.early = e], j.at, j.farm, j.fd, j.send, e)
<1> USE DEF Jobs, IsJob, Ats
<1>1. IsJob(j, j.at, j.farm, j.fd, j.send, j.early)
  OBVIOUS
<1>2. ASSUME NEW a \in Ats
      PROVE  IsJob([j EXCEPT !.at = a], a, j.farm, j.fd, j.send, j.early)
  OBVIOUS
<1>3. ASSUME NEW a \in Ats, NEW d \in FDs \cup {0}
      PROVE  IsJob([j EXCEPT !.at = a, !.fd = d], a, j.farm, d, j.send, j.early)
  OBVIOUS
<1>4. ASSUME NEW a \in Ats, NEW d \in FDs \cup {0}, NEW e \in BOOLEAN
      PROVE  IsJob([j EXCEPT !.at = a, !.fd = d, !.early = e], a, j.farm, d, j.send, e)
  OBVIOUS
<1>5. ASSUME NEW e \in BOOLEAN
      PROVE  IsJob([j EXCEPT !.early = e], j.at, j.farm, j.fd, j.send, e)
  OBVIOUS
<1> QED
  BY <1>1, <1>2, <1>3, <1>4, <1>5, Zenon

LEMMA NewJobs ==
    /\ IsJob(Idle, "idle", NoName, 0, FALSE, FALSE)
    /\ \A f \in Names :
          /\ IsJob(SendPoundAction(f), "find", f, 0, TRUE, FALSE)
          /\ IsJob([Idle EXCEPT !.at = "socket", !.farm = f], "socket", f, 0, FALSE, FALSE)
    /\ \A f \in Names, d \in FDs, e \in BOOLEAN :
          IsJob([Idle EXCEPT !.at = "remove", !.farm = f, !.fd = d, !.early = e],
                "remove", f, d, FALSE, e)
<1>0. NoName \in Names
  BY DEF Names
<1> USE DEF Idle, SendPoundAction, Jobs, IsJob
<1>1. IsJob(Idle, "idle", NoName, 0, FALSE, FALSE)
  BY <1>0
<1>2. ASSUME NEW f \in Names
      PROVE  IsJob(SendPoundAction(f), "find", f, 0, TRUE, FALSE)
  BY <1>0
<1>3. ASSUME NEW f \in Names
      PROVE  IsJob([Idle EXCEPT !.at = "socket", !.farm = f], "socket", f, 0, FALSE, FALSE)
  BY <1>0
<1>4. ASSUME NEW f \in Names, NEW d \in FDs, NEW e \in BOOLEAN
      PROVE  IsJob([Idle EXCEPT !.at = "remove", !.farm = f, !.fd = d, !.early = e],
                   "remove", f, d, FALSE, e)
  BY <1>0
<1> QED
  BY <1>1, <1>2, <1>3, <1>4, Zenon

LEMMA ActionType ==
    ASSUME NEW y \in {"CONNECT", "DISCONNECT", "HTTP_SYNC"}, NEW f \in Names,
           NEW g \in Names, NEW e \in BOOLEAN
    PROVE  Action(y, f, g, e) \in Actions
BY DEF Action, Actions

LEMMA QueueTypes ==
    ASSUME NEW S, NEW q \in Seq(S)
    PROVE  /\ \A x \in S : Append(q, x) \in Seq(S)
           /\ q # <<>> => Head(q) \in S /\ Tail(q) \in Seq(S)
OBVIOUS

(***************************************************************************)
(* get_farm_fd: a descriptor that has the name of the farm, or none.       *)
(***************************************************************************)
LEMMA FarmFd ==
    ASSUME NEW f
    PROVE  /\ get_farm_fd(f) \in FDs \cup {0}
           /\ get_farm_fd(f) # 0 => get_farm_fd(f) \in FDs /\ farms_fd[get_farm_fd(f)] = f
<1> DEFINE fds == {fd \in FDs : farms_fd[fd] = f}
<1>1. CASE fds = {}
  BY <1>1 DEF get_farm_fd
<1>2. CASE fds # {}
  <2>1. fds \in SUBSET (1 .. MaxFd) /\ MaxFd \in Nat
    BY NodeAssumption DEF FDs
  <2>2. \E m \in fds : \A d \in fds : d <= m
    <3> HIDE DEF fds
    <3> QED
      BY <1>2, <2>1, MaxOf
  <2>3. get_farm_fd(f) = CHOOSE fd \in fds : \A d \in fds : d <= fd
    BY <1>2 DEF get_farm_fd
  <2> HIDE DEF fds
  <2>4. get_farm_fd(f) \in fds
    BY <2>2, <2>3
  <2> QED
    BY <2>4 DEF fds
<1> QED
  BY <1>1, <1>2

\* What the command of a call is about
LEMMA CommandFarm ==
    ASSUME ServesClient, NEW c \in {"START_HTTP_SYNC", "STOP_HTTP_SYNC"}, Do(c)
    PROVE  cmd.data \in Names
<1>1. client.argv \in CommandLines /\ cmd = Packet[client.argv]
  BY DEF ServesClient, Do, Runs
<1>2. cmd = command_line(client.argv) /\ cmd.command = c
  BY <1>1 DEF Packet, Do
<1> QED
  BY <1>1, <1>2, FarmsAssumption DEF Names

LEMMA StringsApart == "ctl" \in Threads /\ "worker" \in Threads /\ NoName \in Names
BY DEF Threads, Names

LEMMA NumbersApart == FDs \subseteq Nat /\ 0 \notin FDs /\ Absent \notin Names
BY NodeAssumption DEF FDs, Names

-----------------------------------------------------------------------------
\* The steps

\* Steps that leave the descriptor table and what is known of it alone
Quiet ==
    \/ ReadCommand \/ JobsDone \/ ClearHttp \/ OtherCommand
    \/ Quit \/ SwitchMode \/ SigPipe \/ Interrupt
    \/ \E f \in Farms : PoundStarts(f) \/ PoundHangs(f) \/ PoundResumes(f)
    \/ \E argv \in CommandLines : Call(argv)

\* What else the control thread and others do with descriptors and the queue
Serving == AcceptClient \/ StartHttp \/ StopHttp \/ RemoveFarm \/ WriteHttp \/ NextSession
           \/ Answer \/ WorkerTakes
Outside == OtherThread \/ PoundSends \/ \E f \in Farms : PoundStops(f)

Reading == \/ EpollWait \/ PeerDisconnect \/ QueueSessions \/ QueueDisconnect
           \/ \E fd \in FDs : ReadSessions(fd) \/ ReadEof(fd) \/ ReadElse(fd)

LEMMA NodeSteps ==
    ASSUME NodeNext
    PROVE  Quiet \/ Serving \/ Outside \/ Reading \/ \E t \in Threads : Job(t)
BY DEF NodeNext, CtlTask, ListenTask, Worker, World, Threads, Quiet, Serving,
   Outside, Reading

LEMMA QuietKeeps ==
    ASSUME Quiet
    PROVE  UNCHANGED <<file, httpVars, job, historyVars>>
BY DEF Quiet, ReadCommand, JobsDone, ClearHttp, OtherCommand, Quit, SwitchMode, SigPipe,
   Ended, Interrupt, PoundStarts, PoundHangs, PoundResumes, Call, ctlVars

LEMMA OutsideKeeps ==
    ASSUME Outside
    PROVE  UNCHANGED <<httpVars, ctlVars, wrote, raced, astray, client, alive>>
BY DEF Outside, OtherThread, PoundSends, PoundStops, historyVars, httpVars

LEMMA ReadingKeeps ==
    ASSUME Reading
    PROVE  UNCHANGED <<alive, mode, is_running, epoll_fd, stored, ctlVars, worldVars,
                       wrote, steady>>
BY DEF Reading, EpollWait, PeerDisconnect, QueueSessions, QueueDisconnect, QueueAs,
   ReadSessions, ReadEof, ReadElse, historyVars

LEMMA JobKeeps ==
    ASSUME NEW t \in Threads, Job(t)
    PROVE  UNCHANGED <<alive, mode, is_running, epoll_fd, events, stored, at, cfd, cmd,
                       todo, worldVars, steady>>
BY DEF Job, Find, OpenSocket, NoSocket, Connect, Watch, Name, Announce, Look, Send,
   SendBlocks, Retry, Deliver, httpVars, historyVars

\* Only a process that runs takes a step.
LEMMA NextRuns == ASSUME NodeNext PROVE alive /\ ~astray
<1>1. CASE Quiet
  BY <1>1 DEF Quiet, ReadCommand, JobsDone, ClearHttp, OtherCommand, Quit, SwitchMode,
     SigPipe, Interrupt, PoundStarts, PoundHangs, PoundResumes, Call, Do, Runs
<1>2. CASE Serving \/ Outside
  BY <1>2 DEF Serving, Outside, AcceptClient, StartHttp, StopHttp, RemoveFarm, WriteHttp,
     NextSession, Answer, WorkerTakes, OtherThread, PoundSends, PoundStops, Do, Runs
<1>3. CASE Reading
  BY <1>3 DEF Reading, EpollWait, PeerDisconnect, QueueSessions, QueueDisconnect, QueueAs,
     ReadSessions, ReadEof, ReadElse, Takes, Runs
<1>4. ASSUME NEW t \in Threads, Job(t) PROVE Runs
  BY <1>4 DEF Job, Find, OpenSocket, NoSocket, Connect, Watch, Name, Announce, Look,
     Send, SendBlocks, Retry
<1> QED
  BY <1>1, <1>2, <1>3, <1>4, NodeSteps DEF Runs

-----------------------------------------------------------------------------
\* What a step does to the jobs

SameJob(t) ==
    /\ job'[t].at = job[t].at /\ job'[t].farm = job[t].farm /\ job'[t].fd = job[t].fd
    /\ job[t].early => job'[t].early

\* The job goes on with the same number.
Goes(t, from, to) ==
    /\ job[t].at = from /\ job'[t].at = to /\ job'[t].farm = job[t].farm
    /\ job'[t].fd = job[t].fd /\ job'[t].early = job[t].early

\* The job looks up the number of its farm.
LooksUp(t, to) ==
    /\ ~Unfinished(t) /\ job'[t].at = to
    /\ job'[t].fd = get_farm_fd(job'[t].farm) /\ job'[t].early = Early(job'[t].fd)

\* The job comes to a place where it has no number of its own.
Loose(t) ==
    /\ job'[t].at \in {"idle", "find", "socket", "announce", "look"}
    /\ job'[t].fd \in {0, job[t].fd}
    /\ Unfinished(t) => Connect(t) \/ Watch(t) \/ Name(t)

JobMoves(t) ==
    \/ SameJob(t) \/ Loose(t)
    \/ /\ OpenSocket(t) /\ job[t].at = "socket" /\ job'[t].at = "connect"
       /\ job'[t].fd \in FreeFds
    \/ Connect(t) /\ Goes(t, "connect", "watch")
    \/ Watch(t) /\ Goes(t, "watch", "name")
    \/ SendBlocks(t) /\ Goes(t, "send", "full") /\ job[t].fd # 0
    \/ Look(t) /\ LooksUp(t, "send")
    \/ StopHttp /\ is_running /\ LooksUp(t, "remove") /\ job'[t].fd # 0

\* A step of one job
LEMMA OneJob ==
    ASSUME NodeTypeOK, NEW t \in Threads, NEW j \in Jobs, job' = [job EXCEPT ![t] = j]
    PROVE  /\ job' \in [Threads -> Jobs] /\ job'[t] = j
           /\ \A u \in Threads : u # t => job'[u] = job[u]
BY DEF NodeTypeOK

LEMMA GoesTo ==
    ASSUME NodeTypeOK, NEW t \in Threads, NEW a \in Ats, Goto(t, a)
    PROVE  /\ job' \in [Threads -> Jobs]
           /\ IsJob(job'[t], a, job[t].farm, job[t].fd, job[t].send, job[t].early)
           /\ \A u \in Threads : u # t => job'[u] = job[u]
<1>1. job[t] \in Jobs
  BY DEF NodeTypeOK
<1>2. IsJob([job[t] EXCEPT !.at = a], a, job[t].farm, job[t].fd, job[t].send, job[t].early)
  BY <1>1, JobChanges
<1>3. job' = [job EXCEPT ![t] = [job[t] EXCEPT !.at = a]]
  BY DEF Goto, NodeTypeOK
<1>4. [job[t] EXCEPT !.at = a] \in Jobs
  BY <1>2 DEF IsJob
<1> QED
  BY <1>2, <1>3, <1>4, OneJob

LEMMA Leaves ==
    ASSUME NodeTypeOK, NEW t \in Threads, Leave(t)
    PROVE  /\ job' \in [Threads -> Jobs]
           /\ job'[t] = Idle /\ job'[t].at = "idle" /\ job'[t].fd = 0
           /\ \A u \in Threads : u # t => job'[u] = job[u]
BY NewJobs, OneJob DEF Leave, IsJob

JobsMove == job' \in [Threads -> Jobs] /\ \A t \in Threads : JobMoves(t)

LEMMA OneMoves ==
    ASSUME NodeTypeOK, NEW t \in Threads, job' \in [Threads -> Jobs],
           \A u \in Threads : u # t => job'[u] = job[u], JobMoves(t)
    PROVE  JobsMove
BY DEF JobsMove, JobMoves, SameJob

LEMMA FreshMoves ==
    ASSUME NodeTypeOK, NEW t \in Threads, NEW j \in Jobs, job' = [job EXCEPT ![t] = j],
           ~Unfinished(t), j.fd = 0,
           j.at \in {"idle", "find", "socket", "announce", "look"}
    PROVE  JobsMove
<1>1. job' \in [Threads -> Jobs] /\ job'[t] = j /\ \A u \in Threads : u # t => job'[u] = job[u]
  BY OneJob
<1>2. Loose(t)
  BY <1>1 DEF Loose
<1> QED
  BY <1>1, <1>2, OneMoves DEF JobMoves

LEMMA OpenSocketMoves ==
    ASSUME NodeTypeOK, NEW t \in Threads, OpenSocket(t)
    PROVE  /\ JobsMove
           /\ \E fd \in FreeFds :
                 /\ file' = [file EXCEPT ![fd] = File("socket", NoName)]
                 /\ raced' = IF Unnamed(fd) THEN raced ELSE raced \ {fd}
                 /\ job[t].at = "socket" /\ job'[t].at = "connect" /\ job'[t].fd = fd
                 /\ \A u \in Threads : u # t /\ LookedUp(u, fd) => job'[u].early
                 /\ \A u \in Threads : u # t => SameJob(u)
<1>1. PICK fd \in FDs :
        /\ IsNextFd(fd)
        /\ file' = [file EXCEPT ![fd] = File("socket", NoName)]
        /\ raced' = IF Unnamed(fd) THEN raced ELSE raced \ {fd}
        /\ job' = [u \in Threads |->
                IF u = t THEN [job[u] EXCEPT !.at = "connect", !.fd = fd]
                ELSE [job[u] EXCEPT !.early = @ \/ LookedUp(u, fd)]]
  BY DEF OpenSocket
<1>2. fd \in FreeFds /\ job[t].at = "socket"
  BY <1>1 DEF IsNextFd, OpenSocket
<1>3. /\ job'[t] = [job[t] EXCEPT !.at = "connect", !.fd = fd]
      /\ \A u \in Threads : u # t =>
            job'[u] = [job[u] EXCEPT !.early = @ \/ LookedUp(u, fd)]
  BY <1>1
<1>4. \A u \in Threads : job[u] \in Jobs /\ job[u].early \in BOOLEAN
                         /\ (job[u].early \/ LookedUp(u, fd)) \in BOOLEAN
  <2>1. \A u \in Threads : job[u] \in Jobs
    BY DEF NodeTypeOK
  <2> QED
    BY <2>1, JobFields
<1>5. job'[t] \in Jobs /\ job'[t].at = "connect" /\ job'[t].fd = fd
  <2>1. "connect" \in Ats
    BY DEF Ats
  <2>2. IsJob([job[t] EXCEPT !.at = "connect", !.fd = fd], "connect", job[t].farm, fd,
              job[t].send, job[t].early)
    BY <1>4, <2>1, JobChanges
  <2> QED
    BY <1>3, <2>2 DEF IsJob
<1>6. ASSUME NEW u \in Threads, u # t
      PROVE  job'[u] \in Jobs /\ SameJob(u) /\ (LookedUp(u, fd) => job'[u].early)
  <2> DEFINE e == job[u].early \/ LookedUp(u, fd)
  <2>1. job[u] \in Jobs /\ e \in BOOLEAN
    BY <1>4
  <2>2. job'[u] = [job[u] EXCEPT !.early = e]
    BY <1>3, <1>6
  <2>3. IsJob([job[u] EXCEPT !.early = e], job[u].at, job[u].farm, job[u].fd, job[u].send, e)
    <3> HIDE DEF e
    <3> QED
      BY <2>1, JobChanges
  <2> QED
    BY <2>2, <2>3 DEF IsJob, SameJob
<1>7. job' \in [Threads -> Jobs]
  <2>1. \A u \in Threads : job'[u] \in Jobs
    BY <1>5, <1>6
  <2>2. job' = [u \in Threads |-> job'[u]]
    BY <1>1
  <2> QED
    BY <2>1, <2>2
<1>8. JobsMove
  BY <1>2, <1>5, <1>6, <1>7 DEF JobsMove, JobMoves
<1> QED
  BY <1>1, <1>2, <1>5, <1>6, <1>8

LEMMA ConnectMoves ==
    ASSUME NodeTypeOK, NEW t \in Threads, Connect(t) PROVE JobsMove
<1>1. CASE Goto(t, "watch")
  <2>1. \A a \in {"watch"} : Goto(t, a) =>
           /\ job' \in [Threads -> Jobs]
           /\ IsJob(job'[t], a, job[t].farm, job[t].fd, job[t].send, job[t].early)
           /\ \A u \in Threads : u # t => job'[u] = job[u]
    BY GoesTo DEF Ats
  <2> QED
    BY <1>1, <2>1, OneMoves DEF Connect, JobMoves, Goes, IsJob
<1>2. CASE Leave(t)
  BY <1>2, Leaves, OneMoves DEF JobMoves, Loose
<1> QED
  BY <1>1, <1>2 DEF Connect

LEMMA WatchMoves ==
    ASSUME NodeTypeOK, NEW t \in Threads, Watch(t) PROVE JobsMove
<1>1. CASE Goto(t, "name")
  <2>1. \A a \in {"name"} : Goto(t, a) =>
           /\ job' \in [Threads -> Jobs]
           /\ IsJob(job'[t], a, job[t].farm, job[t].fd, job[t].send, job[t].early)
           /\ \A u \in Threads : u # t => job'[u] = job[u]
    BY GoesTo DEF Ats
  <2> QED
    BY <1>1, <2>1, OneMoves DEF Watch, JobMoves, Goes, IsJob
<1>2. CASE Leave(t)
  BY <1>2, Leaves, OneMoves DEF JobMoves, Loose
<1> QED
  BY <1>1, <1>2 DEF Watch

LEMMA NameMoves ==
    ASSUME NodeTypeOK, NEW t \in Threads, Name(t) PROVE JobsMove
<1>1. job[t] \in Jobs
  BY DEF NodeTypeOK
<1>2. job' = [job EXCEPT ![t] = [job[t] EXCEPT !.at = "announce", !.fd = 0]]
  BY DEF Name, NodeTypeOK
<1>3. "announce" \in Ats /\ 0 \in FDs \cup {0}
  BY DEF Ats
<1>4. IsJob([job[t] EXCEPT !.at = "announce", !.fd = 0], "announce", job[t].farm, 0,
            job[t].send, job[t].early)
  BY <1>1, <1>3, JobChanges
<1>5. /\ job' \in [Threads -> Jobs] /\ job'[t].at = "announce" /\ job'[t].fd = 0
      /\ \A u \in Threads : u # t => job'[u] = job[u]
  BY <1>2, <1>4, OneJob DEF IsJob
<1>6. Loose(t)
  BY <1>5 DEF Loose
<1> QED
  BY <1>5, <1>6, OneMoves DEF JobMoves

LEMMA LookMoves ==
    ASSUME NodeTypeOK, NEW t \in Threads, Look(t) PROVE JobsMove
<1> DEFINE d == get_farm_fd(job[t].farm)
           e == Early(d)
<1>1. job[t] \in Jobs
  BY DEF NodeTypeOK
<1>2. job' = [job EXCEPT ![t].at = "send", ![t].fd = d, ![t].early = e] /\ job[t].at = "look"
  BY DEF Look
<1>3. d \in FDs \cup {0} /\ e \in BOOLEAN /\ "send" \in Ats
  BY FarmFd DEF Early, Unnamed, Ats
<1> HIDE DEF e
<1>4. job' = [job EXCEPT ![t] = [job[t] EXCEPT !.at = "send", !.fd = d, !.early = e]]
  <2> HIDE DEF d
  <2> QED
    BY <1>2 DEF NodeTypeOK
<1>5. IsJob([job[t] EXCEPT !.at = "send", !.fd = d, !.early = e], "send", job[t].farm, d,
            job[t].send, e)
  <2> HIDE DEF d
  <2> QED
    BY <1>1, <1>3, JobChanges
<1>6. /\ job' \in [Threads -> Jobs] /\ job'[t].at = "send" /\ job'[t].fd = d
      /\ job'[t].farm = job[t].farm /\ job'[t].early = e
      /\ \A u \in Threads : u # t => job'[u] = job[u]
  <2> HIDE DEF d
  <2> QED
    BY <1>4, <1>5, OneJob DEF IsJob
<1>7. LooksUp(t, "send")
  BY <1>2, <1>6 DEF LooksUp, Unfinished, e
<1> QED
  BY <1>6, <1>7, OneMoves DEF JobMoves

\* The other steps of a job
LEMMA OtherJobMoves ==
    ASSUME NodeTypeOK, NEW t \in Threads,
           Find(t) \/ NoSocket(t) \/ Announce(t) \/ Send(t) \/ SendBlocks(t) \/ Retry(t)
    PROVE  JobsMove
<1>1. CASE Leave(t) /\ ~Unfinished(t)
  BY <1>1, Leaves, OneMoves DEF JobMoves, Loose
<1>2. ASSUME NEW a \in {"socket", "look"}, Goto(t, a), ~Unfinished(t) PROVE JobsMove
  <2>1. a \in Ats
    BY DEF Ats
  <2> QED
    BY <1>2, <2>1, GoesTo, OneMoves DEF JobMoves, Loose, IsJob
<1>3. CASE Find(t)
  <2>1. ~Unfinished(t) /\ \E a \in {"socket", "look"} : Goto(t, a)
    BY <1>3 DEF Find, Unfinished
  <2> QED
    BY <1>2, <2>1
<1>4. CASE Announce(t)
  <2>1. ~Unfinished(t) /\ (Leave(t) \/ \E a \in {"socket", "look"} : Goto(t, a))
    BY <1>4 DEF Announce, Unfinished
  <2> QED
    BY <1>1, <1>2, <2>1
<1>5. CASE NoSocket(t) \/ Send(t) \/ Retry(t)
  BY <1>1, <1>5 DEF NoSocket, Send, Retry, Deliver, Unfinished
<1>6. CASE SendBlocks(t)
  <2>1. \E a \in Ats : a = "full" /\ Goto(t, a)
    BY <1>6 DEF SendBlocks, Ats
  <2>2. /\ job' \in [Threads -> Jobs]
        /\ IsJob(job'[t], "full", job[t].farm, job[t].fd, job[t].send, job[t].early)
        /\ \A u \in Threads : u # t => job'[u] = job[u]
    BY <2>1, GoesTo
  <2>3. job[t].at = "send" /\ job[t].fd # 0
    BY <1>6 DEF SendBlocks, Full
  <2> QED
    BY <1>6, <2>2, <2>3, OneMoves DEF JobMoves, Goes, IsJob
<1> QED
  BY <1>3, <1>4, <1>5, <1>6

LEMMA StopHttpMoves ==
    ASSUME NodeTypeOK, ServesClient, StopHttp PROVE JobsMove
<1> DEFINE d == get_farm_fd(cmd.data)
           e == Early(d)
           j == [Idle EXCEPT !.at = "remove", !.farm = cmd.data, !.fd = d, !.early = e]
<1>1. CASE UNCHANGED job
  BY <1>1 DEF JobsMove, JobMoves, SameJob, NodeTypeOK
<1>2. CASE is_running /\ d # 0
  <2>1. cmd.data \in Names
    BY CommandFarm DEF StopHttp
  <2>2. d \in FDs /\ e \in BOOLEAN
    BY <1>2, FarmFd DEF Early, Unnamed
  <2>3. IsJob(j, "remove", cmd.data, d, FALSE, e)
    <3> HIDE DEF d, e
    <3> QED
      BY <2>1, <2>2, NewJobs
  <2>4. job' = [job EXCEPT !["ctl"] = j]
    BY <1>2 DEF StopHttp
  <2> HIDE DEF j
  <2>5. /\ job' \in [Threads -> Jobs] /\ job'["ctl"] = j
        /\ \A u \in Threads : u # "ctl" => job'[u] = job[u]
    BY <2>3, <2>4, OneJob, StringsApart DEF IsJob
  <2>6. job["ctl"].at = "idle"
    BY DEF StopHttp, Do, NodeTypeOK
  <2>7. LooksUp("ctl", "remove") /\ job'["ctl"].fd # 0
    BY <1>2, <2>3, <2>5, <2>6 DEF LooksUp, Unfinished, IsJob, e
  <2> QED
    BY <1>2, <2>5, <2>7, OneMoves, StringsApart DEF JobMoves
<1> QED
  BY <1>1, <1>2 DEF StopHttp

LEMMA ServingMoves ==
    ASSUME NodeTypeOK, ServesClient, Serving PROVE JobsMove
<1>0. "ctl" \in Threads /\ "worker" \in Threads
  BY StringsApart
<1>1. CASE UNCHANGED job
  BY <1>1 DEF JobsMove, JobMoves, SameJob, NodeTypeOK
<1>2. CASE StopHttp
  BY <1>2, StopHttpMoves
<1>3. CASE StartHttp
  <2> DEFINE j == [Idle EXCEPT !.at = "socket", !.farm = cmd.data]
  <2>1. cmd.data \in Names
    BY <1>3, CommandFarm DEF StartHttp
  <2>2. j \in Jobs /\ j.fd = 0 /\ j.at = "socket"
    BY <2>1, NewJobs DEF IsJob
  <2>3. job' = [job EXCEPT !["ctl"] = j]
    BY <1>3 DEF StartHttp
  <2>4. ~Unfinished("ctl")
    BY <1>3 DEF StartHttp, Do, NodeTypeOK, Unfinished
  <2> HIDE DEF j
  <2> QED
    BY <1>0, <2>2, <2>3, <2>4, FreshMoves
<1>4. CASE RemoveFarm
  <2>1. /\ job' = [job EXCEPT !["ctl"] = Idle] /\ ~Unfinished("ctl")
        /\ Idle \in Jobs /\ Idle.at = "idle" /\ Idle.fd = 0
    BY <1>4, NewJobs DEF RemoveFarm, Unfinished, IsJob
  <2> QED
    BY <1>0, <2>1, FreshMoves
<1>5. CASE NextSession
  <2>1. PICK f \in todo : job' = [job EXCEPT !["ctl"] = SendPoundAction(f)]
    BY <1>5 DEF NextSession
  <2>2. f \in Names
    BY DEF NodeTypeOK
  <2>3. /\ SendPoundAction(f) \in Jobs /\ SendPoundAction(f).at = "find"
        /\ SendPoundAction(f).fd = 0
    BY <2>2, NewJobs DEF IsJob
  <2>4. ~Unfinished("ctl")
    BY <1>5, NewJobs DEF NextSession, IsJob, Unfinished
  <2> QED
    BY <1>0, <2>1, <2>3, <2>4, FreshMoves
<1>6. CASE WorkerTakes
  <2> DEFINE f == Head(input_data).farm
  <2>1. job' = job \/ job' = [job EXCEPT !["worker"] = SendPoundAction(f)]
    BY <1>6 DEF WorkerTakes
  <2>2. f \in Names
    <3>1. Head(input_data) \in Actions
      BY <1>6, QueueTypes DEF WorkerTakes, NodeTypeOK
    <3> QED
      BY <3>1 DEF Actions
  <2>3. /\ SendPoundAction(f) \in Jobs /\ SendPoundAction(f).at = "find"
        /\ SendPoundAction(f).fd = 0
    BY <2>2, NewJobs DEF IsJob
  <2>4. ~Unfinished("worker")
    BY <1>6, NewJobs DEF WorkerTakes, IsJob, Unfinished
  <2> HIDE DEF f
  <2> QED
    BY <1>0, <1>1, <2>1, <2>3, <2>4, FreshMoves
<1>7. CASE AcceptClient \/ WriteHttp \/ Answer
  BY <1>1, <1>7 DEF AcceptClient, WriteHttp, Answer
<1> QED
  BY <1>2, <1>3, <1>4, <1>5, <1>6, <1>7 DEF Serving

LEMMA JobSteps ==
    ASSUME NodeTypeOK, ServesClient, NodeNext PROVE JobsMove
<1>1. CASE Quiet \/ Outside \/ Reading
  <2>1. UNCHANGED job
    BY <1>1, QuietKeeps, OutsideKeeps, ReadingKeeps DEF ctlVars
  <2> QED
    BY <2>1 DEF JobsMove, JobMoves, SameJob, NodeTypeOK
<1>2. ASSUME NEW t \in Threads, Job(t) PROVE JobsMove
  BY <1>2, OpenSocketMoves, ConnectMoves, WatchMoves, NameMoves, LookMoves,
     OtherJobMoves DEF Job
<1> QED
  BY <1>1, <1>2, ServingMoves, NodeSteps

\* Jobs begin in a process that listens.
LEMMA IdleSteps ==
    ASSUME NodeTypeOK, ServesClient, NodeNext, ~is_running', at # "jobs",
           \A t \in Threads : job[t] = Idle
    PROVE  ~is_running /\ UNCHANGED job /\ at' # "jobs"
<1>0. \A t \in Threads : job[t].at = "idle"
  BY NewJobs DEF IsJob
<1>1. CASE Quiet
  BY <1>1, QuietKeeps DEF Quiet, ReadCommand, JobsDone, ClearHttp, OtherCommand, Quit,
     SwitchMode, SigPipe, Ended, Interrupt, PoundStarts, PoundHangs, PoundResumes, Call,
     httpVars, ctlVars
<1>2. CASE Serving
  BY <1>0, <1>2, StringsApart DEF Serving, AcceptClient, StartHttp, StopHttp, RemoveFarm,
     WriteHttp, NextSession, Answer, WorkerTakes, StartListener, httpVars
<1>3. CASE Outside \/ Reading
  BY <1>3, OutsideKeeps, ReadingKeeps DEF ctlVars, httpVars
<1>4. ASSUME NEW t \in Threads, Job(t) PROVE FALSE
  BY <1>0, <1>4 DEF Job, Find, OpenSocket, NoSocket, Connect, Watch, Name, Announce, Look,
     Send, SendBlocks, Retry
<1> QED
  BY <1>1, <1>2, <1>3, <1>4, NodeSteps

-----------------------------------------------------------------------------
\* What a step does to the descriptor table

Kept(fd) ==
    /\ file'[fd].kind = file[fd].kind /\ file'[fd].farm = file[fd].farm
    /\ file'[fd].watched = file[fd].watched
          \/ \E t \in Threads : Watch(t) /\ job[t].fd = fd /\ job'[t].at = "name"

Opened(fd) ==
    /\ fd \in FreeFds /\ ~file'[fd].watched
    /\ \/ file'[fd].kind \in {"epoll", "ctl", "other"}
       \/ /\ file'[fd].kind = "socket"
          /\ \E t \in Threads : OpenSocket(t) /\ job'[t].at = "connect" /\ job'[t].fd = fd

Connected(fd) ==
    /\ file[fd].kind = "socket" /\ file'[fd].kind = "pound"
    /\ file'[fd].watched = file[fd].watched
    /\ \E t \in Threads : /\ Connect(t) /\ Goes(t, "connect", "watch") /\ job[t].fd = fd
                          /\ file'[fd].farm = job[t].farm

Closed(fd) ==
    /\ file'[fd].kind = "free" /\ fd # epoll_fd
    /\ file[fd].kind \in {"socket", "pound"} /\ Unnamed(fd) => fd \in raced'
    /\ file[fd].kind = "ctl" => astray' \/ Answer

(***************************************************************************)
(* A descriptor is kept, opened, connected or closed.  It becomes one of   *)
(* Pound only in add_farm, and while add_farm works on it, it is not       *)
(* closed without that being recorded.  The connection of ssyncdctl is     *)
(* closed by Answer.                                                       *)
(***************************************************************************)
FileMoves(fd) == Kept(fd) \/ Opened(fd) \/ Connected(fd) \/ Closed(fd)

FilesMove == file' \in [FDs -> Files] /\ \A fd \in FDs : FileMoves(fd)

LEMMA OneFile ==
    ASSUME NodeTypeOK, NEW d \in FDs, NEW x \in Files, file' = [file EXCEPT ![d] = x]
    PROVE  /\ file'[d] = x
           /\ FileMoves(d) => FilesMove
<1>1. \A e \in FDs : e # d => file'[e] = file[e]
  BY DEF NodeTypeOK
<1>2. file'[d] = x /\ file' \in [FDs -> Files]
  BY DEF NodeTypeOK
<1> QED
  BY <1>1, <1>2 DEF FilesMove, FileMoves, Kept

LEMMA SameFiles ==
    ASSUME NodeTypeOK, UNCHANGED file PROVE FilesMove
BY DEF FilesMove, FileMoves, Kept, NodeTypeOK

\* A field changes that nothing here depends on.
LEMMA FieldMoves ==
    ASSUME NodeTypeOK, NEW d \in FDs, NEW b \in BOOLEAN,
           file' = [file EXCEPT ![d].data = b]
    PROVE  FilesMove
<1> DEFINE x == [file[d] EXCEPT !.data = b]
<1>1. file[d] \in Files
  BY DEF NodeTypeOK
<1>2. /\ x \in Files /\ x.kind = file[d].kind /\ x.farm = file[d].farm
      /\ x.watched = file[d].watched
  BY <1>1, FilesFields
<1>3. file' = [file EXCEPT ![d] = x]
  BY DEF NodeTypeOK
<1> HIDE DEF x
<1> QED
  BY <1>2, <1>3, OneFile DEF FileMoves, Kept

LEMMA OpensFile ==
    ASSUME NodeTypeOK, NEW d \in FreeFds, NEW k \in {"epoll", "ctl", "other"},
           file' = [file EXCEPT ![d] = File(k, NoName)]
    PROVE  FilesMove /\ file'[d].kind = k
<1>1. File(k, NoName) \in Files /\ File(k, NoName).kind = k /\ ~File(k, NoName).watched
  BY FileTypes DEF Kinds
<1>2. d \in FDs
  BY DEF FreeFds
<1>3. file'[d] = File(k, NoName) /\ (FileMoves(d) => FilesMove)
  BY <1>1, <1>2, OneFile
<1>4. Opened(d)
  BY <1>1, <1>3 DEF Opened
<1> QED
  BY <1>1, <1>3, <1>4 DEF FileMoves

LEMMA ClosesFile ==
    ASSUME NodeTypeOK, NEW d \in FDs, Close(d), d # epoll_fd,
           file[d].kind \in {"socket", "pound"} /\ Unnamed(d) => d \in raced',
           file[d].kind = "ctl" => astray' \/ Answer
    PROVE  FilesMove
BY OneFile, FileTypes DEF Close, FileMoves, Closed

\* epoll_create
LEMMA ListenerFiles ==
    ASSUME NodeTypeOK, StartListener
    PROVE  /\ FilesMove
           /\ \/ UNCHANGED epoll_fd
              \/ epoll_fd' \in FDs /\ file'[epoll_fd'].kind = "epoll"
<1>1. CASE UNCHANGED <<epoll_fd, file>>
  BY <1>1, SameFiles
<1>2. CASE FreeFds # {}
  <2>1. PICK fd \in FDs : IsNextFd(fd) /\ epoll_fd' = fd
                          /\ file' = [file EXCEPT ![fd] = File("epoll", NoName)]
    BY <1>2 DEF StartListener
  <2>2. \A k \in {"epoll"} : file' = [file EXCEPT ![fd] = File(k, NoName)]
                                => FilesMove /\ file'[fd].kind = k
    BY <2>1, OpensFile DEF IsNextFd
  <2> QED
    BY <2>1, <2>2
<1> QED
  BY <1>1, <1>2 DEF StartListener

LEMMA AnswerFiles ==
    ASSUME NodeTypeOK, ServesClient, Answer PROVE FilesMove
<1>1. cfd \in FDs /\ file[cfd].kind = "ctl" /\ Close(cfd)
  BY DEF ServesClient, Answer, Runs, CloseClient
<1>2. cfd # epoll_fd
  BY <1>1, NumbersApart DEF NodeTypeOK
<1> QED
  BY <1>1, <1>2, ClosesFile

LEMMA RemoveFarmFiles ==
    ASSUME NodeTypeOK, EpollUnnamed, AimsRight, RemoveFarm PROVE FilesMove
<1> DEFINE d == job["ctl"].fd
<1>1. d \in FDs /\ d # epoll_fd
  BY StringsApart, NumbersApart DEF AimsRight, RemoveFarm, EpollUnnamed
<1>2. /\ Close(d)
      /\ Unnamed(d) => d \in raced'
      /\ file[d].kind = "ctl" => astray'
  BY DEF RemoveFarm, LoseName
<1> HIDE DEF d
<1> QED
  BY <1>1, <1>2, ClosesFile

LEMMA ServingFiles ==
    ASSUME NodeTypeOK, ServesClient, EpollUnnamed, AimsRight, Serving PROVE FilesMove
<1>1. CASE AcceptClient
  <2>1. PICK fd \in FreeFds : \A k \in {"ctl"} : file' = [file EXCEPT ![fd] = File(k, NoName)]
    BY <1>1 DEF AcceptClient, IsNextFd
  <2> QED
    BY <2>1, OpensFile
<1>2. CASE StartHttp \/ WriteHttp
  BY <1>2, SameFiles, ListenerFiles DEF StartHttp, WriteHttp
<1>3. CASE StopHttp \/ NextSession \/ WorkerTakes
  BY <1>3, SameFiles DEF StopHttp, NextSession, WorkerTakes
<1> QED
  BY <1>1, <1>2, <1>3, AnswerFiles, RemoveFarmFiles DEF Serving

LEMMA OutsideFiles ==
    ASSUME NodeTypeOK, Outside PROVE FilesMove
<1>1. CASE OtherThread
  <2>1. PICK d \in FDs :
          \/ d \in FreeFds /\ file' = [file EXCEPT ![d] = File("other", NoName)]
          \/ file[d].kind = "other" /\ Close(d)
    BY <1>1 DEF OtherThread, IsNextFd
  <2>2. CASE d \in FreeFds /\ file' = [file EXCEPT ![d] = File("other", NoName)]
    <3>1. \A k \in {"other"} : file' = [file EXCEPT ![d] = File(k, NoName)]
      BY <2>2
    <3> QED
      BY <2>2, <3>1, OpensFile
  <2>3. CASE file[d].kind = "other" /\ Close(d)
    <3>1. d # epoll_fd
      BY <2>3, NumbersApart DEF NodeTypeOK
    <3> QED
      BY <2>3, <3>1, ClosesFile
  <2> QED
    BY <2>1, <2>2, <2>3
<1>2. CASE PoundSends
  BY <1>2, FieldMoves DEF PoundSends
<1>3. ASSUME NEW f \in Farms, PoundStops(f) PROVE FilesMove
  <2>1. \A fd \in FDs : file'[fd] \in {file[fd], [file[fd] EXCEPT !.hup = TRUE]}
    BY <1>3 DEF PoundStops
  <2>2. \A fd \in FDs : file[fd] \in Files
    BY DEF NodeTypeOK
  <2>3. ASSUME NEW fd \in FDs PROVE file'[fd] \in Files /\ Kept(fd)
    <3>1. file[fd] \in Files
      BY <2>2
    <3>2. CASE file'[fd] = file[fd]
      BY <3>1, <3>2 DEF Kept
    <3>3. ASSUME NEW y \in BOOLEAN, file'[fd] = [file[fd] EXCEPT !.hup = y]
          PROVE  file'[fd] \in Files /\ Kept(fd)
      <4>1. /\ [file[fd] EXCEPT !.hup = y] \in Files
            /\ [file[fd] EXCEPT !.hup = y].kind = file[fd].kind
            /\ [file[fd] EXCEPT !.hup = y].farm = file[fd].farm
            /\ [file[fd] EXCEPT !.hup = y].watched = file[fd].watched
        BY <3>1, <3>3, FilesFields
      <4> QED
        BY <3>3, <4>1 DEF Kept
    <3> QED
      BY <2>1, <3>2, <3>3
  <2>4. file' = [fd \in FDs |-> file'[fd]]
    BY <1>3 DEF PoundStops
  <2> QED
    BY <2>3, <2>4 DEF FilesMove, FileMoves
<1> QED
  BY <1>1, <1>2, <1>3 DEF Outside

LEMMA ReadingFiles ==
    ASSUME NodeTypeOK, EpollUnnamed, ReadRight, Reading PROVE FilesMove
<1>1. CASE PeerDisconnect
  <2>1. lst.fd \in FDs /\ lst.fd # epoll_fd
    BY <1>1, NumbersApart DEF PeerDisconnect, ReadRight, EpollUnnamed
  <2> QED
    BY <1>1, <2>1, ClosesFile DEF PeerDisconnect, LoseName
<1>2. ASSUME NEW fd \in FDs, ReadSessions(fd) PROVE FilesMove
  BY <1>2, FieldMoves DEF ReadSessions
<1>3. CASE \/ EpollWait \/ QueueSessions \/ QueueDisconnect
           \/ \E fd \in FDs : ReadEof(fd) \/ ReadElse(fd)
  BY <1>3, SameFiles DEF EpollWait, QueueSessions, QueueDisconnect, QueueAs, ReadEof,
     ReadElse
<1> QED
  BY <1>1, <1>2, <1>3 DEF Reading

LEMMA ConnectFiles ==
    ASSUME NodeTypeOK, NEW t \in Threads, Connect(t), Unfinished(t) => job[t].fd \in FDs
    PROVE  FilesMove
<1> DEFINE d == job[t].fd
           f == job[t].farm
           x == [file[d] EXCEPT !.kind = "pound", !.farm = f]
<1>1. CASE UNCHANGED file
  BY <1>1, SameFiles
<1>2. CASE /\ file[d].kind = "socket" /\ Goto(t, "watch")
           /\ file' = [file EXCEPT ![d].kind = "pound", ![d].farm = f]
  <2>1. job[t].at = "connect" /\ d \in FDs /\ job[t] \in Jobs
    BY DEF Connect, Unfinished, NodeTypeOK
  <2>2. f \in Names /\ file[d] \in Files
    BY <2>1, JobFields DEF NodeTypeOK
  <2>3. /\ x \in Files /\ x.kind = "pound" /\ x.farm = f /\ x.watched = file[d].watched
    <3> HIDE DEF d, f
    <3> QED
      BY <2>2, FilesFields
  <2>4. file' = [file EXCEPT ![d] = x]
    <3> HIDE DEF d, f
    <3> QED
      BY <1>2, <2>1 DEF NodeTypeOK
  <2>5. Goes(t, "connect", "watch")
    <3>1. \A a \in {"watch"} : Goto(t, a) =>
             IsJob(job'[t], a, job[t].farm, job[t].fd, job[t].send, job[t].early)
      BY GoesTo DEF Ats
    <3> QED
      BY <1>2, <2>1, <3>1 DEF Goes, IsJob
  <2> HIDE DEF x
  <2>6. file'[d] = x /\ (FileMoves(d) => FilesMove)
    BY <2>1, <2>3, <2>4, OneFile
  <2>7. Connected(d)
    BY <1>2, <2>3, <2>5, <2>6 DEF Connected
  <2> QED
    BY <2>6, <2>7 DEF FileMoves
<1> QED
  BY <1>1, <1>2 DEF Connect

LEMMA WatchFiles ==
    ASSUME NodeTypeOK, NEW t \in Threads, Watch(t), Unfinished(t) => job[t].fd \in FDs
    PROVE  FilesMove
<1> DEFINE d == job[t].fd
           x == [file[d] EXCEPT !.watched = TRUE]
<1>1. CASE UNCHANGED file
  BY <1>1, SameFiles
<1>2. CASE Goto(t, "name") /\ file' = [file EXCEPT ![d].watched = TRUE]
  <2>1. job[t].at = "watch" /\ d \in FDs /\ file[d] \in Files
    BY DEF Watch, Unfinished, NodeTypeOK
  <2>2. x \in Files /\ x.kind = file[d].kind /\ x.farm = file[d].farm
    BY <2>1, FilesFields
  <2>3. file' = [file EXCEPT ![d] = x]
    <3> HIDE DEF d
    <3> QED
      BY <1>2, <2>1 DEF NodeTypeOK
  <2>4. job'[t].at = "name"
    <3>1. \A a \in {"name"} : Goto(t, a) =>
             IsJob(job'[t], a, job[t].farm, job[t].fd, job[t].send, job[t].early)
      BY GoesTo DEF Ats
    <3> QED
      BY <1>2, <3>1 DEF IsJob
  <2> HIDE DEF x
  <2>5. file'[d] = x /\ (FileMoves(d) => FilesMove)
    BY <2>1, <2>2, <2>3, OneFile
  <2>6. Kept(d)
    BY <2>2, <2>4, <2>5 DEF Kept
  <2> QED
    BY <2>5, <2>6 DEF FileMoves
<1> QED
  BY <1>1, <1>2 DEF Watch

LEMMA JobFiles ==
    ASSUME NodeTypeOK, NamesItsOwn, NEW t \in Threads, Job(t) PROVE FilesMove
<1>1. Unfinished(t) => job[t].fd \in FDs
  BY DEF NamesItsOwn
<1>2. CASE OpenSocket(t)
  <2>1. PICK fd \in FreeFds :
           /\ file' = [file EXCEPT ![fd] = File("socket", NoName)]
           /\ job'[t].at = "connect" /\ job'[t].fd = fd
    BY <1>2, OpenSocketMoves
  <2>2. /\ File("socket", NoName) \in Files /\ File("socket", NoName).kind = "socket"
        /\ ~File("socket", NoName).watched
    BY FileTypes DEF Kinds
  <2>3. fd \in FDs
    BY DEF FreeFds
  <2>4. file'[fd] = File("socket", NoName) /\ (FileMoves(fd) => FilesMove)
    BY <2>1, <2>2, <2>3, OneFile
  <2>5. Opened(fd)
    BY <1>2, <2>1, <2>2, <2>4 DEF Opened
  <2> QED
    BY <2>4, <2>5 DEF FileMoves
<1>3. CASE Connect(t) \/ Watch(t)
  BY <1>1, <1>3, ConnectFiles, WatchFiles
<1>4. CASE Send(t) \/ Retry(t)
  <2> DEFINE d == job[t].fd
             b == file[d].data \/ (t = "worker" /\ file[d].kind = "pound" /\ ~file[d].hup)
  <2>1. Deliver(t) /\ job[t] \in Jobs
    BY <1>4 DEF Send, Retry, NodeTypeOK
  <2>2. CASE d = 0
    BY <2>1, <2>2, SameFiles DEF Deliver
  <2>3. CASE d # 0
    <3>1. d \in FDs /\ file[d] \in Files
      BY <2>1, <2>3, JobFields DEF NodeTypeOK
    <3>2. b \in BOOLEAN
      BY <3>1, FilesFields
    <3>3. file' = [file EXCEPT ![d].data = b]
      BY <2>1, <2>3 DEF Deliver
    <3> HIDE DEF d, b
    <3> QED
      BY <3>1, <3>2, <3>3, FieldMoves
  <2> QED
    BY <2>2, <2>3
<1>5. CASE Find(t) \/ NoSocket(t) \/ Name(t) \/ Announce(t) \/ Look(t) \/ SendBlocks(t)
  BY <1>5, SameFiles DEF Find, NoSocket, Name, Announce, Look, SendBlocks
<1> QED
  BY <1>2, <1>3, <1>4, <1>5 DEF Job

LEMMA FileSteps ==
    ASSUME NodeTypeOK, ServesClient, EpollUnnamed, NamesItsOwn, ReadRight, AimsRight, NodeNext
    PROVE  FilesMove
<1>1. CASE Quiet
  BY <1>1, QuietKeeps, SameFiles
<1>2. ASSUME NEW t \in Threads, Job(t) PROVE FilesMove
  BY <1>2, JobFiles
<1> QED
  BY <1>1, <1>2, ServingFiles, OutsideFiles, ReadingFiles, NodeSteps

-----------------------------------------------------------------------------
\* What a step does to the names, the listener, epoll and what is recorded

(***************************************************************************)
(* farms_fd changes where add_farm names a descriptor, and where the       *)
(* listener looks up a number that has no name.                            *)
(***************************************************************************)
LEMMA NameSteps ==
    ASSUME NodeTypeOK, NodeNext, NEW fd \in FDs
    PROVE  \/ farms_fd'[fd] = farms_fd[fd]
           \/ /\ fd = lst.fd /\ lst.at # "wait" /\ farms_fd[fd] = Absent
              /\ lst' = Waiting
           \/ \E t \in Threads : /\ Name(t) /\ job[t].at = "name" /\ job[t].fd = fd
                                 /\ farms_fd'[fd] = job[t].farm
<1>1. CASE Quiet \/ Serving \/ Outside
  BY <1>1, QuietKeeps, OutsideKeeps DEF httpVars, Serving, AcceptClient, StartHttp,
     StopHttp, RemoveFarm, WriteHttp, NextSession, Answer, WorkerTakes
<1>2. CASE QueueSessions \/ QueueDisconnect
  <2>1. /\ farms_fd' = [farms_fd EXCEPT ![lst.fd] = NameOf(lst.fd)]
        /\ lst' = Waiting /\ lst.at # "wait"
    BY <1>2 DEF QueueSessions, QueueDisconnect, QueueAs
  <2> QED
    BY <2>1 DEF NodeTypeOK, NameOf
<1>3. CASE \/ EpollWait \/ PeerDisconnect
           \/ \E d \in FDs : ReadSessions(d) \/ ReadEof(d) \/ ReadElse(d)
  BY <1>3 DEF EpollWait, PeerDisconnect, ReadSessions, ReadEof, ReadElse
<1>4. ASSUME NEW t \in Threads, Name(t)
      PROVE  \/ farms_fd'[fd] = farms_fd[fd]
             \/ job[t].at = "name" /\ job[t].fd = fd /\ farms_fd'[fd] = job[t].farm
  BY <1>4 DEF Name, NameFarm, NodeTypeOK
<1>5. ASSUME NEW t \in Threads, Job(t), ~Name(t) PROVE UNCHANGED farms_fd
  BY <1>5 DEF Job, Find, OpenSocket, NoSocket, Connect, Watch, Announce, Look, Send,
     SendBlocks, Retry, Deliver, httpVars
<1> QED
  BY <1>1, <1>2, <1>3, <1>4, <1>5, NodeSteps DEF Reading

(***************************************************************************)
(* What is recorded as lost stays so until the number is taken again, and  *)
(* what is added was being worked on.                                      *)
(***************************************************************************)
RacedMoves ==
    /\ raced' \subseteq FDs
    /\ \A fd \in raced : fd \in raced' \/ (~Unnamed(fd) /\ fd \in FreeFds)
    /\ \A fd \in raced' \ raced : Unnamed(fd) /\ fd # epoll_fd /\ epoll_fd # 0

LEMMA RacedSteps ==
    ASSUME NodeTypeOK, EpollUnnamed, AimsRight, ReadRight, NodeNext
    PROVE  RacedMoves
<1>0. raced \subseteq FDs
  BY DEF NodeTypeOK
<1>1. ASSUME UNCHANGED raced PROVE RacedMoves
  BY <1>0, <1>1 DEF RacedMoves
<1>2. ASSUME NEW d \in FDs, LoseName(d), d # epoll_fd, epoll_fd # 0 PROVE RacedMoves
  BY <1>0, <1>2 DEF LoseName, RacedMoves
<1>3. CASE RemoveFarm
  <2>1. LoseName(job["ctl"].fd) /\ job["ctl"].at = "remove"
    BY <1>3 DEF RemoveFarm
  <2>2. job["ctl"].fd \in FDs /\ epoll_fd # 0 /\ job["ctl"].fd # epoll_fd
    BY <2>1, StringsApart DEF AimsRight, EpollUnnamed
  <2> QED
    BY <1>2, <2>1, <2>2
<1>4. CASE PeerDisconnect
  <2>1. LoseName(lst.fd) /\ lst.at = "close"
    BY <1>4 DEF PeerDisconnect
  <2>2. lst.fd \in FDs /\ epoll_fd # 0 /\ lst.fd # epoll_fd
    BY <2>1 DEF ReadRight, EpollUnnamed, Waiting
  <2> QED
    BY <1>2, <2>1, <2>2
<1>5. ASSUME NEW t \in Threads, OpenSocket(t) PROVE RacedMoves
  BY <1>0, <1>5, OpenSocketMoves DEF RacedMoves
<1>6. ASSUME NEW t \in Threads, Job(t), ~OpenSocket(t) PROVE RacedMoves
  BY <1>1, <1>6 DEF Job, Find, NoSocket, Connect, Watch, Name, Announce, Look, Send,
     SendBlocks, Retry, Deliver, historyVars
<1>7. CASE Quiet \/ Outside
  BY <1>1, <1>7, QuietKeeps, OutsideKeeps DEF historyVars
<1>8. CASE Serving
  BY <1>1, <1>3, <1>8 DEF Serving, AcceptClient, StartHttp, StopHttp, WriteHttp,
     NextSession, Answer, WorkerTakes, historyVars
<1>9. CASE Reading
  BY <1>1, <1>4, <1>9 DEF Reading, EpollWait, QueueSessions, QueueDisconnect, QueueAs,
     ReadSessions, ReadEof, ReadElse, historyVars
<1> QED
  BY <1>5, <1>6, <1>7, <1>8, <1>9, NodeSteps

(***************************************************************************)
(* The listener reads a connection to Pound, goes on with it or is done.   *)
(* A name that is given meanwhile is recorded.                             *)
(***************************************************************************)
ListenerReads(fd) ==
    /\ lst = Waiting /\ fd \in events /\ file[fd].kind = "pound"
    /\ \E next \in {"file", "close"} : Read(fd, next)

ListenerStays ==
    /\ lst'.fd = lst.fd /\ lst'.from = lst.from /\ (lst.early => lst'.early)
    /\ lst'.early = lst.early \/ \E t \in Threads : Name(t)
    /\ lst'.at = lst.at \/ (lst.at = "close" /\ lst'.at = "gone")
    /\ \A t \in Threads : Name(t) /\ job[t].fd = lst.fd /\ lst.at # "wait" => lst'.early

LEMMA LstSteps ==
    ASSUME NodeTypeOK, NodeNext
    PROVE  /\ lst' \in Listening
           /\ \/ lst' = Waiting
              \/ ListenerStays
              \/ \E fd \in FDs : ListenerReads(fd)
<1>0. lst \in Listening /\ Waiting \in Listening
  BY DEF NodeTypeOK, Waiting, Listening, Names
<1>1. ASSUME NEW t \in Threads, Name(t) PROVE lst' \in Listening /\ ListenerStays
  <2> DEFINE e == lst.early \/ (lst.at # "wait" /\ lst.fd = job[t].fd)
  <2>1. lst' = [lst EXCEPT !.early = e]
    BY <1>1 DEF Name
  <2>2. e \in BOOLEAN
    BY <1>0 DEF Listening
  <2>3. /\ lst' \in Listening /\ lst'.at = lst.at /\ lst'.fd = lst.fd
        /\ lst'.from = lst.from /\ lst'.early = e
    <3> HIDE DEF e
    <3> QED
      BY <1>0, <2>1, <2>2 DEF Listening
  <2>4. ASSUME NEW u \in Threads, Name(u), job[u].fd = lst.fd, lst.at # "wait"
        PROVE  lst'.early
    <3>1. lst' = [lst EXCEPT !.early = lst.early \/ (lst.at # "wait" /\ lst.fd = job[u].fd)]
      BY <2>4 DEF Name
    <3>2. lst' = [lst EXCEPT !.early = TRUE]
      BY <2>4, <3>1
    <3> QED
      BY <1>0, <3>2 DEF Listening
  <2> QED
    BY <1>1, <2>3, <2>4 DEF ListenerStays
<1>2. ASSUME UNCHANGED lst, \A t \in Threads : ~Name(t)
      PROVE  lst' \in Listening /\ ListenerStays
  BY <1>0, <1>2 DEF ListenerStays
<1>3. ASSUME NEW fd \in FDs, ReadSessions(fd) \/ ReadEof(fd), lst' # lst
      PROVE  lst' \in Listening /\ ListenerReads(fd)
  <2>1. PICK next \in {"file", "close"} : Read(fd, next)
    BY <1>3 DEF ReadSessions, ReadEof
  <2>2. file[fd] \in Files /\ Early(fd) \in BOOLEAN
    BY DEF NodeTypeOK, Early, Unnamed
  <2>3. lst' \in Listening
    BY <2>1, <2>2, FilesFields DEF Read, Listening
  <2> QED
    BY <1>3, <2>1, <2>3 DEF ListenerReads, ReadSessions, ReadEof, Takes
<1>4. CASE PeerDisconnect
  <2>1. lst' = [lst EXCEPT !.at = "gone"] /\ lst.at = "close" /\ UNCHANGED farms_fd
    BY <1>4 DEF PeerDisconnect
  <2>2. /\ lst' \in Listening /\ lst'.at = "gone" /\ lst'.fd = lst.fd
        /\ lst'.from = lst.from /\ lst'.early = lst.early
    BY <1>0, <2>1 DEF Listening
  <2>3. ASSUME NEW t \in Threads, Name(t) PROVE lst'.at = lst.at
    BY <1>1, <2>3, <1>0 DEF Name, Listening
  <2> QED
    BY <2>1, <2>2, <2>3 DEF ListenerStays
<1>5. CASE Quiet \/ Outside \/ Serving
  <2>1. UNCHANGED <<lst, farms_fd>>
    BY <1>5, QuietKeeps, OutsideKeeps DEF httpVars, Serving, AcceptClient, StartHttp,
       StopHttp, RemoveFarm, WriteHttp, NextSession, Answer, WorkerTakes
  <2> QED
    BY <1>1, <1>2, <2>1
<1>6. ASSUME NEW t \in Threads, Job(t), ~Name(t) PROVE UNCHANGED lst
  BY <1>6 DEF Job, Find, OpenSocket, NoSocket, Connect, Watch, Announce, Look, Send,
     SendBlocks, Retry, Deliver, httpVars
<1>7. CASE QueueSessions \/ QueueDisconnect
  BY <1>0, <1>7 DEF QueueSessions, QueueDisconnect, QueueAs
<1>8. ASSUME EpollWait \/ \E fd \in FDs : ReadElse(fd) PROVE UNCHANGED lst
  BY <1>8 DEF EpollWait, ReadElse
<1> QED
  BY <1>1, <1>2, <1>3, <1>4, <1>5, <1>6, <1>7, <1>8, NodeSteps DEF Reading

\* epoll_create: once, by the call that finds the listener not running
LEMMA EpollSteps ==
    ASSUME NodeTypeOK, NodeNext
    PROVE  \/ /\ epoll_fd' = epoll_fd /\ (is_running => is_running')
              /\ events' \subseteq FDs
              /\ epoll_fd = 0 /\ events = {} => events' = {}
           \/ /\ ~is_running /\ epoll_fd = 0 /\ is_running'
              /\ StartListener /\ (StartHttp \/ WriteHttp)
              /\ UNCHANGED <<farms_fd, raced, lst, events>>
<1>0. events \subseteq FDs /\ (epoll_fd # 0 => is_running)
  BY DEF NodeTypeOK
<1>1. CASE StartHttp \/ WriteHttp
  <2>1. CASE is_running
    BY <1>0, <1>1, <2>1 DEF StartHttp, WriteHttp
  <2>2. CASE ~is_running
    BY <1>0, <1>1, <2>2 DEF StartHttp, WriteHttp, StartListener, historyVars
  <2> QED
    BY <2>1, <2>2
<1>2. CASE Quiet \/ Outside \/ (Serving /\ ~StartHttp /\ ~WriteHttp)
  BY <1>0, <1>2, QuietKeeps, OutsideKeeps DEF httpVars, Serving, AcceptClient,
     StopHttp, RemoveFarm, NextSession, Answer, WorkerTakes
<1>3. CASE Reading
  <2>1. events' \subseteq FDs /\ (epoll_fd = 0 /\ events = {} => events' = {})
    BY <1>0, <1>3 DEF Reading, EpollWait, PeerDisconnect, QueueSessions, QueueDisconnect,
       QueueAs, ReadSessions, ReadEof, ReadElse, Takes, Ready
  <2> QED
    BY <1>3, <2>1, ReadingKeeps
<1>4. ASSUME NEW t \in Threads, Job(t) PROVE UNCHANGED <<epoll_fd, is_running, events>>
  BY <1>4, JobKeeps
<1> QED
  BY <1>0, <1>1, <1>2, <1>3, <1>4, NodeSteps

(***************************************************************************)
(* The queue grows by one action at its end, or the worker takes the first *)
(* An action about another farm than that of the connection is early.      *)
(***************************************************************************)
Filed(a) == a.farm # a.from => a.early

QueueMoves ==
    \/ UNCHANGED input_data
    \/ input_data # <<>> /\ input_data' = Tail(input_data)
    \/ \E a \in Actions : Filed(a) /\ input_data' = Append(input_data, a)

LEMMA FiledAction ==
    ASSUME NEW y \in {"CONNECT", "DISCONNECT", "HTTP_SYNC"}, NEW f \in Names,
           NEW g \in Names, NEW e \in BOOLEAN, f # g => e
    PROVE  Action(y, f, g, e) \in Actions /\ Filed(Action(y, f, g, e))
<1>1. Action(y, f, g, e) \in Actions
  BY ActionType
<1>2. Filed(Action(y, f, g, e))
  BY DEF Action, Filed
<1> QED
  BY <1>1, <1>2

LEMMA NameOfType ==
    ASSUME NodeTypeOK, NEW fd \in FDs
    PROVE  NameOf(fd) \in Names /\ (farms_fd[fd] \in Names => NameOf(fd) = farms_fd[fd])
BY StringsApart, NumbersApart DEF NodeTypeOK, NameOf

LEMMA QueueSteps ==
    ASSUME NodeTypeOK, ReadRight, AimsRight, NodeNext PROVE QueueMoves
<1>1. CASE QueueSessions \/ QueueDisconnect
  <2>1. PICK y \in {"CONNECT", "DISCONNECT", "HTTP_SYNC"} :
           input_data' = Append(input_data, Action(y, NameOf(lst.fd), lst.from, lst.early))
    BY <1>1 DEF QueueSessions, QueueDisconnect, QueueAs
  <2>2. lst.fd \in FDs /\ (lst.early \/ NameOf(lst.fd) = lst.from)
    BY <1>1 DEF QueueSessions, QueueDisconnect, ReadRight
  <2>3. NameOf(lst.fd) \in Names /\ lst.from \in Names /\ lst.early \in BOOLEAN
    BY <2>2, NameOfType DEF NodeTypeOK, Listening
  <2> QED
    BY <2>1, <2>2, <2>3, FiledAction DEF QueueMoves
<1>2. CASE RemoveFarm
  <2> DEFINE j == job["ctl"]
             g == IF file[j.fd].kind = "pound" THEN file[j.fd].farm ELSE j.farm
  <2>1. \A y \in {"DISCONNECT"} : input_data' = Append(input_data, Action(y, j.farm, g, j.early))
    BY <1>2 DEF RemoveFarm
  <2>2. j \in Jobs /\ j.at = "remove"
    BY <1>2, StringsApart DEF RemoveFarm, NodeTypeOK
  <2>3. j.farm \in Names /\ j.early \in BOOLEAN
    BY <2>2, JobFields
  <2>4. j.fd \in FDs /\ file[j.fd] \in Files
    BY <2>2, StringsApart DEF AimsRight, NodeTypeOK
  <2>5. g \in Names
    BY <2>3, <2>4, FilesFields
  <2>6. j.farm # g => j.early
    BY <2>2, <2>4, StringsApart, NumbersApart DEF AimsRight
  <2> HIDE DEF g, j
  <2>7. \A y \in {"DISCONNECT"} : Action(y, j.farm, g, j.early) \in Actions
                                  /\ Filed(Action(y, j.farm, g, j.early))
    BY <2>3, <2>5, <2>6, FiledAction
  <2> QED
    BY <2>1, <2>7 DEF QueueMoves
<1>3. ASSUME NEW t \in Threads, Announce(t) PROVE QueueMoves
  <2> DEFINE f == job[t].farm
  <2>1. \A y \in {"CONNECT"}, e \in {FALSE} : input_data' = Append(input_data, Action(y, f, f, e))
    BY <1>3 DEF Announce
  <2>2. f \in Names
    BY JobFields DEF NodeTypeOK
  <2> HIDE DEF f
  <2>3. \A y \in {"CONNECT"}, e \in {FALSE} : Action(y, f, f, e) \in Actions
                                              /\ Filed(Action(y, f, f, e))
    BY <2>2, FiledAction
  <2> QED
    BY <2>1, <2>3 DEF QueueMoves
<1>4. CASE WorkerTakes
  BY <1>4 DEF WorkerTakes, QueueMoves
<1>5. ASSUME NEW t \in Threads, Job(t), ~Announce(t) PROVE UNCHANGED input_data
  BY <1>5 DEF Job, Find, OpenSocket, NoSocket, Connect, Watch, Name, Look, Send,
     SendBlocks, Retry, Deliver, httpVars
<1>6. CASE Quiet \/ Outside
  BY <1>6, QuietKeeps, OutsideKeeps DEF httpVars, QueueMoves
<1>7. CASE Serving
  BY <1>2, <1>4, <1>7 DEF Serving, AcceptClient, StartHttp, StopHttp, WriteHttp,
     NextSession, Answer, httpVars, QueueMoves
<1>8. CASE Reading
  BY <1>1, <1>8 DEF Reading, EpollWait, PeerDisconnect, ReadSessions, ReadEof, ReadElse,
     QueueMoves
<1> QED
  BY <1>3, <1>5, <1>6, <1>7, <1>8, NodeSteps DEF QueueMoves

LEMMA FiledQueue ==
    ASSUME NEW q \in Seq(Actions), \A i \in DOMAIN q : Filed(q[i])
    PROVE  /\ \A x \in Actions : Filed(x) => \A i \in DOMAIN Append(q, x) : Filed(Append(q, x)[i])
           /\ q # <<>> => \A i \in DOMAIN Tail(q) : Filed(Tail(q)[i])
OBVIOUS

(***************************************************************************)
(* What the control thread writes: send_pound_action is called with the    *)
(* farm of a session, and sends to the number it looked up.                *)
(***************************************************************************)
LEMMA WriteSteps ==
    ASSUME NodeTypeOK, NodeNext
    PROVE  \/ UNCHANGED wrote \/ wrote' = {}
           \/ \E t \in Threads :
                 /\ job[t].at \in {"send", "full"} /\ job[t].fd \in FDs
                 /\ wrote' = wrote \cup {[farm |-> job[t].farm, kind |-> file[job[t].fd].kind,
                                          to |-> file[job[t].fd].farm, early |-> job[t].early]}
<1>1. ASSUME NEW t \in Threads, Send(t) \/ Retry(t), wrote' # wrote
      PROVE  /\ job[t].at \in {"send", "full"} /\ job[t].fd \in FDs
             /\ wrote' = wrote \cup {[farm |-> job[t].farm, kind |-> file[job[t].fd].kind,
                                      to |-> file[job[t].fd].farm, early |-> job[t].early]}
  <2>1. Deliver(t) /\ job[t].at \in {"send", "full"}
    BY <1>1 DEF Send, Retry
  <2>2. job[t] \in Jobs /\ job[t].fd # 0
    BY <1>1, <2>1 DEF Deliver, NodeTypeOK
  <2>3. job[t].fd \in FDs
    BY <2>2, JobFields
  <2> QED
    BY <1>1, <2>1, <2>2, <2>3 DEF Deliver
<1>2. ASSUME NEW t \in Threads, Job(t), ~Send(t), ~Retry(t) PROVE UNCHANGED wrote
  BY <1>2 DEF Job, Find, OpenSocket, NoSocket, Connect, Watch, Name, Announce, Look,
     SendBlocks, historyVars
<1>3. CASE Quiet \/ Outside \/ Reading
  BY <1>3, QuietKeeps, OutsideKeeps, ReadingKeeps DEF historyVars
<1>4. CASE Serving
  BY <1>4 DEF Serving, AcceptClient, StartHttp, StopHttp, RemoveFarm, WriteHttp,
     NextSession, Answer, WorkerTakes, historyVars
<1> QED
  BY <1>1, <1>2, <1>3, <1>4, NodeSteps

-----------------------------------------------------------------------------
\* Types hold after a step

LEMMA EpollType ==
    ASSUME NodeTypeOK, ServesClient, EpollUnnamed, NamesItsOwn, ReadRight, AimsRight, NodeNext
    PROVE  /\ epoll_fd' \in FDs \cup {0}
           /\ epoll_fd' # 0 => is_running' /\ file'[epoll_fd'].kind = "epoll"
<1>0. epoll_fd \in FDs \cup {0} /\ (epoll_fd # 0 => is_running /\ file[epoll_fd].kind = "epoll")
  BY DEF NodeTypeOK
<1>1. CASE epoll_fd' = epoll_fd /\ (is_running => is_running')
  <2>1. ASSUME epoll_fd # 0 PROVE file'[epoll_fd].kind = "epoll"
    <3>1. FileMoves(epoll_fd) /\ epoll_fd \in FDs
      BY <1>0, <2>1, FileSteps DEF FilesMove
    <3> QED
      BY <1>0, <2>1, <3>1 DEF FileMoves, Kept, Opened, Connected, Closed, FreeFds
  <2> QED
    BY <1>0, <1>1, <2>1
<1>2. CASE epoll_fd = 0 /\ is_running' /\ StartListener
  BY <1>2, ListenerFiles
<1> QED
  BY <1>1, <1>2, EpollSteps

LEMMA NamesType ==
    ASSUME NodeTypeOK, ReadRight, NodeNext PROVE farms_fd' \in [FDs -> Names \cup {Absent}]
<1>0. farms_fd \in [FDs -> Names \cup {Absent}]
  BY DEF NodeTypeOK
<1>1. CASE QueueSessions \/ QueueDisconnect
  <2>1. lst.fd \in FDs /\ farms_fd' = [farms_fd EXCEPT ![lst.fd] = NameOf(lst.fd)]
    BY <1>1 DEF QueueSessions, QueueDisconnect, QueueAs, ReadRight
  <2> QED
    BY <1>0, <2>1, NameOfType
<1>2. ASSUME NEW t \in Threads, Name(t) PROVE farms_fd' \in [FDs -> Names \cup {Absent}]
  <2>1. job[t].farm \in Names
    BY JobFields DEF NodeTypeOK
  <2> QED
    BY <1>0, <1>2, <2>1 DEF Name, NameFarm
<1>3. ASSUME NEW t \in Threads, Job(t), ~Name(t) PROVE UNCHANGED farms_fd
  BY <1>3 DEF Job, Find, OpenSocket, NoSocket, Connect, Watch, Announce, Look, Send,
     SendBlocks, Retry, Deliver, httpVars
<1>4. CASE Quiet \/ Serving \/ Outside
  BY <1>0, <1>4, QuietKeeps, OutsideKeeps DEF httpVars, Serving, AcceptClient, StartHttp,
     StopHttp, RemoveFarm, WriteHttp, NextSession, Answer, WorkerTakes
<1>5. CASE Reading
  BY <1>0, <1>1, <1>5 DEF Reading, EpollWait, PeerDisconnect, ReadSessions, ReadEof, ReadElse
<1> QED
  BY <1>0, <1>2, <1>3, <1>4, <1>5, NodeSteps

\* The rest of the state: the control thread, what it stores, the outside
RestTypeOK ==
    /\ alive \in BOOLEAN /\ mode \in Modes /\ is_running \in BOOLEAN
    /\ stored \in SUBSET Names
    /\ at \in {"accept", "recv", "do", "jobs", "close"}
    /\ cfd \in FDs \cup {0}
    /\ todo \in SUBSET Names
    /\ job["ctl"].at # "idle" => at = "jobs"
    /\ up \in SUBSET Farms /\ stuck \in SUBSET up
    /\ client \in Clients
    /\ steady \in SUBSET Farms
    /\ astray \in BOOLEAN

LEMMA QuietRest ==
    ASSUME RestTypeOK, Idle.at = "idle", Quiet PROVE RestTypeOK'
<1>0. UNCHANGED <<is_running, job, steady, astray>>
  BY QuietKeeps DEF httpVars, historyVars
<1> USE <1>0 DEF RestTypeOK, ctlVars, worldVars
<1>1. CASE ReadCommand
  BY <1>1 DEF ReadCommand
<1>2. CASE JobsDone
  BY <1>2 DEF JobsDone
<1>3. CASE ClearHttp \/ OtherCommand
  BY <1>3 DEF ClearHttp, OtherCommand, Do
<1>5. CASE Quit \/ SwitchMode \/ SigPipe
  <2>1. NoClient \in Clients
    BY DEF NoClient, Clients
  <2> QED
    BY <1>5, <2>1 DEF Quit, SwitchMode, SigPipe, Ended
<1>8. CASE Interrupt
  BY <1>8 DEF Interrupt, Clients, Spend
<1>9. CASE \E f \in Farms : PoundStarts(f) \/ PoundHangs(f) \/ PoundResumes(f)
  BY <1>9 DEF PoundStarts, PoundHangs, PoundResumes
<1>10. CASE \E argv \in CommandLines : Call(argv)
  BY <1>10 DEF Call, Clients
<1> QED
  BY <1>1, <1>2, <1>3, <1>5, <1>8, <1>9, <1>10 DEF Quiet

\* Only these steps give the control thread a job.
LEMMA ServingRest ==
    ASSUME NodeTypeOK, Serving PROVE RestTypeOK'
<1>0. "ctl" \in Threads /\ "worker" \in Threads /\ Idle.at = "idle"
  BY StringsApart, NewJobs DEF IsJob
<1>1. CASE AcceptClient
  <2>1. client' \in Clients /\ cfd' \in FDs
    BY <1>1 DEF AcceptClient, NodeTypeOK, Clients
  <2> QED
    BY <1>1, <2>1 DEF AcceptClient, RestTypeOK, NodeTypeOK, httpVars, historyVars
<1>2. CASE StartHttp \/ WriteHttp
  <2>1. is_running' \in BOOLEAN
    BY <1>2 DEF StartHttp, WriteHttp, StartListener, NodeTypeOK
  <2>2. at' = "jobs" /\ stored' \in SUBSET Names
    BY <1>2 DEF StartHttp, WriteHttp, NodeTypeOK
  <2> QED
    BY <1>2, <2>1, <2>2 DEF StartHttp, WriteHttp, RestTypeOK, NodeTypeOK, worldVars,
       historyVars
<1>3. CASE StopHttp
  <2>1. job'["ctl"].at # "idle" => at' = "jobs"
    BY <1>3 DEF StopHttp, Do, NodeTypeOK
  <2>2. at' \in {"jobs", "close"}
    BY <1>3 DEF StopHttp
  <2> QED
    BY <1>3, <2>1, <2>2 DEF StopHttp, RestTypeOK, NodeTypeOK, httpVars, worldVars,
       historyVars
<1>4. CASE RemoveFarm
  <2>1. job'["ctl"].at = "idle" /\ astray' \in BOOLEAN
    BY <1>0, <1>4 DEF RemoveFarm, NodeTypeOK
  <2> QED
    BY <1>4, <2>1 DEF RemoveFarm, RestTypeOK, NodeTypeOK, worldVars
<1>5. CASE NextSession
  BY <1>5 DEF NextSession, RestTypeOK, NodeTypeOK, httpVars, worldVars, historyVars
<1>6. CASE Answer
  <2>1. client' \in Clients /\ job["ctl"].at = "idle"
    BY <1>6 DEF Answer, CloseClient, NoClient, Clients, NodeTypeOK
  <2> QED
    BY <1>6, <2>1, NumbersApart DEF Answer, RestTypeOK, NodeTypeOK, httpVars
<1>7. CASE WorkerTakes
  <2>1. job'["ctl"] = job["ctl"]
    BY <1>0, <1>7 DEF WorkerTakes, NodeTypeOK
  <2>2. Head(input_data).farm \in Names
    <3>1. Head(input_data) \in Actions
      BY <1>7, QueueTypes DEF WorkerTakes, NodeTypeOK
    <3> QED
      BY <3>1 DEF Actions
  <2>3. stored' \in SUBSET Names
    BY <1>7, <2>2 DEF WorkerTakes, NodeTypeOK
  <2> QED
    BY <1>7, <2>1, <2>3 DEF WorkerTakes, RestTypeOK, NodeTypeOK, worldVars, historyVars
<1> QED
  BY <1>1, <1>2, <1>3, <1>4, <1>5, <1>6, <1>7 DEF Serving

\* A thread goes astray when it uses a descriptor of another.
LEMMA JobAstray ==
    ASSUME astray \in BOOLEAN, NEW t \in Threads, Job(t) PROVE astray' \in BOOLEAN
<1>1. CASE Watch(t)
  <2>1. CASE astray' = astray
    BY <2>1
  <2>2. CASE astray' = (file[job[t].fd].kind \in {"ctl", "other"})
    BY <2>2
  <2> QED
    BY <1>1, <2>1, <2>2 DEF Watch
<1>2. CASE Send(t) \/ Retry(t)
  <2>1. Deliver(t)
    BY <1>2 DEF Send, Retry
  <2>2. CASE job[t].fd = 0
    BY <2>1, <2>2 DEF Deliver
  <2>3. CASE job[t].fd # 0
    BY <2>1, <2>3 DEF Deliver
  <2> QED
    BY <2>2, <2>3
<1>3. CASE ~Watch(t) /\ ~Send(t) /\ ~Retry(t)
  <2>1. UNCHANGED astray
    BY <1>3 DEF Job, Find, OpenSocket, NoSocket, Connect, Name, Announce, Look,
       SendBlocks, historyVars
  <2> QED
    BY <2>1
<1> QED
  BY <1>1, <1>2, <1>3

LEMMA ReadingAstray ==
    ASSUME astray \in BOOLEAN, Reading PROVE astray' \in BOOLEAN
<1>1. CASE PeerDisconnect
  BY <1>1 DEF PeerDisconnect
<1>2. ASSUME NEW fd \in FDs, ReadElse(fd) PROVE astray' \in BOOLEAN
  BY <1>2 DEF ReadElse
<1>3. ASSUME ~PeerDisconnect, \A fd \in FDs : ~ReadElse(fd) PROVE UNCHANGED astray
  BY <1>3 DEF Reading, EpollWait, QueueSessions, QueueDisconnect, QueueAs, ReadSessions,
     ReadEof, historyVars
<1> QED
  BY <1>1, <1>2, <1>3

LEMMA JobRest ==
    ASSUME NodeTypeOK, ServesClient, NEW t \in Threads, Job(t), JobsMove PROVE RestTypeOK'
<1>1. job'["ctl"].at # "idle" => at = "jobs"
  <2>1. CASE job'["ctl"] = job["ctl"]
    BY <2>1 DEF NodeTypeOK
  <2>2. CASE t = "ctl"
    <3>1. job[t].at # "idle"
      BY DEF Job, Find, OpenSocket, NoSocket, Connect, Watch, Name, Announce, Look,
         Send, SendBlocks, Retry
    <3> QED
      BY <2>2, <3>1 DEF NodeTypeOK
  <2>3. CASE t # "ctl" /\ OpenSocket(t)
    BY <2>3, OpenSocketMoves, StringsApart DEF SameJob, NodeTypeOK
  <2>4. CASE t # "ctl" /\ ~OpenSocket(t)
    <3>1. \E j : job' = [job EXCEPT ![t] = j]
      BY <2>4 DEF Job, Find, NoSocket, Connect, Watch, Name, Announce, Look, Send,
         SendBlocks, Retry, Deliver, Goto, Leave
    <3> QED
      BY <2>1, <2>4, <3>1, StringsApart DEF NodeTypeOK
  <2> QED
    BY <2>2, <2>3, <2>4
<1>2. astray' \in BOOLEAN
  BY JobAstray DEF NodeTypeOK
<1> QED
  BY <1>1, <1>2, JobKeeps DEF RestTypeOK, NodeTypeOK, worldVars

LEMMA NodeTypeStep ==
    ASSUME NodeTypeOK, ServesClient, EpollUnnamed, NamesItsOwn, ReadRight, AimsRight,
           [NodeNext]_nodeVars
    PROVE  NodeTypeOK'
<1>1. CASE UNCHANGED nodeVars
  BY <1>1 DEF NodeTypeOK, nodeVars, httpVars, ctlVars, worldVars, historyVars
<1>2. CASE NodeNext
  <2>1. RestTypeOK'
    <3>1. CASE Quiet
      BY <3>1, QuietRest, NewJobs DEF NodeTypeOK, RestTypeOK, IsJob
    <3>2. CASE Outside \/ Reading
      <4>1. astray' \in BOOLEAN
        BY <3>2, OutsideKeeps, ReadingAstray DEF NodeTypeOK
      <4>2. CASE Reading
        BY <4>1, <4>2, ReadingKeeps DEF NodeTypeOK, RestTypeOK, ctlVars, worldVars
      <4>3. CASE Outside
        BY <4>1, <4>3, OutsideKeeps DEF Outside, OtherThread, PoundSends, PoundStops,
           NodeTypeOK, RestTypeOK, ctlVars, httpVars, historyVars
      <4> QED
        BY <3>2, <4>2, <4>3
    <3>3. ASSUME NEW t \in Threads, Job(t) PROVE RestTypeOK'
      BY <1>2, <3>3, JobRest, JobSteps
    <3> QED
      BY <1>2, <3>1, <3>2, <3>3, ServingRest, NodeSteps
  <2>2. /\ file' \in [FDs -> Files] /\ job' \in [Threads -> Jobs] /\ lst' \in Listening
        /\ raced' \in SUBSET FDs
    BY <1>2, FileSteps, JobSteps, LstSteps, RacedSteps DEF FilesMove, JobsMove, RacedMoves
  <2>3. events' \in SUBSET FDs
    BY <1>2, EpollSteps DEF NodeTypeOK
  <2>4. input_data' \in Seq(Actions)
    <3>1. input_data \in Seq(Actions)
      BY DEF NodeTypeOK
    <3> QED
      BY <1>2, <3>1, QueueSteps, QueueTypes DEF QueueMoves
  <2>5. wrote' \in SUBSET Writes
    <3>1. ASSUME NEW t \in Threads, job[t].fd \in FDs
          PROVE  [farm |-> job[t].farm, kind |-> file[job[t].fd].kind,
                  to |-> file[job[t].fd].farm, early |-> job[t].early] \in Writes
      <4>1. job[t] \in Jobs /\ file[job[t].fd] \in Files
        BY <3>1 DEF NodeTypeOK
      <4> QED
        BY <4>1, JobFields, FilesFields DEF Writes, Kinds
    <3> QED
      BY <1>2, <3>1, WriteSteps DEF NodeTypeOK
  <2> QED
    BY <1>2, <2>1, <2>2, <2>3, <2>4, <2>5, EpollType, NamesType DEF NodeTypeOK, RestTypeOK
<1> QED
  BY <1>1, <1>2

-----------------------------------------------------------------------------
\* The inductive invariant, part by part

\* What add_farm worked on before the step, or has just opened
LEMMA WorkedOn ==
    ASSUME NodeTypeOK, ServesClient, NodeNext, NEW t \in Threads, Unfinished(t)'
    PROVE  \/ Unfinished(t) /\ job'[t].fd = job[t].fd /\ job'[t].farm = job[t].farm
              /\ \/ SameJob(t)
                 \/ Connect(t) /\ Goes(t, "connect", "watch")
                 \/ Watch(t) /\ Goes(t, "watch", "name")
           \/ OpenSocket(t) /\ job[t].at = "socket" /\ job'[t].at = "connect"
              /\ job'[t].fd \in FreeFds
<1>1. JobMoves(t)
  BY JobSteps DEF JobsMove
<1> QED
  BY <1>1 DEF JobMoves, SameJob, Loose, Goes, LooksUp, Unfinished

\* Two add_farms work on one number only when it has been lost.
LEMMA OnceWorkedOn ==
    ASSUME NodeTypeOK, NamesItsOwn, NEW fd \in FDs, fd \notin raced
    PROVE  /\ \A t, u \in Threads : t # u /\ Unfinished(t) /\ Unfinished(u) /\ job[t].fd = fd
                                     => job[u].fd # fd
           /\ fd \in FreeFds => ~Unnamed(fd)
<1>1. \A t, u \in Threads : t # u /\ Unfinished(t) /\ Unfinished(u) /\ job[t].fd = fd
                             => job[u].fd # fd
  BY DEF NamesItsOwn
<1>2. ASSUME NEW t \in Threads, Unfinished(t), job[t].fd = fd, fd \in FreeFds PROVE FALSE
  BY <1>2 DEF NamesItsOwn, FreeFds
<1>3. fd \in FreeFds => ~Unnamed(fd)
  BY <1>2 DEF Unnamed, Unfinished
<1> QED
  BY <1>1, <1>3

LEMMA StaysRaced ==
    ASSUME RacedMoves, NEW fd \in raced, Unnamed(fd) \/ fd \notin FreeFds
    PROVE  fd \in raced'
BY DEF RacedMoves

LEMMA NamesItsOwnStep ==
    ASSUME NodeTypeOK, ServesClient, EpollUnnamed, NamesItsOwn, ReadRight, AimsRight, NodeNext
    PROVE  NamesItsOwn'
<1>0. FilesMove /\ RacedMoves
  BY FileSteps, RacedSteps
<1>1. ASSUME NEW t \in Threads, Unfinished(t)'
      PROVE  /\ job'[t].fd \in FDs
             /\ \/ job'[t].fd \in raced'
                \/ /\ job'[t].at # "name" => ~file'[job'[t].fd].watched
                   /\ IF job'[t].at = "connect" THEN file'[job'[t].fd].kind = "socket"
                      ELSE /\ file'[job'[t].fd].kind = "pound"
                           /\ file'[job'[t].fd].farm = job'[t].farm
  <2> DEFINE d == job'[t].fd
  <2>1. CASE OpenSocket(t) /\ d \in FreeFds /\ job'[t].at = "connect"
    <3>1. PICK fd \in FreeFds :
             /\ file' = [file EXCEPT ![fd] = File("socket", NoName)]
             /\ job'[t].fd = fd
      BY <2>1, OpenSocketMoves
    <3>2. file'[d] = File("socket", NoName) /\ d \in FDs
      BY <3>1 DEF FreeFds, NodeTypeOK
    <3>3. File("socket", NoName).kind = "socket" /\ ~File("socket", NoName).watched
      BY DEF File
    <3> HIDE DEF d
    <3> QED
      BY <2>1, <3>2, <3>3 DEF d
  <2>2. CASE /\ Unfinished(t) /\ d = job[t].fd /\ job'[t].farm = job[t].farm
             /\ \/ SameJob(t)
                \/ Connect(t) /\ Goes(t, "connect", "watch")
                \/ Watch(t) /\ Goes(t, "watch", "name")
    <3>1. d \in FDs /\ Unnamed(d)
      BY <2>2 DEF NamesItsOwn, Unnamed, Unfinished
    <3>2. CASE d \in raced
      BY <1>0, <3>1, <3>2, StaysRaced
    <3>3. CASE d \notin raced
      <4>1. /\ job[t].at # "name" => ~file[d].watched
            /\ IF job[t].at = "connect" THEN file[d].kind = "socket"
               ELSE file[d].kind = "pound" /\ file[d].farm = job[t].farm
        BY <2>2, <3>3 DEF NamesItsOwn
      <4>2. \A u \in Threads : Unfinished(u) /\ job[u].fd = d => u = t
        BY <2>2, <3>1, <3>3, OnceWorkedOn
      <4>3. FileMoves(d)
        BY <1>0, <3>1 DEF FilesMove
      <4>4. ~Opened(d)
        BY <4>1 DEF Opened, FreeFds
      <4>5. CASE Closed(d)
        BY <3>1, <4>1, <4>5 DEF Closed
      <4>6. CASE Kept(d)
        <5>1. file'[d].watched = file[d].watched \/ job'[t].at = "name"
          <6>1. ASSUME NEW u \in Threads, Watch(u), job[u].fd = d, job'[u].at = "name"
                PROVE  u = t
            BY <4>2, <6>1 DEF Watch, Unfinished
          <6> QED
            BY <4>6, <6>1 DEF Kept
        <5>2. CASE SameJob(t)
          BY <2>2, <3>1, <4>1, <4>6, <5>1, <5>2 DEF Kept, SameJob
        <5>3. CASE Watch(t) /\ Goes(t, "watch", "name")
          BY <2>2, <3>1, <4>1, <4>6, <5>3 DEF Kept, Goes
        <5>4. CASE Connect(t) /\ Goes(t, "connect", "watch")
          <6>1. file[d].kind = "socket" /\ job[t].farm \in Names
            BY <4>1, <5>4, JobFields DEF Goes, NodeTypeOK
          <6>2. file' = [file EXCEPT ![d].kind = "pound", ![d].farm = job[t].farm]
            BY <2>2, <3>3, <5>4, NewJobs DEF Connect, Goes, Leave, IsJob, NodeTypeOK
          <6>3. file[d] \in Files /\ DOMAIN file = FDs
            BY <3>1 DEF NodeTypeOK
          <6>4. file'[d].kind = "pound"
            <7> HIDE DEF d
            <7>1. file'[d] = [file[d] EXCEPT !.kind = "pound", !.farm = job[t].farm]
              BY <3>1, <6>2, <6>3
            <7>2. [file[d] EXCEPT !.kind = "pound", !.farm = job[t].farm].kind = "pound"
              BY <6>1, <6>3, FilesFields
            <7> QED
              BY <7>1, <7>2
          <6> QED
            BY <4>6, <6>1, <6>4 DEF Kept
        <5> QED
          BY <2>2, <5>2, <5>3, <5>4
      <4>7. CASE Connected(d)
        <5>1. PICK u \in Threads : /\ Connect(u) /\ Goes(u, "connect", "watch") /\ job[u].fd = d
                                   /\ file'[d].farm = job[u].farm
          BY <4>7 DEF Connected
        <5>2. u = t
          BY <4>2, <5>1 DEF Goes, Unfinished
        <5> QED
          BY <2>2, <3>1, <4>1, <4>7, <5>1, <5>2 DEF Connected, Goes
      <4> QED
        BY <4>3, <4>4, <4>5, <4>6, <4>7 DEF FileMoves
    <3> QED
      BY <3>2, <3>3
  <2> QED
    BY <1>1, <2>1, <2>2, WorkedOn
<1>2. ASSUME NEW t \in Threads, NEW u \in Threads, t # u, Unfinished(t)', Unfinished(u)',
             job'[t].fd = job'[u].fd
      PROVE  job'[t].fd \in raced'
  <2> DEFINE d == job'[t].fd
  <2>1. d \in FDs
    BY <1>1, <1>2
  <2>2. CASE Unfinished(t) /\ d = job[t].fd /\ Unfinished(u) /\ d = job[u].fd
    <3>1. d \in raced /\ Unnamed(d)
      BY <1>2, <2>1, <2>2, OnceWorkedOn DEF Unnamed, Unfinished
    <3> HIDE DEF d
    <3>2. d \in raced'
      BY <1>0, <3>1, StaysRaced
    <3> QED
      BY <3>2 DEF d
  <2>3. ASSUME NEW v \in Threads, Unfinished(v), d = job[v].fd, d \in FreeFds PROVE d \in raced'
    <3>1. Unnamed(d)
      BY <2>3 DEF Unnamed, Unfinished
    <3> HIDE DEF d
    <3>2. d \in raced
      BY <2>1, <2>3, <3>1, OnceWorkedOn
    <3> QED
      BY <1>0, <3>1, <3>2, StaysRaced
  <2>4. CASE OpenSocket(t) /\ OpenSocket(u)
    BY <1>2, <2>4, WorkedOn, OpenSocketMoves DEF SameJob
  <2> QED
    BY <1>2, <2>2, <2>3, <2>4, WorkedOn
<1> QED
  BY <1>1, <1>2 DEF NamesItsOwn, Unfinished

(***************************************************************************)
(* A connection to Pound has been named, is about to be, or has been lost  *)
(* before it was.                                                          *)
(***************************************************************************)
LEMMA NamedRightStep ==
    ASSUME NodeTypeOK, ServesClient, EpollUnnamed, NamesItsOwn, NamedRight, ReadRight,
           AimsRight, NodeNext
    PROVE  NamedRight'
<1> SUFFICES ASSUME epoll_fd' # 0, NEW fd \in FDs, file'[fd].kind = "pound"
             PROVE  \/ farms_fd'[fd] = file'[fd].farm
                    \/ \E t \in Threads : Unfinished(t)' /\ job'[t].fd = fd
                    \/ fd \in raced'
  BY DEF NamedRight, Early, Unnamed, Unfinished
<1>0. FileMoves(fd) /\ RacedMoves
  BY FileSteps, RacedSteps DEF FilesMove
<1>1. CASE epoll_fd = 0
  <2>1. ~is_running
    BY <1>1, EpollSteps
  <2>2. file[fd].kind \notin {"socket", "pound"}
    BY <1>1, <2>1 DEF EpollUnnamed
  <2> QED
    BY <1>0, <2>2 DEF FileMoves, Kept, Opened, Connected, Closed
<1>2. CASE Connected(fd)
  BY <1>2 DEF Connected, Goes, Unfinished
<1>3. CASE epoll_fd # 0 /\ Kept(fd)
  <2>0. /\ file[fd].kind = "pound" /\ file'[fd].farm = file[fd].farm
        /\ file[fd] \in Files /\ fd \notin FreeFds
    BY <1>3 DEF Kept, NodeTypeOK, FreeFds
  <2>1. farms_fd[fd] = file[fd].farm \/ Unnamed(fd) \/ fd \in raced
    BY <1>3, <2>0 DEF NamedRight, Early
  <2>2. CASE fd \in raced
    BY <1>0, <2>0, <2>2, StaysRaced
  <2>3. ASSUME NEW t \in Threads, Unfinished(t), job[t].fd = fd, fd \notin raced
        PROVE  \/ farms_fd'[fd] = file'[fd].farm
               \/ Unfinished(t)' /\ job'[t].fd = fd
    <3>1. /\ job[t].at # "name" => ~file[fd].watched
          /\ job[t].at # "connect" /\ file[fd].farm = job[t].farm
      BY <2>0, <2>3 DEF NamesItsOwn
    <3>2. CASE Name(t)
      BY <2>0, <2>3, <3>1, <3>2 DEF Name, NameFarm, NodeTypeOK
    <3>3. ~Connect(t)
      BY <3>1 DEF Connect
    <3>4. CASE Watch(t)
      <4>1. Goto(t, "name")
        BY <1>3, <2>0, <2>3, <3>1, <3>4 DEF Watch
      <4>2. \A a \in {"name"} : Goto(t, a) =>
               IsJob(job'[t], a, job[t].farm, job[t].fd, job[t].send, job[t].early)
        BY GoesTo DEF Ats
      <4> QED
        BY <2>3, <4>1, <4>2 DEF IsJob, Unfinished
    <3>5. CASE ~Name(t) /\ ~Watch(t)
      <4>1. JobMoves(t)
        BY JobSteps DEF JobsMove
      <4> QED
        BY <2>3, <3>3, <3>5, <4>1 DEF JobMoves, SameJob, Loose, Goes, LooksUp, Unfinished
    <3> QED
      BY <3>2, <3>4, <3>5
  <2>4. CASE farms_fd[fd] = file[fd].farm /\ ~Unnamed(fd)
    <3>1. farms_fd[fd] # Absent
      <4>1. file[fd].farm \in Names
        BY <2>0, FilesFields
      <4> QED
        BY <2>4, <4>1, NumbersApart
    <3>2. \A t \in Threads : ~(job[t].at = "name" /\ job[t].fd = fd)
      BY <2>4 DEF Unnamed
    <3> QED
      BY <2>0, <2>4, <3>1, <3>2, NameSteps
  <2> QED
    BY <2>1, <2>2, <2>3, <2>4 DEF Unnamed, Unfinished
<1> QED
  BY <1>0, <1>1, <1>2, <1>3 DEF FileMoves, Opened, Closed

(***************************************************************************)
(* Before there is an epoll instance nothing is read, named or looked up.  *)
(* Afterwards its number is never that of a name or of a job.              *)
(***************************************************************************)
LEMMA BeforeEpoll ==
    ASSUME NodeTypeOK, ServesClient, EpollUnnamed, NamesItsOwn, ReadRight, AimsRight,
           NodeNext, epoll_fd = 0
    PROVE  /\ lst' = Waiting /\ events' = {} /\ raced' = {}
           /\ \A fd \in FDs : farms_fd'[fd] = Absent
           /\ \A t \in Threads : job'[t].at \notin {"name", "full", "remove"}
                                 /\ (job'[t].at = "send" => job'[t].fd = 0)
           /\ ~is_running => \A t \in Threads : job'[t].fd = 0
<1>0. /\ events = {} /\ lst = Waiting /\ raced = {} /\ lst.at = "wait"
      /\ \A fd \in FDs : farms_fd[fd] = Absent
      /\ \A t \in Threads : job[t].at \notin {"name", "full", "remove"}
                            /\ (job[t].at = "send" => job[t].fd = 0)
      /\ ~is_running => \A t \in Threads : job[t] = Idle
  BY DEF EpollUnnamed, Waiting
<1>1. \A t \in Threads : ~Name(t)
  BY <1>0 DEF Name
<1>2. lst' = Waiting
  <2>1. \A fd \in FDs : ~ListenerReads(fd)
    BY <1>0 DEF ListenerReads
  <2>2. ASSUME ListenerStays, lst' \in Listening PROVE lst' = Waiting
    <3>1. lst'.at = "wait" /\ lst'.fd = 0 /\ lst'.from = NoName /\ lst'.early = FALSE
      BY <1>0, <1>1, <2>2 DEF ListenerStays, Waiting
    <3> QED
      BY <2>2, <3>1 DEF Listening, Waiting
  <2> QED
    BY <2>1, <2>2, LstSteps
<1>3. events' = {}
  BY <1>0, EpollSteps
<1>4. raced' = {}
  BY <1>0, RacedSteps DEF RacedMoves
<1>5. ASSUME NEW fd \in FDs PROVE farms_fd'[fd] = Absent
  BY <1>0, <1>1, NameSteps
<1>6. ASSUME NEW t \in Threads
      PROVE  /\ job'[t].at \notin {"name", "full", "remove"}
             /\ (job'[t].at = "send" => job'[t].fd = 0)
             /\ ~is_running => job'[t].fd = 0
  <2>1. JobMoves(t) /\ job'[t] \in Jobs
    BY JobSteps DEF JobsMove
  <2>2. get_farm_fd(job'[t].farm) = 0
    BY <1>0, <2>1, JobFields, FarmFd, NumbersApart
  <2>3. ~is_running => job[t].at = "idle" /\ job[t].fd = 0
    BY <1>0, NewJobs DEF IsJob
  <2>4. ASSUME Watch(t) PROVE job'[t].at = "idle"
    BY <2>4, Leaves DEF Watch
  <2>5. CASE SameJob(t) \/ Loose(t)
    BY <1>0, <2>3, <2>5 DEF SameJob, Loose
  <2>6. CASE Connect(t) /\ Goes(t, "connect", "watch")
    BY <2>3, <2>6 DEF Goes
  <2>7. CASE SendBlocks(t) /\ Goes(t, "send", "full") /\ job[t].fd # 0
    BY <1>0, <2>7 DEF Goes
  <2>8. CASE OpenSocket(t) /\ job[t].at = "socket" /\ job'[t].at = "connect"
    BY <2>3, <2>8
  <2>9. CASE Look(t) /\ LooksUp(t, "send")
    BY <2>2, <2>9 DEF LooksUp
  <2> QED
    BY <2>1, <2>2, <2>4, <2>5, <2>6, <2>7, <2>8, <2>9 DEF JobMoves, Goes, LooksUp
<1> QED
  BY <1>2, <1>3, <1>4, <1>5, <1>6

LEMMA EpollUnnamedStep ==
    ASSUME NodeTypeOK, ServesClient, EpollUnnamed, NamesItsOwn, ReadRight, AimsRight, NodeNext
    PROVE  EpollUnnamed'
<1>0. epoll_fd \in FDs \cup {0} /\ epoll_fd' \in FDs \cup {0}
  BY EpollType DEF NodeTypeOK
<1>1. CASE epoll_fd = 0
  <2>1. CASE epoll_fd' = 0
    <3>1. ASSUME ~is_running'
          PROVE  /\ at' # "jobs" /\ \A t \in Threads : job'[t] = Idle
                 /\ \A fd \in FDs : file'[fd].kind \notin {"socket", "pound"}
      <4>1. ~is_running
        BY <3>1, EpollSteps
      <4>2. /\ at # "jobs" /\ \A t \in Threads : job[t] = Idle
            /\ \A fd \in FDs : file[fd].kind \notin {"socket", "pound"}
        BY <1>1, <4>1 DEF EpollUnnamed
      <4>3. at' # "jobs" /\ job' = job
        BY <3>1, <4>2, IdleSteps
      <4>4. ASSUME NEW fd \in FDs PROVE file'[fd].kind \notin {"socket", "pound"}
        <5>1. FileMoves(fd)
          BY FileSteps DEF FilesMove
        <5>2. \A t \in Threads : job'[t].at = "idle"
          BY <4>2, <4>3, NewJobs DEF IsJob
        <5> QED
          BY <4>2, <5>1, <5>2 DEF FileMoves, Kept, Opened, Connected, Closed
      <4> QED
        BY <4>2, <4>3, <4>4
    <3> QED
      BY <1>1, <2>1, <3>1, BeforeEpoll DEF EpollUnnamed
  <2>2. CASE epoll_fd' # 0
    <3>1. epoll_fd' \in FDs /\ ~is_running
      BY <1>0, <1>1, <2>2, EpollSteps
    <3>2. lst'.fd = 0 /\ raced' = {} /\ farms_fd'[epoll_fd'] = Absent
      BY <1>1, <3>1, BeforeEpoll DEF Waiting
    <3>3. \A t \in Threads : job'[t].fd = 0
      BY <1>1, <3>1, BeforeEpoll
    <3> QED
      BY <2>2, <3>2, <3>3 DEF EpollUnnamed
  <2> QED
    BY <2>1, <2>2
<1>2. CASE epoll_fd # 0
  <2>1. /\ epoll_fd \in FDs /\ file[epoll_fd].kind = "epoll"
        /\ farms_fd[epoll_fd] = Absent /\ epoll_fd \notin raced /\ lst.fd # epoll_fd
        /\ \A t \in Threads : job[t].fd # epoll_fd
    BY <1>0, <1>2 DEF EpollUnnamed, NodeTypeOK
  <2>2. epoll_fd' = epoll_fd
    BY <1>2, EpollSteps
  <2>3. epoll_fd \notin raced'
    BY <2>1, RacedSteps DEF RacedMoves
  <2>4. farms_fd'[epoll_fd] = Absent
    BY <2>1, NameSteps
  <2>5. lst'.fd # epoll_fd
    <3>1. \A fd \in FDs : ListenerReads(fd) => lst'.fd = fd /\ file[fd].kind = "pound"
      BY DEF ListenerReads, Read
    <3>2. Waiting.fd = 0
      BY DEF Waiting
    <3> QED
      BY <1>2, <2>1, <3>1, <3>2, LstSteps DEF ListenerStays
  <2>6. ASSUME NEW t \in Threads PROVE job'[t].fd # epoll_fd
    <3>1. JobMoves(t) /\ job'[t] \in Jobs
      BY JobSteps DEF JobsMove
    <3>2. job'[t].farm # Absent
      BY <3>1, JobFields, NumbersApart
    <3>3. job'[t].fd = get_farm_fd(job'[t].farm) => job'[t].fd # epoll_fd
      BY <1>2, <2>1, <3>2, FarmFd
    <3>4. epoll_fd \notin FreeFds
      BY <2>1 DEF FreeFds
    <3> QED
      BY <1>2, <2>1, <3>1, <3>3, <3>4 DEF JobMoves, SameJob, Loose, Goes, LooksUp
  <2> QED
    BY <1>2, <2>2, <2>3, <2>4, <2>5, <2>6 DEF EpollUnnamed
<1> QED
  BY <1>1, <1>2

-----------------------------------------------------------------------------
\* The control thread and its client

LEMMA ServesClientStep ==
    ASSUME NodeTypeOK, ServesClient, EpollUnnamed, NamesItsOwn, ReadRight, AimsRight, NodeNext
    PROVE  ServesClient'
<1>0. alive /\ ~astray
  BY NextRuns
<1>1. /\ client.queued => client.argv \in CommandLines /\ client.at # "none"
      /\ at # "accept" => /\ cfd \in FDs /\ client.argv \in CommandLines
                          /\ client.at # "none" /\ file[cfd].kind = "ctl"
      /\ at \notin {"accept", "recv"} => cmd = Packet[client.argv]
      /\ client \in Clients
  BY <1>0 DEF ServesClient, NodeTypeOK
<1>2. ASSUME UNCHANGED <<client, cfd, cmd>>, ~Answer,
             at = "accept" => at' = "accept",
             at' \notin {"accept", "recv"} => at \notin {"accept", "recv"}
      PROVE  ServesClient'
  <2>1. ASSUME at # "accept", ~astray' PROVE file'[cfd].kind = "ctl"
    <3>1. cfd \in FDs /\ file[cfd].kind = "ctl"
      BY <1>1, <2>1
    <3>2. FileMoves(cfd)
      BY <3>1, FileSteps DEF FilesMove
    <3> QED
      BY <1>2, <2>1, <3>1, <3>2 DEF FileMoves, Kept, Opened, Connected, Closed, FreeFds
  <2> QED
    BY <1>1, <1>2, <2>1 DEF ServesClient
<1>3. CASE AcceptClient
  <2>1. PICK fd \in FDs : /\ cfd' = fd /\ file' = [file EXCEPT ![fd] = File("ctl", NoName)]
    BY <1>3 DEF AcceptClient
  <2>2. file'[fd].kind = "ctl"
    BY <2>1 DEF NodeTypeOK, File
  <2>3. client.queued /\ client' = [client EXCEPT !.queued = FALSE]
    BY <1>3 DEF AcceptClient, NodeTypeOK
  <2>4. client'.argv = client.argv /\ client'.at = client.at /\ ~client'.queued
    BY <1>1, <2>3 DEF Clients
  <2> QED
    BY <1>1, <1>3, <2>1, <2>2, <2>3, <2>4 DEF AcceptClient, ServesClient
<1>4. CASE Answer
  BY <1>4 DEF Answer, CloseClient, NoClient, ServesClient
<1>5. CASE Quit \/ SwitchMode \/ SigPipe
  BY <1>5 DEF Quit, SwitchMode, SigPipe, Ended, ServesClient
<1>6. CASE \E argv \in CommandLines : Call(argv)
  <2>1. PICK argv \in CommandLines :
            client' = [at |-> "waiting", argv |-> argv, queued |-> TRUE]
    BY <1>6 DEF Call
  <2>2. client.at = "none" /\ UNCHANGED <<at, alive, ctlVars>>
    BY <1>6 DEF Call, ctlVars
  <2>3. at = "accept"
    BY <1>1, <2>2
  <2> QED
    BY <2>1, <2>2, <2>3 DEF ServesClient
<1>7. CASE Interrupt
  <2>1. client' = [client EXCEPT !.at = "left"] /\ UNCHANGED <<alive, file, ctlVars, astray>>
    BY <1>7 DEF Interrupt, historyVars
  <2>2. client'.argv = client.argv /\ client'.at = "left" /\ client'.queued = client.queued
    BY <1>1, <2>1 DEF Clients
  <2> QED
    BY <1>1, <2>1, <2>2 DEF ServesClient, ctlVars
<1>8. CASE ReadCommand
  BY <1>1, <1>8 DEF ReadCommand, ServesClient, worldVars, historyVars
<1>9. CASE \/ StartHttp \/ StopHttp \/ WriteHttp \/ NextSession \/ JobsDone \/ ClearHttp
           \/ RemoveFarm \/ OtherCommand \/ WorkerTakes
           \/ \E f \in Farms : PoundStarts(f) \/ PoundHangs(f) \/ PoundResumes(f)
  <2>1. UNCHANGED <<client, cfd, cmd>>
    BY <1>9 DEF StartHttp, StopHttp, WriteHttp, NextSession, JobsDone, ClearHttp,
       RemoveFarm, OtherCommand, WorkerTakes, PoundStarts, PoundHangs, PoundResumes,
       worldVars, ctlVars
  <2>2. /\ at = "accept" => at' = "accept"
        /\ at' \notin {"accept", "recv"} => at \notin {"accept", "recv"}
    BY <1>9, StringsApart DEF StartHttp, StopHttp, WriteHttp, NextSession, JobsDone,
       ClearHttp, RemoveFarm, OtherCommand, WorkerTakes, PoundStarts, PoundHangs,
       PoundResumes, ctlVars, Do
  <2> QED
    BY <1>2, <1>4, <2>1, <2>2
<1>10. CASE Outside \/ Reading
  <2>1. UNCHANGED <<client, at, cfd, cmd>>
    BY <1>10, OutsideKeeps, ReadingKeeps DEF ctlVars, worldVars
  <2> QED
    BY <1>2, <1>4, <2>1
<1>11. ASSUME NEW t \in Threads, Job(t) PROVE ServesClient'
  <2>1. UNCHANGED <<client, at, cfd, cmd>>
    BY <1>11, JobKeeps DEF worldVars
  <2> QED
    BY <1>2, <1>4, <2>1
<1> QED
  BY <1>3, <1>4, <1>5, <1>6, <1>7, <1>8, <1>9, <1>10, <1>11, NodeSteps DEF Quiet, Serving

-----------------------------------------------------------------------------
\* What was read, and what a thread has looked up

(***************************************************************************)
(* The name of a number that was read changes only when add_farm gives it  *)
(* one, which is recorded.                                                 *)
(***************************************************************************)
LEMMA ReadRightStep ==
    ASSUME NodeTypeOK, ServesClient, EpollUnnamed, NamesItsOwn, NamedRight, ReadRight,
           AimsRight, NodeNext
    PROVE  ReadRight'
<1> SUFFICES ASSUME lst'.at # "wait"
             PROVE  lst'.fd \in FDs /\ (lst'.early \/ NameOf(lst.fd)' = lst'.from)
  BY DEF ReadRight
<1>1. Waiting.at = "wait"
  BY DEF Waiting
<1>2. CASE ListenerStays
  <2>1. lst.at # "wait" /\ lst'.fd = lst.fd /\ lst'.from = lst.from
    BY <1>2 DEF ListenerStays
  <2>2. lst.fd \in FDs /\ (lst.early \/ NameOf(lst.fd) = lst.from)
    BY <2>1 DEF ReadRight
  <2>3. farms_fd'[lst.fd] = farms_fd[lst.fd] \/ lst'.early
    BY <1>1, <1>2, <2>1, <2>2, NameSteps DEF ListenerStays
  <2> QED
    BY <1>2, <2>1, <2>2, <2>3 DEF ListenerStays, NameOf
<1>3. ASSUME NEW fd \in FDs, ListenerReads(fd)
      PROVE  lst'.fd \in FDs /\ (lst'.early \/ NameOf(lst.fd)' = lst'.from)
  <2>1. /\ lst'.fd = fd /\ lst'.from = file[fd].farm /\ lst'.early = Early(fd)
        /\ lst = Waiting /\ file[fd].kind = "pound" /\ epoll_fd # 0
    BY <1>3 DEF ListenerReads, Read, EpollUnnamed
  <2>2. farms_fd[fd] = file[fd].farm \/ Early(fd)
    BY <2>1 DEF NamedRight
  <2>3. file[fd].farm # Absent
    <3>1. file[fd] \in Files
      BY DEF NodeTypeOK
    <3>2. file[fd].farm \in Names
      BY <3>1, FilesFields
    <3> QED
      BY <3>2, NumbersApart
  <2>4. farms_fd'[fd] = farms_fd[fd] \/ \E t \in Threads : Name(t) /\ job[t].fd = fd
    BY <1>1, <2>1, NameSteps
  <2>5. ASSUME NEW t \in Threads, Name(t), job[t].fd = fd PROVE Early(fd)
    BY <2>5 DEF Early, Unnamed, Name
  <2> QED
    BY <2>1, <2>2, <2>3, <2>4, <2>5 DEF NameOf
<1> QED
  BY <1>1, <1>2, <1>3, LstSteps

\* What is no connection somebody works on, and not free, does not become one.
LEMMA StaysNamed ==
    ASSUME NodeTypeOK, ServesClient, NodeNext, NEW d \in FDs, ~Unnamed(d), d \notin FreeFds
    PROVE  ~Unnamed(d)'
<1>1. ASSUME NEW u \in Threads, Unfinished(u)', job'[u].fd = d PROVE FALSE
  BY <1>1, WorkedOn DEF Unnamed, Unfinished
<1> QED
  BY <1>1 DEF Unnamed, Unfinished

\* d is no connection to another Pound, and none that somebody works on.
Harmless(d, farm) ==
    /\ file[d].kind = "socket" => ~Unnamed(d)
    /\ file[d].kind = "pound" => file[d].farm = farm

(***************************************************************************)
(* A number that was looked up is still harmless, or an add_farm has taken *)
(* it since.                                                               *)
(***************************************************************************)
LEMMA StaysHarmless ==
    ASSUME NodeTypeOK, ServesClient, EpollUnnamed, NamesItsOwn, ReadRight, AimsRight,
           NodeNext, NEW t \in Threads, NEW d \in FDs, NEW farm, Harmless(d, farm),
           job[t].at \in {"send", "full", "remove"}, job[t].fd = d,
           job'[t].at \in {"send", "full", "remove"}
    PROVE  Harmless(d, farm)' \/ job'[t].early
<1>1. FileMoves(d)
  BY FileSteps DEF FilesMove
<1>2. CASE Kept(d)
  BY <1>2, StaysNamed DEF Kept, Harmless, FreeFds
<1>3. CASE Opened(d)
  <2>1. ASSUME NEW u \in Threads, OpenSocket(u), job'[u].at = "connect", job'[u].fd = d
        PROVE  job'[t].early
    <3>1. u # t
      BY <2>1
    <3> QED
      BY <2>1, <3>1, OpenSocketMoves DEF LookedUp
  <2> QED
    BY <1>3, <2>1 DEF Opened, Harmless
<1>4. CASE Connected(d)
  BY <1>4 DEF Connected, Goes, Harmless, Unnamed
<1>5. CASE Closed(d)
  BY <1>5 DEF Closed, Harmless
<1> QED
  BY <1>1, <1>2, <1>3, <1>4, <1>5 DEF FileMoves

\* A number that is looked up now is harmless or early.
LEMMA LooksUpHarmless ==
    ASSUME NodeTypeOK, ServesClient, EpollUnnamed, NamedRight, NodeNext,
           Look("ctl") \/ Look("worker") \/ StopHttp,
           NEW d \in FDs, NEW farm \in Names, d = get_farm_fd(farm), ~Early(d)
    PROVE  Harmless(d, farm)'
<1>1. farms_fd[d] = farm
  BY FarmFd, NumbersApart
<1>2. epoll_fd # 0
  BY <1>1, NumbersApart DEF EpollUnnamed
<1>3. UNCHANGED file
  BY DEF Look, StopHttp
<1>4. file[d].kind = "pound" => file[d].farm = farm
  BY <1>1, <1>2 DEF NamedRight
<1>5. ~Unnamed(d)
  BY DEF Early
<1>6. file[d].kind = "socket" => ~Unnamed(d)'
  BY <1>5, StaysNamed DEF FreeFds
<1> QED
  BY <1>3, <1>4, <1>6 DEF Harmless

LEMMA AimsRightStep ==
    ASSUME NodeTypeOK, ServesClient, EpollUnnamed, NamesItsOwn, NamedRight, ReadRight,
           AimsRight, NodeNext
    PROVE  AimsRight'
<1>0. SUFFICES ASSUME NEW t \in Threads, job'[t].at \in {"send", "full", "remove"}
               PROVE  /\ job'[t].at \in {"full", "remove"} => job'[t].fd \in FDs
                      /\ \A d \in FDs, f \in Names :
                            d = job'[t].fd /\ f = job'[t].farm
                               => job'[t].early \/ Harmless(d, f)'
  <2>1. ASSUME NEW t \in Threads, NEW d \in FDs, NEW f \in Names, job'[t].fd = d,
               job'[t].farm = f, Harmless(d, f)'
        PROVE  /\ file'[job'[t].fd].kind = "socket" => ~Unnamed(job[t].fd)'
               /\ file'[job'[t].fd].kind = "pound" => file'[job'[t].fd].farm = job'[t].farm
    BY <2>1 DEF Harmless, Unnamed
  <2>2. \A t \in Threads : job'[t] \in Jobs
    BY JobSteps DEF JobsMove
  <2>3. \A t \in Threads : job'[t].fd \in FDs \cup {0} /\ job'[t].farm \in Names
    BY <2>2, JobFields
  <2> QED
    BY <1>0, <2>1, <2>3 DEF AimsRight
<1>1. JobMoves(t) /\ job'[t] \in Jobs
  BY JobSteps DEF JobsMove
<1>2. /\ job'[t].fd \in FDs \cup {0} /\ job'[t].farm \in Names
  BY <1>1, JobFields
<1>3. CASE /\ job[t].at \in {"send", "full", "remove"}
           /\ job[t].at = job'[t].at \/ job[t].fd # 0
           /\ job'[t].fd = job[t].fd /\ job'[t].farm = job[t].farm
           /\ job[t].early => job'[t].early
  <2>1. job'[t].at \in {"full", "remove"} => job'[t].fd \in FDs
    BY <1>2, <1>3 DEF AimsRight
  <2>2. ASSUME NEW d \in FDs, NEW f \in Names, d = job'[t].fd, f = job'[t].farm,
               ~job'[t].early
        PROVE  Harmless(d, f)'
    <3>1. Harmless(d, f)
      BY <1>3, <2>2, NumbersApart DEF AimsRight, Harmless
    <3> QED
      BY <1>0, <1>3, <2>2, <3>1, StaysHarmless
  <2> QED
    BY <2>1, <2>2
<1>4. CASE (Look(t) \/ StopHttp) /\ (LooksUp(t, "send") \/ (LooksUp(t, "remove") /\ job'[t].fd # 0))
  <2>1. /\ job'[t].fd = get_farm_fd(job'[t].farm) /\ job'[t].early = Early(job'[t].fd)
        /\ job'[t].at = "send" \/ job'[t].fd # 0
    BY <1>4 DEF LooksUp
  <2>2. ASSUME NEW d \in FDs, NEW f \in Names, d = job'[t].fd, f = job'[t].farm,
               ~job'[t].early
        PROVE  Harmless(d, f)'
    <3>1. d = get_farm_fd(f) /\ ~Early(d)
      BY <2>1, <2>2
    <3>2. Look("ctl") \/ Look("worker") \/ StopHttp
      BY <1>4 DEF Threads
    <3> QED
      BY <3>1, <3>2, LooksUpHarmless
  <2>3. job'[t].at \in {"full", "remove"} => job'[t].fd \in FDs
    BY <1>2, <2>1
  <2> QED
    BY <2>2, <2>3
<1>5. CASE Loose(t)
  BY <1>0, <1>5 DEF Loose
<1>6. \/ /\ job[t].at \in {"send", "full", "remove"}
         /\ job[t].at = job'[t].at \/ job[t].fd # 0
         /\ job'[t].fd = job[t].fd /\ job'[t].farm = job[t].farm
         /\ job[t].early => job'[t].early
      \/ (Look(t) \/ StopHttp) /\ (LooksUp(t, "send") \/ (LooksUp(t, "remove") /\ job'[t].fd # 0))
      \/ Loose(t)
  BY <1>0, <1>1 DEF JobMoves, SameJob, Goes
<1> QED
  BY <1>3, <1>4, <1>5, <1>6

-----------------------------------------------------------------------------
\* What is queued and written

LEMMA NotMisfiledStep ==
    ASSUME NodeTypeOK, ReadRight, AimsRight, NotMisfiled, NodeNext PROVE NotMisfiled'
<1>1. input_data \in Seq(Actions) /\ \A i \in DOMAIN input_data : Filed(input_data[i])
  BY DEF NodeTypeOK, NotMisfiled, Filed
<1>2. \A i \in DOMAIN input_data' : Filed(input_data'[i])
  BY <1>1, QueueSteps, FiledQueue DEF QueueMoves
<1> QED
  BY <1>2 DEF NotMisfiled, Filed

LEMMA NoCrossWriteStep ==
    ASSUME NodeTypeOK, AimsRight, NoCrossWrite, NodeNext PROVE NoCrossWrite'
<1>1. ASSUME NEW t \in Threads, job[t].at \in {"send", "full"}, job[t].fd \in FDs,
             wrote' = wrote \cup {[farm |-> job[t].farm, kind |-> file[job[t].fd].kind,
                                   to |-> file[job[t].fd].farm, early |-> job[t].early]}
      PROVE  NoCrossWrite'
  <2>1. file[job[t].fd].kind = "pound" => file[job[t].fd].farm = job[t].farm \/ job[t].early
    BY <1>1, NumbersApart DEF AimsRight
  <2> QED
    BY <1>1, <2>1 DEF NoCrossWrite
<1> QED
  BY <1>1, WriteSteps DEF NoCrossWrite

-----------------------------------------------------------------------------
\* The theorems

(***************************************************************************)
(* When ssyncd starts it serves nobody, has no descriptors of its own and  *)
(* no names for them.                                                      *)
(***************************************************************************)
LEMMA NodeTypeInit == NodeInit => NodeTypeOK
<1> SUFFICES ASSUME NodeInit PROVE NodeTypeOK
  OBVIOUS
<1>2. stored \in SUBSET Names /\ up \in SUBSET Farms /\ stuck \in SUBSET up
  BY DEF NodeInit, Names
<1>3. NoClient \in Clients /\ Waiting \in Listening
  BY DEF NoClient, Clients, Waiting, Listening, Names
<1>4. job \in [Threads -> Jobs] /\ job["ctl"].at = "idle"
  BY NewJobs, StringsApart DEF NodeInit, IsJob
<1>5. file \in [FDs -> Files] /\ farms_fd \in [FDs -> Names \cup {Absent}]
  BY FileTypes DEF NodeInit
<1>6. is_running \in BOOLEAN /\ mode \in Modes /\ alive \in BOOLEAN
  BY NodeAssumption DEF NodeInit
<1>7. /\ input_data \in Seq(Actions) /\ epoll_fd = 0 /\ events = {} /\ lst = Waiting
      /\ cfd = 0 /\ at = "accept" /\ todo = {} /\ client = NoClient
      /\ wrote = {} /\ steady = {} /\ raced = {} /\ astray = FALSE
  BY DEF NodeInit
<1> QED
  BY <1>2, <1>3, <1>4, <1>5, <1>6, <1>7 DEF NodeTypeOK

LEMMA NodeInvInit == NodeInit => NodeInv
<1> SUFFICES ASSUME NodeInit PROVE NodeInv
  OBVIOUS
<1>1. NodeTypeOK
  BY NodeTypeInit
<1>2. \A t \in Threads : job[t] = Idle /\ job[t].at = "idle" /\ job[t].fd = 0
  BY NewJobs DEF NodeInit, IsJob
<1>3. \A fd \in FDs : file[fd].kind = "free"
  BY FileTypes DEF NodeInit
<1>4. ServesClient
  BY DEF NodeInit, ServesClient, NoClient
<1>5. EpollUnnamed /\ NamesItsOwn /\ NamedRight
  BY <1>2, <1>3 DEF NodeInit, EpollUnnamed, NamesItsOwn, Unfinished, NamedRight
<1>6. ReadRight /\ AimsRight
  BY <1>2 DEF NodeInit, ReadRight, AimsRight, Waiting
<1>7. NotMisfiled /\ NoCrossWrite
  BY DEF NodeInit, NotMisfiled, NoCrossWrite
<1> QED
  BY <1>1, <1>4, <1>5, <1>6, <1>7 DEF NodeInv

LEMMA NodeInvStep == NodeInv /\ [NodeNext]_nodeVars => NodeInv'
<1> SUFFICES ASSUME NodeInv, [NodeNext]_nodeVars PROVE NodeInv'
  OBVIOUS
<1>1. /\ NodeTypeOK /\ ServesClient /\ EpollUnnamed /\ NamesItsOwn /\ NamedRight
      /\ ReadRight /\ AimsRight /\ NotMisfiled /\ NoCrossWrite
  BY DEF NodeInv
<1>2. NodeTypeOK'
  BY <1>1, NodeTypeStep
<1>3. CASE NodeNext
  <2>1. ServesClient' /\ EpollUnnamed' /\ NamesItsOwn' /\ NamedRight'
    BY <1>1, <1>3, ServesClientStep, EpollUnnamedStep, NamesItsOwnStep, NamedRightStep
  <2>2. ReadRight' /\ AimsRight'
    BY <1>1, <1>3, ReadRightStep, AimsRightStep
  <2>3. NotMisfiled' /\ NoCrossWrite'
    BY <1>1, <1>3, NotMisfiledStep, NoCrossWriteStep
  <2> QED
    BY <1>2, <2>1, <2>2, <2>3 DEF NodeInv
<1>4. CASE UNCHANGED nodeVars
  <2> USE <1>1, <1>4 DEF nodeVars, httpVars, ctlVars, worldVars, historyVars
  <2>1. ServesClient' /\ EpollUnnamed'
    BY DEF ServesClient, EpollUnnamed
  <2>2. NamesItsOwn' /\ NamedRight'
    BY DEF NamesItsOwn, Unfinished, NamedRight, Early, Unnamed
  <2>3. ReadRight' /\ AimsRight'
    BY DEF ReadRight, NameOf, AimsRight, Unnamed
  <2>4. NotMisfiled' /\ NoCrossWrite'
    BY DEF NotMisfiled, NoCrossWrite
  <2> QED
    BY <1>2, <2>1, <2>2, <2>3, <2>4 DEF NodeInv
<1> QED
  BY <1>3, <1>4

LEMMA NodeInvHolds == NodeSpec => []NodeInv
BY NodeInvInit, NodeInvStep, PTL DEF NodeSpec

(***************************************************************************)
(* Whatever the operator, Pound and the threads do, the descriptor table,  *)
(* the names, the queue and the jobs of http_sync keep their types, and    *)
(* epoll_fd is the epoll instance: no thread closes it.                    *)
(***************************************************************************)
THEOREM NodeTypeHolds == NodeSpec => []NodeTypeOK
<1>1. NodeInv => NodeTypeOK
  BY DEF NodeInv
<1> QED
  BY <1>1, NodeInvHolds, PTL

(***************************************************************************)
(* listen_task and remove_farm: what Pound sends, and the end of its       *)
(* connection, is queued for its own farm, with any number of steps of     *)
(* other threads between recv(), close() and the look at farms_fd, which   *)
(* is never pruned; unless the number was read or closed before add_farm   *)
(* had named it, or an add_farm took or named it in between.               *)
(***************************************************************************)
THEOREM NotMisfiledHolds == NodeSpec => []NotMisfiled
<1>1. NodeInv => NotMisfiled
  BY DEF NodeInv
<1> QED
  BY <1>1, NodeInvHolds, PTL

(***************************************************************************)
(* send_pound_action: no sessions of one farm are written to the Pound of  *)
(* another, however long the send is tried after get_farm_fd has looked up *)
(* the number; unless that had no name of its own yet when it was looked   *)
(* up, or an add_farm took it between the look and the send.               *)
(***************************************************************************)
THEOREM NoCrossWriteHolds == NodeSpec => []NoCrossWrite
<1>1. NodeInv => NoCrossWrite
  BY DEF NodeInv
<1> QED
  BY <1>1, NodeInvHolds, PTL

-----------------------------------------------------------------------------
\* The words ssyncdctl is called with

CallWords == Farms \cup {"start", "http", "recent", "show", "write", "quit"}

CallCommands ==
    {"VOID", "QUIT", "WRITE_RECENT_TABLE"}
        \cup UNION {{Values[o][w] : w \in DOMAIN Values[o]} : o \in DOMAIN Values}

CallStates == [command: CallCommands, data: CallWords \cup {""},
               option: TakesValue \cup {NoOption, FarmOption}, exit: BOOLEAN]

CallStep == [w \in CallWords |-> [s \in CallStates |-> ReadWord(s, w)]]

LEMMA ReadFixedType ==
    ASSUME NEW s \in CallStates, NEW w \in CallWords, s.option \in DOMAIN Values
    PROVE  ReadFixed(s, w) \in CallStates
<1>1. w \in DOMAIN Values[s.option] => Values[s.option][w] \in CallCommands
  BY DEF CallCommands
<1> QED
  BY <1>1 DEF CallStates, ReadFixed

LEMMA ReadWordType ==
    ASSUME NEW s \in CallStates, NEW w \in CallWords
    PROVE  ReadWord(s, w) \in CallStates
<1>1. {"VOID", "QUIT", "WRITE_RECENT_TABLE"} \subseteq CallCommands
  BY DEF CallCommands
<1>2. ReadOption(s, w) \in CallStates
  BY <1>1 DEF CallStates, ReadOption
<1>3. ReadTable(s, w) \in CallStates
  BY <1>1 DEF CallStates, ReadTable
<1>4. s.option \in DOMAIN Values => ReadFixed(s, w) \in CallStates
  BY ReadFixedType
<1>5. /\ [s EXCEPT !.option = NoOption] \in CallStates
      /\ [s EXCEPT !.data = w, !.option = NoOption] \in CallStates
  BY DEF CallStates
<1>6. s.option \in DOMAIN Values \cup {"table", "port", "address", NoOption, FarmOption}
  BY DEF CallStates, TakesValue
<1> QED
  BY <1>2, <1>3, <1>4, <1>5, <1>6 DEF ReadWord

LEMMA CallStepType ==
    CallStep \in [CallWords -> [CallStates -> CallStates]] /\ NoWords \in CallStates
BY ReadWordType DEF CallStep, NoWords, CallStates, CallCommands

LEMMA WordsFold ==
    ASSUME NEW q \in Seq(CallWords)
    PROVE  FoldLeft(ReadWord, NoWords, q) = Result(CallStates, CallStep, NoWords, q)
<1> DEFINE n == Len(q)
           V == CallStates
           Eq(g) == g = [s \in SUBSET (DOMAIN q) |->
                           IF s = {} THEN NoWords
                           ELSE ReadWord(g[s \ {Max(s)}], q[Max(s)])]
           c == CHOOSE g : Eq(g)
<1>1. FoldLeft(ReadWord, NoWords, q) = c[DOMAIN q]
  BY DEF FoldLeft, MapThenFoldSet
<1>2. n \in Nat /\ DOMAIN q = 1 .. n /\ \A i \in 1 .. n : q[i] \in CallWords
  OBVIOUS
<1> HIDE DEF n, V
<1>3. ASSUME NEW s \in SUBSET (1 .. n), s # {}
      PROVE  Max(s) \in s /\ q[Max(s)] \in CallWords /\ s \ {Max(s)} \in SUBSET (1 .. n)
  <2>1. Max(s) \in s
    BY <1>2, <1>3, MaxOf
  <2> QED
    BY <1>2, <2>1
<1>4. PICK g : Folds(n, g, V, CallStep, NoWords, q)
  BY CallStepType, FoldingFunction DEF n, V
<1>5. /\ g \in [SUBSET (1 .. n) -> V] /\ g[{}] = NoWords
      /\ \A s \in SUBSET (1 .. n) :
            s # {} => g[s] = CallStep[q[Max(s)]][g[s \ {Max(s)}]]
  BY <1>4 DEF Folds
<1>6. Eq(g)
  <2> DEFINE body(s) == IF s = {} THEN NoWords ELSE ReadWord(g[s \ {Max(s)}], q[Max(s)])
  <2>1. ASSUME NEW s \in SUBSET (1 .. n) PROVE g[s] = body(s)
    <3>1. CASE s = {}
      BY <1>5, <3>1
    <3>2. CASE s # {}
      <4>1. q[Max(s)] \in CallWords /\ g[s \ {Max(s)}] \in V
        BY <1>3, <1>5, <3>2
      <4>2. g[s] = CallStep[q[Max(s)]][g[s \ {Max(s)}]]
        BY <1>5, <3>2
      <4>3. g[s] = ReadWord(g[s \ {Max(s)}], q[Max(s)])
        BY <4>1, <4>2 DEF CallStep, V
      <4> QED
        BY <3>2, <4>3
    <3> QED
      BY <3>1, <3>2
  <2> HIDE DEF body
  <2>2. g = [s \in SUBSET (1 .. n) |-> body(s)]
    BY <1>5, <2>1
  <2> QED
    BY <1>2, <2>2 DEF body
<1>7. Eq(c)
  <2> HIDE DEF Eq
  <2> QED
    BY <1>6
<1> HIDE DEF c
<1>8. \A s \in SUBSET (1 .. n) :
         c[s] = IF s = {} THEN NoWords ELSE ReadWord(c[s \ {Max(s)}], q[Max(s)])
  BY <1>2, <1>7
<1>9. c[{}] = NoWords
  BY <1>8
<1>10. \A s \in SUBSET (1 .. n) :
          s # {} /\ c[s \ {Max(s)}] \in V =>
             c[s] = CallStep[q[Max(s)]][c[s \ {Max(s)}]]
  <2> SUFFICES ASSUME NEW s \in SUBSET (1 .. n), s # {}, c[s \ {Max(s)}] \in V
               PROVE  c[s] = CallStep[q[Max(s)]][c[s \ {Max(s)}]]
    OBVIOUS
  <2>1. c[s] = ReadWord(c[s \ {Max(s)}], q[Max(s)])
    BY <1>8
  <2>2. q[Max(s)] \in CallWords
    BY <1>3
  <2> QED
    BY <2>1, <2>2 DEF CallStep, V
<1>11. c[1 .. n] = Result(V, CallStep, NoWords, q)
  <2>1. FoldsIn(c, V, CallStep, NoWords, q)
    BY <1>9, <1>10 DEF n, FoldsIn
  <2>2. c[1 .. Len(q)] = Result(V, CallStep, NoWords, q)
    BY <2>1, CallStepType, FoldValue DEF V
  <2> QED
    BY <2>2 DEF n
<1> QED
  BY <1>1, <1>2, <1>11 DEF V

LEMMA OneWord ==
    ASSUME NEW w \in CallWords
    PROVE  FoldLeft(ReadWord, NoWords, <<w>>) = ReadWord(NoWords, w)
<1> DEFINE none == <<>>
<1>1. /\ none \in Seq(CallWords) /\ <<w>> = Append(none, w) /\ <<w>> \in Seq(CallWords)
  OBVIOUS
<1>2. Result(CallStates, CallStep, NoWords, none) = NoWords
  BY CallStepType, ResultEmpty
<1> HIDE DEF none
<1>3. Result(CallStates, CallStep, NoWords, Append(none, w)) = CallStep[w][NoWords]
  BY <1>1, <1>2, CallStepType, ResultAppend
<1> QED
  BY <1>1, <1>3, CallStepType, WordsFold DEF CallStep

LEMMA AnotherWord ==
    ASSUME NEW q \in Seq(CallWords), NEW w \in CallWords
    PROVE  FoldLeft(ReadWord, NoWords, Append(q, w))
              = ReadWord(FoldLeft(ReadWord, NoWords, q), w)
<1> DEFINE s == Result(CallStates, CallStep, NoWords, q)
<1>1. Append(q, w) \in Seq(CallWords)
  OBVIOUS
<1>2. s \in CallStates
  BY CallStepType, ResultType
<1>3. Result(CallStates, CallStep, NoWords, Append(q, w)) = CallStep[w][s]
  BY CallStepType, ResultAppend
<1> HIDE DEF s
<1>4. CallStep[w][s] = ReadWord(s, w)
  BY <1>2 DEF CallStep
<1>5. s = FoldLeft(ReadWord, NoWords, q)
  BY WordsFold DEF s
<1> QED
  BY <1>1, <1>3, <1>4, <1>5, WordsFold

\* What main() knows when it has made out a command.
Known(command, data, option) ==
    [command |-> command, data |-> data, option |-> option, exit |-> FALSE]

KnownIs(r, c, d, o) ==
    /\ r = [k \in {"command", "data", "option", "exit"} |-> r[k]]
    /\ r["command"] = c /\ r["data"] = d /\ r["option"] = o /\ r["exit"] = FALSE

LEMMA IsKnown ==
    ASSUME NEW c, NEW d, NEW o
    PROVE  KnownIs(Known(c, d, o), c, d, o)
BY DEF Known, KnownIs

LEMMA KnownUnique ==
    ASSUME NEW c, NEW d, NEW o, NEW r, KnownIs(r, c, d, o)
    PROVE  r = Known(c, d, o)
<1> DEFINE t == Known(c, d, o)
<1>1. KnownIs(t, c, d, o)
  BY IsKnown
<1> HIDE DEF t
<1>2. \A k \in {"command", "data", "option", "exit"} : r[k] = t[k]
  BY <1>1 DEF KnownIs
<1>3. r = t
  BY <1>1, <1>2 DEF KnownIs
<1> QED
  BY <1>3 DEF t

LEMMA KnownFields ==
    \A c, d, o, s : s = Known(c, d, o) =>
        s.command = c /\ s.data = d /\ s.option = o /\ ~s.exit
BY DEF Known

LEMMA NothingKnown == NoWords = Known("VOID", "", NoOption)
BY DEF NoWords, Known

LEMMA ValueFacts ==
    /\ {"start", "show", "write"} \subseteq DOMAIN Values
    /\ DOMAIN Values \cap {NoOption, FarmOption, "table", "port", "address"} = {}
    /\ \A o \in {"start", "show", "write"} : {"http", "recent"} \subseteq DOMAIN Values[o]
    /\ Values["start"]["http"] = "START_HTTP_SYNC"
    /\ Values["start"]["recent"] = "START_RECENT_SYNC"
    /\ Values["show"]["http"] = "SHOW_HTTP" /\ Values["show"]["recent"] = "SHOW_RECENT"
    /\ Values["write"]["http"] = "WRITE_HTTP"
    /\ Values["write"]["recent"] = "WRITE_RECENT"
<1>1. DOMAIN Values = {"write", "clear", "count", "show", "start", "stop", "switch"}
  BY DEF Values
<1>2. /\ Values["start"] = [http |-> "START_HTTP_SYNC", recent |-> "START_RECENT_SYNC"]
      /\ Values["show"] = [http |-> "SHOW_HTTP", recent |-> "SHOW_RECENT",
                           mode |-> "SHOW_MODE"]
      /\ Values["write"] = [http |-> "WRITE_HTTP", recent |-> "WRITE_RECENT"]
  BY DEF Values
<1>3. /\ {"http", "recent"} \subseteq DOMAIN Values["start"]
      /\ {"http", "recent"} \subseteq DOMAIN Values["show"]
      /\ {"http", "recent"} \subseteq DOMAIN Values["write"]
  BY <1>2
<1> QED
  BY <1>1, <1>2, <1>3 DEF NoOption, FarmOption

(***************************************************************************)
(* command_line: the words the README lists make the commands it names.    *)
(***************************************************************************)
LEMMA OptionWord ==
    \A c, d, w : ReadWord(Known(c, d, NoOption), w) = ReadOption(Known(c, d, NoOption), w)
<1> TAKE c, d, w
<1> DEFINE s == Known(c, d, NoOption)
<1>1. s.option = NoOption /\ ~s.exit
  BY KnownFields
<1> HIDE DEF s
<1>2. NoOption \notin DOMAIN Values \cup {FarmOption, "table", "port", "address"}
  BY ValueFacts DEF FarmOption, NoOption
<1>3. ReadWord(s, w) = ReadOption(s, w)
  BY <1>1, <1>2 DEF ReadWord
<1> QED
  BY <1>3 DEF s

LEMMA QuitWord ==
    \A c, d, o : ReadOption(Known(c, d, o), "quit") = Known("QUIT", d, o)
<1> TAKE c, d, o
<1> DEFINE s == Known(c, d, o)
           q == "QUIT"
           w == "quit"
           r == [s EXCEPT !.command = q]
<1>1. KnownIs(s, c, d, o)
  BY IsKnown
<1>2. w = "quit" /\ w # "help" /\ q = "QUIT" /\ w \notin TakesValue
  BY DEF TakesValue, Values
<1> HIDE DEF s, q, w
<1>3. KnownIs(r, q, d, o)
  BY <1>1 DEF KnownIs
<1>4. ReadOption(s, w) = r
  BY <1>2 DEF ReadOption
<1> HIDE DEF r
<1>5. ReadOption(s, w) = Known(q, d, o)
  BY <1>3, <1>4, KnownUnique
<1> QED
  BY <1>5 DEF s, q, w

LEMMA ValueWord ==
    \A c, d, o, w : w \in TakesValue \ {"help", "quit"} =>
        ReadOption(Known(c, d, o), w) = Known(c, d, w)
<1> TAKE c, d, o, w
<1> HAVE w \in TakesValue \ {"help", "quit"}
<1> DEFINE s == Known(c, d, o)
           r == [s EXCEPT !.option = w]
<1>1. KnownIs(s, c, d, o)
  BY IsKnown
<1> HIDE DEF s
<1>2. KnownIs(r, c, d, w)
  BY <1>1 DEF KnownIs
<1>3. ReadOption(s, w) = r
  BY DEF ReadOption
<1> HIDE DEF r
<1>4. ReadOption(s, w) = Known(c, d, w)
  BY <1>2, <1>3, KnownUnique
<1> QED
  BY <1>4 DEF s

LEMMA FixedWord ==
    \A c, d, o, w :
        /\ o \in DOMAIN Values /\ w \in DOMAIN Values[o] /\ o # "stop"
        /\ o \notin {NoOption, FarmOption, "table", "port", "address"}
        => ReadWord(Known(c, d, o), w)
              = Known(Values[o][w], d,
                      IF o = "start" /\ w = "http" THEN FarmOption ELSE NoOption)
<1> TAKE c, d, o, w
<1> HAVE /\ o \in DOMAIN Values /\ w \in DOMAIN Values[o] /\ o # "stop"
         /\ o \notin {NoOption, FarmOption, "table", "port", "address"}
<1> DEFINE s == Known(c, d, o)
           next == IF o = "start" /\ w = "http" THEN FarmOption ELSE NoOption
           v == Values[o][w]
           r == [s EXCEPT !.command = v, !.option = next]
<1>1. s.option = o /\ ~s.exit /\ KnownIs(s, c, d, o)
  BY KnownFields, IsKnown
<1> HIDE DEF s
<1>2. ReadWord(s, w) = ReadFixed(s, w)
  BY <1>1 DEF ReadWord
<1>3. ReadFixed(s, w) = r
  BY <1>1 DEF ReadFixed
<1> HIDE DEF next, v
<1>4. KnownIs(r, v, d, next)
  BY <1>1 DEF KnownIs
<1> HIDE DEF r
<1>5. ReadWord(s, w) = Known(v, d, next)
  BY <1>2, <1>3, <1>4, KnownUnique
<1> QED
  BY <1>5 DEF next, v, s

LEMMA FarmWord ==
    \A c, d, f : ReadWord(Known(c, d, FarmOption), f) = Known(c, f, NoOption)
<1> TAKE c, d, f
<1> DEFINE s == Known(c, d, FarmOption)
           r == [s EXCEPT !.data = f, !.option = NoOption]
<1>1. s.option = FarmOption /\ ~s.exit /\ KnownIs(s, c, d, FarmOption)
  BY KnownFields, IsKnown
<1> HIDE DEF s
<1>2. KnownIs(r, c, f, NoOption)
  BY <1>1 DEF KnownIs
<1>3. FarmOption \notin DOMAIN Values \cup {NoOption, "table", "port", "address"}
  BY ValueFacts DEF FarmOption, NoOption
<1>4. ReadWord(s, f) = r
  BY <1>1, <1>3 DEF ReadWord
<1> HIDE DEF r
<1>5. ReadWord(s, f) = Known(c, f, NoOption)
  BY <1>2, <1>4, KnownUnique
<1> QED
  BY <1>5 DEF s

LEMMA OptionWords ==
    /\ ReadWord(NoWords, "quit") = Known("QUIT", "", NoOption)
    /\ \A w \in {"start", "show", "write"} :
          ReadWord(NoWords, w) = Known("VOID", "", w)
<1> DEFINE Quits(c, d) == ReadWord(Known(c, d, NoOption), "quit") = Known("QUIT", d, NoOption)
           Opens(c, d) == \A w \in {"start", "show", "write"} :
                             ReadWord(Known(c, d, NoOption), w) = Known(c, d, w)
<1>1. ASSUME NEW c, NEW d PROVE Quits(c, d)
  BY OptionWord, QuitWord
<1>2. ASSUME NEW c, NEW d PROVE Opens(c, d)
  <2>1. \A w \in {"start", "show", "write"} : w \in TakesValue \ {"help", "quit"}
    BY ValueFacts DEF TakesValue
  <2> QED
    BY <2>1, OptionWord, ValueWord
<1> HIDE DEF Quits, Opens
<1>3. Quits("VOID", "") /\ Opens("VOID", "")
  BY <1>1, <1>2
<1> QED
  BY <1>3, NothingKnown DEF Quits, Opens

LEMMA ReadsFixed ==
    \A o \in {"start", "show", "write"}, w \in {"http", "recent"} :
        ReadWord(Known("VOID", "", o), w)
           = Known(Values[o][w], "",
                   IF o = "start" /\ w = "http" THEN FarmOption ELSE NoOption)
<1> DEFINE Reads(c, d) ==
              \A o \in {"start", "show", "write"}, w \in {"http", "recent"} :
                 ReadWord(Known(c, d, o), w)
                    = Known(Values[o][w], d,
                            IF o = "start" /\ w = "http" THEN FarmOption ELSE NoOption)
<1>1. ASSUME NEW c, NEW d PROVE Reads(c, d)
  <2>1. \A o \in {"start", "show", "write"}, w \in {"http", "recent"} :
           /\ o \in DOMAIN Values /\ w \in DOMAIN Values[o] /\ o # "stop"
           /\ o \notin {NoOption, FarmOption, "table", "port", "address"}
    BY ValueFacts
  <2> QED
    BY <2>1, FixedWord
<1> HIDE DEF Reads
<1>2. Reads("VOID", "")
  BY <1>1
<1> QED
  BY <1>2 DEF Reads

LEMMA TwoWords ==
    ASSUME NEW v \in CallWords, NEW w \in CallWords
    PROVE  FoldLeft(ReadWord, NoWords, <<v, w>>) = ReadWord(ReadWord(NoWords, v), w)
<1>1. <<v>> \in Seq(CallWords) /\ <<v, w>> = Append(<<v>>, w)
  OBVIOUS
<1> QED
  BY <1>1, OneWord, AnotherWord

LEMMA CommandMadeOut ==
    ASSUME NEW argv, NEW c, NEW d, FoldLeft(ReadWord, NoWords, argv) = Known(c, d, NoOption)
    PROVE  /\ command_line(argv) = [command |-> c, data |-> d]
           /\ command_line(argv).command = c
<1> DEFINE s == FoldLeft(ReadWord, NoWords, argv)
<1>1. ~s.exit /\ s.option = NoOption /\ s.command = c /\ s.data = d
  BY KnownFields
<1> HIDE DEF s
<1>2. command_line(argv) =
         IF s.exit \/ s.option \notin {NoOption, "port", "address"}
         THEN NoCommand ELSE [command |-> s.command, data |-> s.data]
  BY DEF command_line, s
<1>3. command_line(argv) = [command |-> c, data |-> d]
  BY <1>1, <1>2
<1> QED
  BY <1>3

LEMMA StartFarm ==
    ASSUME NEW f \in Farms
    PROVE  command_line(<<"start", "http", f>>)
              = [command |-> "START_HTTP_SYNC", data |-> f]
<1> DEFINE two == <<"start", "http">>
<1>1. "start" \in CallWords /\ "http" \in CallWords /\ f \in CallWords
  BY DEF CallWords
<1>2. two \in Seq(CallWords) /\ <<"start", "http", f>> = Append(two, f)
  BY <1>1
<1>3. ReadWord(NoWords, "start") = Known("VOID", "", "start")
  BY OptionWords
<1>4. ReadWord(Known("VOID", "", "start"), "http")
         = Known("START_HTTP_SYNC", "", FarmOption)
  BY ReadsFixed, ValueFacts
<1>5. FoldLeft(ReadWord, NoWords, two) = Known("START_HTTP_SYNC", "", FarmOption)
  BY <1>1, <1>3, <1>4, TwoWords
<1> HIDE DEF two
<1>6. FoldLeft(ReadWord, NoWords, Append(two, f))
         = ReadWord(Known("START_HTTP_SYNC", "", FarmOption), f)
  BY <1>1, <1>2, <1>5, AnotherWord
<1>7. FoldLeft(ReadWord, NoWords, <<"start", "http", f>>)
         = Known("START_HTTP_SYNC", f, NoOption)
  BY <1>2, <1>6, FarmWord
<1> QED
  BY <1>7, CommandMadeOut

LEMMA ListedPair ==
    ASSUME NEW o \in {"start", "show", "write"}, NEW w \in {"http", "recent"},
           ~(o = "start" /\ w = "http")
    PROVE  command_line(<<o, w>>).command = Values[o][w]
<1> DEFINE c == Values[o][w]
           argv == <<o, w>>
<1>1. o \in CallWords /\ w \in CallWords
  BY DEF CallWords
<1>2. ReadWord(NoWords, o) = Known("VOID", "", o)
  BY OptionWords
<1>3. ReadWord(Known("VOID", "", o), w) = Known(c, "", NoOption)
  BY ReadsFixed
<1>4. FoldLeft(ReadWord, NoWords, argv) = Known(c, "", NoOption)
  BY <1>1, <1>2, <1>3, TwoWords
<1> HIDE DEF c, argv
<1>5. command_line(argv).command = c
  BY <1>4, CommandMadeOut
<1> QED
  BY <1>5 DEF c, argv

LEMMA ListedCalls ==
    ASSUME NEW call \in Listed PROVE command_line(call.argv).command = call.command
<1>1. command_line(<<"quit">>).command = "QUIT"
  <2>1. "quit" \in CallWords
    BY DEF CallWords
  <2>2. FoldLeft(ReadWord, NoWords, <<"quit">>) = Known("QUIT", "", NoOption)
    BY <2>1, OneWord, OptionWords
  <2> QED
    BY <2>2, CommandMadeOut
<1>2. /\ command_line(<<"start", "recent">>).command = "START_RECENT_SYNC"
      /\ command_line(<<"show", "http">>).command = "SHOW_HTTP"
      /\ command_line(<<"show", "recent">>).command = "SHOW_RECENT"
      /\ command_line(<<"write", "http">>).command = "WRITE_HTTP"
      /\ command_line(<<"write", "recent">>).command = "WRITE_RECENT"
  BY ListedPair, ValueFacts
<1>3. \/ call.argv = <<"quit">> /\ call.command = "QUIT"
      \/ call.argv = <<"start", "recent">> /\ call.command = "START_RECENT_SYNC"
      \/ call.argv = <<"show", "http">> /\ call.command = "SHOW_HTTP"
      \/ call.argv = <<"show", "recent">> /\ call.command = "SHOW_RECENT"
      \/ call.argv = <<"write", "http">> /\ call.command = "WRITE_HTTP"
      \/ call.argv = <<"write", "recent">> /\ call.command = "WRITE_RECENT"
  BY DEF Listed
<1> QED
  BY <1>1, <1>2, <1>3

(***************************************************************************)
(* For any farms and any calls of ssyncdctl: what ctl_task executes is the *)
(* command the README gives for the words, with the farm that was named.   *)
(***************************************************************************)
THEOREM AsDocumentedHolds == NodeSpec => []AsDocumented
<1>1. NodeInv => AsDocumented
  <2> SUFFICES ASSUME NodeInv, alive, at \notin {"accept", "recv"}
               PROVE  /\ \A call \in Listed :
                            client.argv = call.argv => cmd.command = call.command
                      /\ \A farm \in Farms :
                            client.argv = <<"start", "http", farm>> =>
                               cmd = [command |-> "START_HTTP_SYNC", data |-> farm]
    BY DEF AsDocumented
  <2>1. cmd = command_line(client.argv)
    BY DEF NodeInv, ServesClient, Packet
  <2> QED
    BY <2>1, ListedCalls, StartFarm
<1> QED
  BY <1>1, NodeInvHolds, PTL
=============================================================================
