--------------------------- MODULE NodeConnection ---------------------------
(***************************************************************************)
(* The connections of an AbstractNode: AbstractNode::_connections, one     *)
(* AbstractNodeInfo per peer address, and the sockets they point to.       *)
(*                                                                         *)
(* Three kinds of threads work on them without a common lock:              *)
(*   - the sender thread, where sockets and infos live: its event loop     *)
(*     runs the jobs of AsyncLauncher and DataSender, the queued slots of  *)
(*     the infos, the signals of the sockets and their deferred deletion;  *)
(*   - the main thread: handleNodeStatusChanged, the single shot timers,   *)
(*     and the calls of the application;                                   *)
(*   - the package workers: AbstractNode::newWork.                         *)
(* A function of the code is the sequence of its accesses to the shared    *)
(* fields: program[t] holds the accesses thread t has still to make, and   *)
(* each of them is one step.  With Preemptive = FALSE a thread begins only *)
(* when the others have none left.                                         *)
(***************************************************************************)
EXTENDS Integers, Sequences, FiniteSets

CONSTANTS
    Local,            \* addresses this node connects to (addNode)
    Remote,           \* addresses peers connect from (incomingTcp)
    Socket,           \* the sockets, each used for one connection
    Worker,           \* threads of _threadPool
    None,
    MaxConnections,   \* QTcpServer::maxPendingConnections()
    Penalty,          \* what bad packages cost: CRITICAL_ERROOR, REQUEST_ERROR
    FreshPeers,       \* peers never connect from the same address again
    NodeKind,         \* the classes the node may be of
    PackageKind,      \* what the packages of the peers are
    Preemptive,       \* whether the calls of different threads overlap
    UserCall,         \* what the application calls: "remove", "ban", "unBan"
    MaxCalls,         \* bound: calls of the application
    MaxPackages       \* bound: packages handed to the workers

Address == Local \cup Remote
Thread == {"main", "sender"} \cup Worker

ASSUME ConstantsAssumption ==
    /\ Local \cap Remote = {}
    /\ None \notin Socket \cup Address \cup Worker
    /\ {"main", "sender"} \cap Worker = {}
    /\ IsFiniteSet(Address) /\ IsFiniteSet(Socket)
    /\ MaxConnections \in Nat
    /\ Penalty \subseteq Nat \ {0}
    /\ FreshPeers \in BOOLEAN
    /\ NodeKind \subseteq {"AbstractNode", "DataBaseNode"}
    /\ PackageKind \subseteq
          {"processed", "ping", "closeConnection", "notProcessed", "badRequest"}
    /\ Preemptive \in BOOLEAN
    /\ UserCall \subseteq {"remove", "ban", "unBan"}
    /\ MaxCalls \in Nat
    /\ MaxPackages \in Nat

\* enum TrustNode
DefaultTrust == 100
Baned == 0
Undefined == 255

VARIABLES
    node,         \* the class of the node
    known,        \* the keys of AbstractNode::_connections
    sct,          \* AbstractNodeInfo::_sct
    status,       \* AbstractNodeInfo::_status
    trust,        \* AbstractNodeInfo::_trust
    isLocal,      \* AbstractNodeInfo::_isLocal
    watched,      \* the infos whose statusChaned is connected to the node
    sock,         \* the state of each socket
    peerOf,       \* the address a socket is, or was, registered for
    wired,        \* the sockets whose signals are connected to their info
    senderQueue,  \* events of the sender thread
    mainQueue,    \* statusChaned events of the main thread
    timers,       \* single shot timers of the main thread that have not fired
    program,      \* the accesses each thread has still to make
    calls,        \* number of calls of the application so far
    packages,     \* number of packages handed to the workers so far
    heard,        \* the status handleNodeStatusChanged was last called with
    freed         \* a deleted socket has been used

info == <<known, sct, status, trust, isLocal, watched>>
sockets == <<sock, peerOf, wired, freed>>
queues == <<senderQueue, mainQueue, timers>>
bounds == <<node, calls, packages>>
vars == <<node, known, sct, status, trust, isLocal, watched, sock, peerOf, wired, freed,
          senderQueue, mainQueue, timers, calls, packages, heard, program>>

-----------------------------------------------------------------------------
(* Programs. *)

Op(name, a, s) == [op |-> name, a |-> a, s |-> s, v |-> None]

OpValue(name, a, v) == [op |-> name, a |-> a, s |-> None, v |-> v]

Take(a) == Op("take", a, None)                      \* if (_sct) socketPtr = _sct
Null(a, s) == Op("null", a, s)                      \* _sct = nullptr
Drop(a, s) == Op("drop", a, s)                      \* disconnect(), deleteLater
SetStatus(a, st) == OpValue("status", a, st)        \* setStatus(st)
Attach(a, s) == Op("attach", a, s)                  \* _sct = sct; connect(...)
SetTrust(a, v) == OpValue("trust", a, v)            \* setTrust(v)
SetLocal(a, b) == OpValue("local", a, b)            \* setIsLocal(b)
Create(a, s, b) ==                                  \* _connections[cliAddress] = info
    [op |-> "create", a |-> a, s |-> s, v |-> b]
Announce(a) == Op("announce", a, None)              \* connect(info, ...), singleShot
Registered(a, s) == Op("registered", a, s)          \* return info->isValid()
Remove(a) == Op("remove", a, None)                  \* removeNode(a)
Send(a) == Op("send", a, None)                      \* sendData(..., a)
Write(a, s) == Op("write", a, s)                    \* sendPackage(pkg, s)
ForceRemove(a) == Op("force", a, None)              \* handleForceRemoveNode(a)
Ban(a) == Op("ban", a, None)                        \* ban(a)
UnBan(a) == Op("unBan", a, None)                    \* unBan(a)
Confirmable(a) == Op("confirmable", a, None)        \* if (confirmData())
ReadTrust(a, diff, orBan) ==                   \* objTrust = ptr->trust()
    OpValue(IF orBan THEN "requestTrust" ELSE "readTrust", a, diff)

\* AbstractNodeInfo::removeSocket
RemoveSocket(a) == <<Take(a)>>

\* Mutant of SetSct: the old socket is not removed.
SetSctKeepsOld(a, s) == <<Attach(a, s)>>

\* AbstractNodeInfo::setSct
SetSct(a, s) == RemoveSocket(a) \o <<Attach(a, s)>>

\* AbstractNodeInfo::reset
Reset(a) ==
    SetSct(a, None) \o
    <<SetTrust(a, DefaultTrust), SetStatus(a, "NotConnected"), SetLocal(a, FALSE)>>

Idle(t) == program[t] = <<>>

At(t, name) == program[t] # <<>> /\ Head(program[t]).op = name

\* Thread t has made its first access and goes on with `ops' before the rest.
Continue(t, ops) == program' = [program EXCEPT ![t] = ops \o Tail(@)]

MayStart(t) == IF Preemptive THEN Idle(t) ELSE \A u \in Thread : Idle(u)

Start(t, ops) == program' = [program EXCEPT ![t] = ops]

-----------------------------------------------------------------------------
(* What the node and its infos tell of themselves. *)

IsConnected(a) == sct[a] # None /\ status[a] # "NotConnected"

\* AbstractNode::connectionsCount()
ConnectionsCount == Cardinality({a \in known : IsConnected(a)})

\* AbstractNode::isBanned(socket) of a socket whose peer is a.
IsBanned(a) == a \in known /\ sct[a] # None /\ trust[a] < 1

\* registerSocket holds _connectionsMutex, which getInfoPtr takes.
Locked == \E i \in DOMAIN program["sender"] : program["sender"][i].op = "registered"

Init ==
    /\ node \in NodeKind
    /\ known = {}
    /\ sct = [a \in Address |-> None]
    /\ status = [a \in Address |-> "NotConnected"]
    /\ trust = [a \in Address |-> DefaultTrust]
    /\ isLocal = [a \in Address |-> FALSE]
    /\ watched = {}
    /\ sock = [s \in Socket |-> "unused"]
    /\ peerOf = [s \in Socket |-> None]
    /\ wired = {}
    /\ freed = FALSE
    /\ senderQueue = <<>>
    /\ mainQueue = <<>>
    /\ timers = {}
    /\ calls = 0
    /\ packages = 0
    /\ heard = [a \in Address |-> "NotConnected"]
    /\ program = [t \in Thread |-> <<>>]

-----------------------------------------------------------------------------
(* Accesses to an info, by thread t. *)

\* Mutants of DoTake: _sct is not cleared, and the status is not set.
DoTakeNoNull(t) ==
    /\ At(t, "take")
    /\ LET a == Head(program[t]).a
       IN  Continue(t, IF sct[a] = None THEN <<>>
                       ELSE <<Drop(a, sct[a]), SetStatus(a, "NotConnected")>>)
    /\ UNCHANGED <<info, sockets, queues, bounds, heard>>

DoTakeNoStatus(t) ==
    /\ At(t, "take")
    /\ LET a == Head(program[t]).a
       IN  Continue(t, IF sct[a] = None THEN <<>>
                       ELSE <<Null(a, sct[a]), Drop(a, sct[a])>>)
    /\ UNCHANGED <<info, sockets, queues, bounds, heard>>

\* removeSocket() begins: nothing to do without a socket.
DoTake(t) ==
    /\ At(t, "take")
    /\ LET a == Head(program[t]).a
       IN  Continue(t, IF sct[a] = None THEN <<>>
                       ELSE <<Null(a, sct[a]), Drop(a, sct[a]),
                              SetStatus(a, "NotConnected")>>)
    /\ UNCHANGED <<info, sockets, queues, bounds, heard>>

DoNull(t) ==
    /\ At(t, "null")
    /\ sct' = [sct EXCEPT ![Head(program[t]).a] = None]
    /\ Continue(t, <<>>)
    /\ UNCHANGED <<known, status, trust, isLocal, watched, sockets, queues, bounds, heard>>

\* Mutant of DoDrop: the socket is not deleted.
DoDropNoDelete(t) ==
    /\ At(t, "drop")
    /\ wired' = wired \ {Head(program[t]).s}
    /\ Continue(t, <<>>)
    /\ UNCHANGED <<info, sock, peerOf, freed, queues, bounds, heard>>

\* socketPtr->disconnect(), and the deletion posted to the sender thread.
DoDrop(t) ==
    /\ At(t, "drop")
    /\ LET s == Head(program[t]).s
       IN  IF sock[s] = "deleted"
           THEN freed' = TRUE /\ UNCHANGED <<wired, senderQueue>>
           ELSE /\ wired' = wired \ {s}
                /\ senderQueue' = Append(senderQueue, Op("deleteLater", None, s))
                /\ UNCHANGED freed
    /\ Continue(t, <<>>)
    /\ UNCHANGED <<info, sock, peerOf, mainQueue, timers, bounds, heard>>

\* Mutant of DoStatus: the event is not emitted.
DoStatusSilent(t) ==
    /\ At(t, "status")
    /\ LET o == Head(program[t])
       IN  status' = [status EXCEPT ![o.a] = o.v]
    /\ Continue(t, <<>>)
    /\ UNCHANGED <<known, sct, trust, isLocal, watched, sockets, queues, bounds, heard>>

\* setStatus: statusChaned reaches the main thread by a queued connection, once
\* registerSocket has made it.
DoStatus(t) ==
    /\ At(t, "status")
    /\ LET o == Head(program[t])
       IN  /\ status' = [status EXCEPT ![o.a] = o.v]
           /\ mainQueue' = IF status[o.a] # o.v /\ o.a \in watched
                           THEN Append(mainQueue, <<o.a, o.v>>)
                           ELSE mainQueue
    /\ Continue(t, <<>>)
    /\ UNCHANGED <<known, sct, trust, isLocal, watched, sockets, senderQueue, timers,
                   bounds, heard>>

\* setSct after removeSocket(); connectedF() for a socket that is connected.
DoAttach(t) ==
    /\ At(t, "attach")
    /\ LET o == Head(program[t])
       IN  /\ sct' = [sct EXCEPT ![o.a] = o.s]
           /\ IF o.s = None
              THEN UNCHANGED <<peerOf, wired>>
              ELSE peerOf' = [peerOf EXCEPT ![o.s] = o.a] /\ wired' = wired \cup {o.s}
           /\ Continue(t, IF o.s # None /\ sock[o.s] = "open"
                          THEN <<SetStatus(o.a, "Connected")>> ELSE <<>>)
    /\ UNCHANGED <<known, status, trust, isLocal, watched, sock, freed, queues, bounds, heard>>

\* setTrust (and ban): a trust below 1 removes the socket.
DoTrust(t) ==
    /\ At(t, "trust")
    /\ LET o == Head(program[t])
       IN  /\ trust' = [trust EXCEPT ![o.a] = o.v]
           /\ Continue(t, IF o.v < 1 THEN RemoveSocket(o.a) ELSE <<>>)
    /\ UNCHANGED <<known, sct, status, isLocal, watched, sockets, queues, bounds, heard>>

DoLocal(t) ==
    /\ At(t, "local")
    /\ isLocal' = [isLocal EXCEPT ![Head(program[t]).a] = Head(program[t]).v]
    /\ Continue(t, <<>>)
    /\ UNCHANGED <<known, sct, status, trust, watched, sockets, queues, bounds, heard>>

\* updateConfirmStatus: confirmData(), then setStatus.  _confirmNodeMutex lets
\* one worker at a time in.
DoConfirmable(t) ==
    /\ At(t, "confirmable")
    /\ ~ \E u \in Worker : At(u, "status") /\ Head(program[u]).v = "Confirmed"
    /\ LET a == Head(program[t]).a
       IN  Continue(t, IF status[a] # "NotConnected"
                       THEN <<SetStatus(a, "Confirmed")>> ELSE <<>>)
    /\ UNCHANGED <<info, sockets, queues, bounds, heard>>

InfoAccess(t) ==
    \/ DoTake(t) \/ DoNull(t) \/ DoDrop(t) \/ DoStatus(t) \/ DoAttach(t)
    \/ DoTrust(t) \/ DoLocal(t) \/ DoConfirmable(t)

-----------------------------------------------------------------------------
(* Calls of AbstractNode, by thread t.  Those that start with getInfoPtr wait *)
(* for _connectionsMutex and do nothing for an unknown address.               *)

\* Mutant of DoRemove: the force timer is not started.
DoRemoveNoTimer(t) ==
    /\ At(t, "remove") /\ ~Locked
    /\ LET a == Head(program[t]).a
       IN  Continue(t, IF a \notin known THEN <<>>
                       ELSE IF isLocal[a] THEN RemoveSocket(a) ELSE <<Send(a)>>)
    /\ UNCHANGED <<info, sockets, queues, bounds, heard>>

\* removeNode: a server asks its client to close, and closes itself when the
\* timer fires.
DoRemove(t) ==
    /\ At(t, "remove") /\ ~Locked
    /\ LET a == Head(program[t]).a
       IN  IF a \in known /\ ~isLocal[a]
           THEN timers' = timers \cup {<<"force", a>>} /\ Continue(t, <<Send(a)>>)
           ELSE /\ UNCHANGED timers
                /\ Continue(t, IF a \in known THEN RemoveSocket(a) ELSE <<>>)
    /\ UNCHANGED <<info, sockets, senderQueue, mainQueue, bounds, heard>>

\* handleForceRemoveNode
DoForceRemove(t) ==
    /\ At(t, "force") /\ ~Locked
    /\ LET a == Head(program[t]).a
       IN  Continue(t, IF a \in known THEN RemoveSocket(a) ELSE <<>>)
    /\ UNCHANGED <<info, sockets, queues, bounds, heard>>

DoBan(t) ==
    /\ At(t, "ban") /\ ~Locked
    /\ LET a == Head(program[t]).a
       IN  Continue(t, IF a \in known THEN <<SetTrust(a, Baned)>> ELSE <<>>)
    /\ UNCHANGED <<info, sockets, queues, bounds, heard>>

\* unBan returns both for an unknown address and for a known one.
DoUnBan(t) ==
    /\ At(t, "unBan") /\ ~Locked
    /\ Continue(t, <<>>)
    /\ UNCHANGED <<info, sockets, queues, bounds, heard>>

\* sendData: the socket of the info is read; sendPackage uses it afterwards.
DoSend(t) ==
    /\ At(t, "send") /\ ~Locked
    /\ LET a == Head(program[t]).a
       IN  Continue(t, IF a \in known /\ sct[a] # None THEN <<Write(a, sct[a])>> ELSE <<>>)
    /\ UNCHANGED <<info, sockets, queues, bounds, heard>>

\* sendPackage: isValid(), waitForConnected(), and the job of DataSender.
DoWrite(t) ==
    /\ At(t, "write")
    /\ LET o == Head(program[t])
       IN  /\ freed' = (freed \/ sock[o.s] = "deleted")
           /\ senderQueue' = IF sock[o.s] = "open" THEN Append(senderQueue, o)
                             ELSE senderQueue
    /\ Continue(t, <<>>)
    /\ UNCHANGED <<info, sock, peerOf, wired, mainQueue, timers, bounds, heard>>

\* changeTrust: nothing is changed when the trust is Undefined or Baned;
\* badRequest bans the address then, and otherwise answers with a BadRequest.
DoReadTrust(t) ==
    /\ At(t, "readTrust") \/ At(t, "requestTrust")
    /\ ~Locked
    /\ LET o == Head(program[t])
           answers == o.op = "requestTrust"
       IN  Continue(t,
               IF o.a \in known /\ trust[o.a] > Baned /\ trust[o.a] < Undefined
               THEN <<SetTrust(o.a, trust[o.a] - o.v)>>
                        \o (IF answers THEN <<Send(o.a)>> ELSE <<>>)
               ELSE IF answers THEN <<Ban(o.a)>> ELSE <<>>)
    /\ UNCHANGED <<info, sockets, queues, bounds, heard>>

NodeCall(t) ==
    \/ DoRemove(t) \/ DoForceRemove(t) \/ DoBan(t) \/ DoUnBan(t)
    \/ DoSend(t) \/ DoWrite(t) \/ DoReadTrust(t)

-----------------------------------------------------------------------------
(* registerSocket, in the sender thread. *)

\* Mutant of RegisterSocket: more connections than the limit are accepted.
RegisterSocketOverLimit(a, s, localNode) ==
    IF ConnectionsCount > MaxConnections THEN <<>>
    ELSE IF a \in known
    THEN SetSct(a, s) \o <<SetLocal(a, localNode), Registered(a, s)>>
    ELSE <<Create(a, s, localNode), Announce(a)>>

\* Mutant of RegisterSocket: the signals come before the entry of the info.
RegisterSocketAnnouncesFirst(a, s, localNode) ==
    IF ConnectionsCount >= MaxConnections THEN <<>>
    ELSE IF a \in known
    THEN SetSct(a, s) \o <<SetLocal(a, localNode), Registered(a, s)>>
    ELSE <<Announce(a), Create(a, s, localNode)>>

\* <<>> when the limit is reached; a known info gets the socket, a new one is
\* created with it.
RegisterSocket(a, s, localNode) ==
    IF ConnectionsCount >= MaxConnections THEN <<>>
    ELSE IF a \in known
    THEN SetSct(a, s) \o <<SetLocal(a, localNode), Registered(a, s)>>
    ELSE <<Create(a, s, localNode), Announce(a)>>

\* createNodeInfo with the socket, and the entry of _connections.  Nobody sees
\* the info before, and nobody hears of its first status.
DoCreate ==
    /\ At("sender", "create")
    /\ LET o == Head(program["sender"])
       IN  /\ known' = known \cup {o.a}
           /\ sct' = [sct EXCEPT ![o.a] = o.s]
           /\ status' = [status EXCEPT ![o.a] =
                            IF sock[o.s] = "open" THEN "Connected" ELSE "NotConnected"]
           /\ isLocal' = [isLocal EXCEPT ![o.a] = o.v]
           /\ peerOf' = [peerOf EXCEPT ![o.s] = o.a]
           /\ wired' = wired \cup {o.s}
    /\ Continue("sender", <<>>)
    /\ UNCHANGED <<trust, watched, sock, freed, queues, bounds, heard>>

\* The signals of the new info, and the timer of checkConfirmendOfNode.
DoAnnounce ==
    /\ At("sender", "announce")
    /\ LET a == Head(program["sender"]).a
       IN  watched' = watched \cup {a} /\ timers' = timers \cup {<<"confirm", a>>}
    /\ Continue("sender", <<>>)
    /\ UNCHANGED <<known, sct, status, trust, isLocal, sockets, senderQueue, mainQueue,
                   bounds, heard>>

\* The result for a known address; the job deletes the socket when the info has
\* lost it again, and skips what it would do after a success.
DoRegistered ==
    /\ At("sender", "registered")
    /\ LET o == Head(program["sender"])
       IN  IF sct[o.a] # None
           THEN Continue("sender", <<>>) /\ UNCHANGED <<sock, wired>>
           ELSE /\ sock' = [sock EXCEPT ![o.s] = "deleted"]
                /\ wired' = wired \ {o.s}
                /\ Start("sender", <<>>)
    /\ UNCHANGED <<info, peerOf, freed, queues, bounds, heard>>

\* connectToHost of a socket that was registered.
DoConnect ==
    /\ At("sender", "connect")
    /\ sock' = [sock EXCEPT ![Head(program["sender"]).s] = "connecting"]
    /\ Continue("sender", <<>>)
    /\ UNCHANGED <<info, peerOf, wired, freed, queues, bounds, heard>>

Register == DoCreate \/ DoAnnounce \/ DoRegistered \/ DoConnect

-----------------------------------------------------------------------------
(* The event loop of the sender thread. *)

NextSocket == {s \in Socket : sock[s] = "unused"}

Job(name) ==
    /\ MayStart("sender")
    /\ senderQueue # <<>> /\ Head(senderQueue).op = name

\* The job of addNode.
AddNodeJob ==
    /\ Job("addNode")
    /\ \E s \in NextSocket :
          LET a == Head(senderQueue).a
              steps == RegisterSocket(a, s, TRUE)
          IN  /\ sock' = [sock EXCEPT ![s] = IF steps = <<>> THEN "deleted" ELSE "created"]
              /\ Start("sender", IF steps = <<>> THEN <<>>
                                 ELSE steps \o <<Op("connect", a, s)>>)
    /\ senderQueue' = Tail(senderQueue)
    /\ UNCHANGED <<info, peerOf, wired, freed, mainQueue, timers, bounds, heard>>

\* The job of incomingTcp, for a connection from address a.
IncomingTcpJob ==
    /\ Job("incomingTcp")
    /\ \E s \in NextSocket :
          LET a == Head(senderQueue).a
              steps == IF IsBanned(a) THEN <<>> ELSE RegisterSocket(a, s, FALSE)
          IN  /\ sock' = [sock EXCEPT ![s] = IF steps = <<>> THEN "deleted" ELSE "open"]
              /\ Start("sender", steps)
    /\ senderQueue' = Tail(senderQueue)
    /\ UNCHANGED <<info, peerOf, wired, freed, mainQueue, timers, bounds, heard>>

\* DataSender::sendPackagePrivate
WriteJob ==
    /\ Job("write")
    /\ freed' = (freed \/ sock[Head(senderQueue).s] = "deleted")
    /\ senderQueue' = Tail(senderQueue)
    /\ UNCHANGED <<info, sock, peerOf, wired, mainQueue, timers, bounds, heard, program>>

\* The slot removeSocket, called by `disconnected' of a socket of the info.
DisconnectedJob ==
    /\ Job("disconnected")
    /\ Start("sender", RemoveSocket(Head(senderQueue).a))
    /\ senderQueue' = Tail(senderQueue)
    /\ UNCHANGED <<info, sockets, mainQueue, timers, bounds, heard>>

\* The slot deleteLater posts the deletion, which happens in its turn.
DeleteJob ==
    /\ Job("deleteLater") \/ Job("delete")
    /\ LET s == Head(senderQueue).s
       IN  IF Job("delete")
           THEN /\ sock' = [sock EXCEPT ![s] = "deleted"]
                /\ senderQueue' = Tail(senderQueue)
           ELSE /\ senderQueue' = Append(Tail(senderQueue), Op("delete", None, s))
                /\ UNCHANGED sock
    /\ UNCHANGED <<info, peerOf, wired, freed, mainQueue, timers, bounds, heard, program>>

\* `connected': the slot setStatus(Connected) runs in the sender thread.
SocketConnects(s) ==
    /\ MayStart("sender")
    /\ sock[s] = "connecting"
    /\ sock' = [sock EXCEPT ![s] = "open"]
    /\ Start("sender", IF s \in wired THEN <<SetStatus(peerOf[s], "Connected")>> ELSE <<>>)
    /\ UNCHANGED <<info, peerOf, wired, freed, queues, bounds, heard>>

\* `errorOccurred' only.
ConnectFails(s) ==
    /\ MayStart("sender")
    /\ sock[s] = "connecting"
    /\ sock' = [sock EXCEPT ![s] = "closed"]
    /\ UNCHANGED <<info, peerOf, wired, freed, queues, bounds, heard, program>>

\* The peer closes the connection: `disconnected' is a queued connection.
PeerCloses(s) ==
    /\ MayStart("sender")
    /\ sock[s] = "open"
    /\ sock' = [sock EXCEPT ![s] = "closed"]
    /\ senderQueue' = IF s \in wired
                      THEN Append(senderQueue, Op("disconnected", peerOf[s], None))
                      ELSE senderQueue
    /\ UNCHANGED <<info, peerOf, wired, freed, mainQueue, timers, bounds, heard, program>>

Sender ==
    \/ AddNodeJob \/ IncomingTcpJob \/ WriteJob \/ DisconnectedJob \/ DeleteJob

SocketEvent ==
    \E s \in Socket : SocketConnects(s) \/ ConnectFails(s) \/ PeerCloses(s)

-----------------------------------------------------------------------------
(* The main thread. *)

\* handleNodeStatusChanged; DataBaseNode::nodeDisconnected resets the info.
HandleNodeStatusChanged ==
    /\ MayStart("main")
    /\ mainQueue # <<>>
    /\ LET a == Head(mainQueue)[1]
           st == Head(mainQueue)[2]
       IN  /\ heard' = [heard EXCEPT ![a] = st]
           /\ Start("main", IF node = "DataBaseNode" /\ st = "NotConnected" THEN Reset(a) ELSE <<>>)
    /\ mainQueue' = Tail(mainQueue)
    /\ UNCHANGED <<info, sockets, senderQueue, timers, bounds>>

\* checkConfirmendOfNode
CheckConfirmendOfNode(a) ==
    /\ MayStart("main")
    /\ <<"confirm", a>> \in timers
    /\ timers' = timers \ {<<"confirm", a>>}
    /\ Start("main", IF status[a] # "Confirmed" THEN <<Remove(a)>> ELSE <<>>)
    /\ UNCHANGED <<info, sockets, senderQueue, mainQueue, bounds, heard>>

ForceTimer(a) ==
    /\ MayStart("main")
    /\ <<"force", a>> \in timers
    /\ timers' = timers \ {<<"force", a>>}
    /\ Start("main", <<ForceRemove(a)>>)
    /\ UNCHANGED <<info, sockets, senderQueue, mainQueue, bounds, heard>>

\* The application calls removeNode, ban or unBan.
Call(op, a) ==
    /\ MayStart("main")
    /\ calls < MaxCalls
    /\ op \in UserCall
    /\ calls' = calls + 1
    /\ Start("main", <<Op(op, a, None)>>)
    /\ UNCHANGED <<info, sockets, queues, node, packages, heard>>

\* The sockets that are still to be used, less the jobs that will use them.
SocketLeft ==
    Cardinality({i \in DOMAIN senderQueue : senderQueue[i].op \in {"addNode", "incomingTcp"}})
        < Cardinality(NextSocket)

\* addNode posts a job.
AddNode(a) ==
    /\ MayStart("main")
    /\ SocketLeft
    /\ senderQueue' = Append(senderQueue, Op("addNode", a, None))
    /\ UNCHANGED <<info, sockets, mainQueue, timers, bounds, heard, program>>

\* A peer connects from an address it has no connection from; the main thread
\* (incomingConnection) posts the job.
IncomingConnection(a) ==
    /\ MayStart("main")
    /\ SocketLeft
    /\ \A i \in DOMAIN senderQueue : senderQueue[i] # Op("incomingTcp", a, None)
    /\ \A s \in Socket : sock[s] = "open" => peerOf[s] # a
    /\ \A i \in DOMAIN program["sender"] : program["sender"][i].a # a
    /\ FreshPeers => \A s \in Socket : peerOf[s] # a
    /\ senderQueue' = Append(senderQueue, Op("incomingTcp", a, None))
    /\ UNCHANGED <<info, sockets, mainQueue, timers, bounds, heard, program>>

Main ==
    \/ HandleNodeStatusChanged
    \/ \E a \in Address : CheckConfirmendOfNode(a) \/ ForceTimer(a)

Environment ==
    \/ \E a \in Address, op \in UserCall : Call(op, a)
    \/ \E a \in Local : AddNode(a)
    \/ \E a \in Remote : IncomingConnection(a)

-----------------------------------------------------------------------------
(* The package workers: newWork. *)

\* What parsePackage does with a package of info a, by the kind of package; a
\* Ping that is no answer is answered.
ParsePackage(a, kind) ==
    CASE kind = "processed" -> {<<Confirmable(a)>>}
      [] kind = "ping" -> {<<Send(a), Confirmable(a)>>}
      [] kind = "closeConnection" ->
             {IF isLocal[a] THEN <<Remove(a), Confirmable(a)>> ELSE <<Confirmable(a)>>}
      [] kind = "notProcessed" -> {<<ReadTrust(a, p, FALSE)>> : p \in Penalty}
      [] kind = "badRequest" -> {<<ReadTrust(a, p, TRUE)>> : p \in Penalty}

\* A worker takes a package that has come from a, now or some time ago.
NewWork(t, a, kind) ==
    /\ MayStart(t)
    /\ packages < MaxPackages
    /\ a \in watched
    /\ \E s \in Socket : peerOf[s] = a /\ sock[s] \in {"open", "closed", "deleted"}
    /\ packages' = packages + 1
    /\ \E steps \in ParsePackage(a, kind) : Start(t, steps)
    /\ UNCHANGED <<info, sockets, queues, node, calls, heard>>

Package ==
    \E t \in Worker, a \in Address, kind \in PackageKind : NewWork(t, a, kind)

-----------------------------------------------------------------------------
Access(t) == InfoAccess(t) \/ NodeCall(t)

Next ==
    \/ \E t \in Thread : Access(t)
    \/ Register
    \/ Sender
    \/ SocketEvent
    \/ Main
    \/ Environment
    \/ Package

Spec == Init /\ [][Next]_vars

\* The threads run, and their event loops take the events, timers among them.
\* Packages, calls and connections need not come.
Fairness ==
    /\ \A t \in Thread : WF_vars(Access(t))
    /\ WF_vars(Register)
    /\ WF_vars(Sender)
    /\ WF_vars(Main)

FairSpec == Spec /\ Fairness

-----------------------------------------------------------------------------
(* Properties. *)

Status == {"NotConnected", "Connected", "Confirmed"}

\* What a thread may have still to do, and what may wait for the sender thread.
Operation ==
    [op : {"take", "announce", "remove", "send", "force", "ban", "unBan", "confirmable"},
     a : Address, s : {None}, v : {None}]
    \cup [op : {"null", "drop", "registered", "connect", "write"},
          a : Address, s : Socket, v : {None}]
    \cup [op : {"attach"}, a : Address, s : Socket \cup {None}, v : {None}]
    \cup [op : {"create"}, a : Address, s : Socket, v : BOOLEAN]
    \cup [op : {"status"}, a : Address, s : {None}, v : Status]
    \cup [op : {"local"}, a : Address, s : {None}, v : BOOLEAN]
    \cup [op : {"trust", "readTrust", "requestTrust"}, a : Address, s : {None}, v : Int]

Event ==
    [op : {"addNode"}, a : Local, s : {None}, v : {None}]
    \cup [op : {"incomingTcp"}, a : Remote, s : {None}, v : {None}]
    \cup [op : {"disconnected"}, a : Address, s : {None}, v : {None}]
    \cup [op : {"write"}, a : Address, s : Socket, v : {None}]
    \cup [op : {"deleteLater", "delete"}, a : {None}, s : Socket, v : {None}]

\* Only the sender thread registers sockets.
RegistersInSender ==
    \A t \in Thread : \A i \in DOMAIN program[t] :
        \/ t = "sender"
        \/ program[t][i].op \notin {"create", "registered", "announce", "connect", "attach"}
        \/ program[t][i].op = "attach" /\ program[t][i].s = None

FieldTypes ==
    /\ node \in NodeKind
    /\ known \subseteq Address
    /\ sct \in [Address -> Socket \cup {None}]
    /\ status \in [Address -> Status]
    /\ trust \in [Address -> Int]
    /\ isLocal \in [Address -> BOOLEAN]
    /\ watched \subseteq known
    /\ sock \in [Socket -> {"unused", "created", "connecting", "open", "closed", "deleted"}]
    /\ peerOf \in [Socket -> Address \cup {None}]
    /\ wired \subseteq Socket
    /\ freed \in BOOLEAN
    /\ timers \subseteq {"confirm", "force"} \X Address
    /\ heard \in [Address -> Status]
    /\ calls \in 0 .. MaxCalls
    /\ packages \in 0 .. MaxPackages

TypeOK ==
    /\ FieldTypes
    /\ program \in [Thread -> Seq(Operation)]
    /\ senderQueue \in Seq(Event)
    /\ mainQueue \in Seq(Address \X Status)
    /\ RegistersInSender

\* An info never points to a socket that is deleted, whichever threads are
\* inside removeSocket and setSct: _sct is cleared before the deletion is
\* posted, and a socket never comes back to an info.
SctAlive == \A a \in Address : sct[a] # None => sock[sct[a]] # "deleted"

InProgram(s) ==
    \E t \in Thread : \E i \in DOMAIN program[t] :
        program[t][i].s = s /\ program[t][i].op \in {"attach", "create", "drop"}

Deleting(s) ==
    \E i \in DOMAIN senderQueue :
        senderQueue[i].s = s /\ senderQueue[i].op \in {"delete", "deleteLater"}

\* No socket is forgotten: one that is not deleted belongs to an info, or a
\* thread is about to attach or drop it, or its deletion waits in the queue.
\* A forgotten socket keeps its connection open, uncounted, for ever.
NoLostSocket ==
    \A s \in Socket :
        sock[s] \in {"unused", "deleted"} \/ (\E a \in Address : sct[a] = s)
            \/ InProgram(s) \/ Deleting(s)

\* registerSocket keeps the server below maxPendingConnections, though it
\* counts the connections before it takes the lock under which it adds one.
ConnectionLimit == ConnectionsCount <= MaxConnections

Quiescent ==
    /\ \A t \in Thread : Idle(t)
    /\ senderQueue = <<>>
    /\ mainQueue = <<>>

\* Between calls the status of an info agrees with its socket: it is not
\* connected without an open one, and connected with one.
StatusAgreesWithSocket ==
    Quiescent => \A a \in known :
        status[a] # "NotConnected" <=> (sct[a] # None /\ sock[sct[a]] = "open")

\* AbstractNode has been told the present status of every info to which it has
\* connected: the queued statusChaned events leave no stale view behind.
HeardStatus ==
    Quiescent => \A a \in known \cap Local : heard[a] = status[a]

\* "AbstractNode - is thread save class." (abstractnode.h:106): whichever calls
\* overlap, no thread uses a socket after its deletion.  sendData reads the
\* socket of the info without a lock and uses it in its own thread.
NoUseAfterFree == ~freed

\* "this method remove old not confirmed node" (abstractnode.h:595): a
\* connection is confirmed in time, or the node takes its socket away.
UnconfirmedRemoved ==
    \A a \in Address :
        sct[a] # None /\ status[a] # "NotConnected"
            ~> sct[a] = None \/ status[a] = "Confirmed"
=============================================================================
