------------------------------ MODULE Session -------------------------------
(***************************************************************************)
(* SingleClient and SingleServer: a client connects, signs up, logs in and *)
(* out by requests that the server's workers process; it hears of the      *)
(* connection through events queued for its main thread, and of the        *)
(* server's answers in its own workers.                                    *)
(*                                                                         *)
(* One client and one user.  Each connection has an info of its own in the *)
(* server.  A step of a worker of the server is one access to the database *)
(* or to the info; an answer is processed by the client in one step.       *)
(***************************************************************************)
EXTENDS Naturals, Sequences, FiniteSets, SequencesExt

CONSTANTS
    Conn,           \* bound: connections, each used once
    Token,          \* bound: access tokens
    Worker,         \* workers of the server
    ClientWorkers,  \* number of the client's workers
    MaxLoad,        \* bound: requests and answers on their way
    MaxEvents,      \* bound: events that wait when the client begins something
    MaxTimers,      \* bound: timers of one kind that run
    Absent,         \* no row of the user in the database
    None            \* an invalid token; no connection

ASSUME SessionAssumption ==
    /\ ClientWorkers \in Nat \ {0} /\ MaxLoad \in Nat /\ MaxEvents \in Nat /\ MaxTimers \in Nat
    /\ None \notin Token \cup Conn /\ Absent \notin Token \cup {None}

VARIABLES
    status,         \* _status
    member,         \* the token of _member
    address,        \* _realServerAddress is valid
    timers,         \* running timers of setStatus, for each status to restore
    event,          \* queued for the client's main thread
    link, conn,     \* the client's socket, and its connection
    request,        \* on their way to the server's workers
    answer,         \* on their way to the client's workers
    work,           \* of each worker of the server
    info,           \* the token of each info of the server
    lost,           \* infos whose disconnection the server has not handled
    account,        \* the user's row: Absent, or its token
    granted,        \* the user's id may write the user's row
    overlap         \* history: the session did not wait for what was on its way

client == <<status, member, timers, address>>
server == <<work, info, account, granted>>
vars == <<client, event, link, conn, request, answer, server, lost, overlap>>

\* enum ClientStatus.
Dissconnected == 0
Connecting == 1
Connected == 2
Loginning == 3
Logined == 4

Idle == [at |-> "idle"]

TypeOK ==
    /\ status \in Dissconnected .. Logined
    /\ member \in Token \cup {None} /\ address \in BOOLEAN
    /\ timers \in [{Dissconnected, Connected} -> 0 .. MaxTimers]
    /\ event \in Seq({"connected", "disconnected", "error", "refused"})
    /\ link \in {"none", "pending", "up"} /\ conn \in Conn \cup {None}
    /\ request \in Seq([cmd : {"LogIn", "SignUp", "LogOut", "Delete"},
                        key : Token \cup {"right", "wrong", None},
                        conn : Conn])
    /\ answer \in Seq(Token \cup {None})
    /\ \A w \in Worker : work[w].at \in {"idle", "begin", "insert", "token",
                                         "grant", "enter", "delete"}
    /\ info \in [Conn -> Token \cup {None}] /\ lost \subseteq Conn
    /\ account \in Token \cup {None, Absent} /\ granted \in BOOLEAN
    /\ overlap \in BOOLEAN

Init ==
    /\ status = Dissconnected /\ member = None /\ address = FALSE
    /\ timers = [s \in {Dissconnected, Connected} |-> 0]
    /\ event = <<>> /\ link = "none" /\ conn = None
    /\ request = <<>> /\ answer = <<>>
    /\ work = [w \in Worker |-> Idle]
    /\ info = [k \in Conn |-> None] /\ lost = {}
    /\ account = Absent /\ granted = FALSE /\ overlap = FALSE

----------------------------------------------------------------------------
(* The client's status.                                                    *)

\* Mutant: no timer for the answer to a login.
SetStatusNoTimer(s) ==
    /\ status' = s
    /\ timers' = IF s = Connecting THEN [timers EXCEPT ![status] = @ + 1]
                 ELSE timers

\* setStatus: waiting is limited by a timer that restores the status.
SetStatus(s) ==
    /\ status' = s
    /\ timers' = IF s # status /\ s \in {Connecting, Loginning}
                 THEN [timers EXCEPT ![status] = @ + 1]
                 ELSE timers

Timer(s) ==
    /\ timers[s] > 0
    /\ timers' = [timers EXCEPT ![s] = @ - 1]
    /\ status' = IF status \in {Connecting, Loginning} THEN s ELSE status
    /\ UNCHANGED <<member, address, event, link, conn, request, answer, server,
                   lost, overlap>>

\* Nothing is on its way.
Quiet ==
    /\ event = <<>> /\ request = <<>> /\ answer = <<>> /\ lost = {}
    /\ \A w \in Worker : work[w] = Idle

----------------------------------------------------------------------------
(* The connection.                                                         *)

\* addNode is refused while the only connection is up.
ConnectToServer ==
    /\ status < Connected
    /\ timers[Dissconnected] < MaxTimers /\ Len(event) <= MaxEvents
    /\ IF status < Connecting THEN SetStatus(Connecting) ELSE UNCHANGED <<status, timers>>
    /\ link' = IF link = "none" THEN "pending" ELSE link
    /\ UNCHANGED <<member, address, event, conn, request, answer, server, lost, overlap>>

Unused == {k \in Conn : k # conn /\ k \notin lost /\ info[k] = None}
          \ ({request[i].conn : i \in DOMAIN request}
             \cup {work[w].conn : w \in {v \in Worker : work[v] # Idle}})

Establish ==
    /\ link = "pending"
    /\ link' = "up"
    /\ \E k \in Unused : conn' = k
    /\ event' = Append(event, "connected")
    /\ UNCHANGED <<client, request, answer, server, lost, overlap>>

ConnectFails ==
    /\ link = "pending"
    /\ link' = "none"
    /\ event' = Append(event, "error")
    /\ UNCHANGED <<client, conn, request, answer, server, lost, overlap>>

\* The socket is gone.  What the workers' pools have received stays.
Disconnect(events) ==
    /\ link' = "none" /\ conn' = None
    /\ lost' = lost \cup {conn}
    /\ event' = event \o events
    /\ \E i \in 0 .. Len(request) : request' = SubSeq(request, 1, i)
    /\ \E i \in 0 .. Len(answer) : answer' = SubSeq(answer, 1, i)
    /\ overlap' = (overlap \/ ~Quiet)

\* Mutant: an error of the socket hides that the connection is gone.
PeerClosesErrorOnly ==
    /\ link = "up"
    /\ Disconnect(<<"error">>)
    /\ UNCHANGED <<client, server>>

PeerCloses ==
    /\ link = "up"
    /\ Disconnect(<<"error", "disconnected">>)
    /\ UNCHANGED <<client, server>>

\* disconnectFromServer; without a valid address nothing is removed.
DisconnectFromServer ==
    /\ status # Dissconnected /\ address
    /\ \/ link = "up" /\ Disconnect(<<"disconnected">>)
       \/ /\ link = "pending" /\ link' = "none"
          /\ UNCHANGED <<conn, event, request, answer, lost, overlap>>
    /\ UNCHANGED <<client, server>>

\* Mutant: nodeDisconnected keeps the status of a client that is logged in.
HandleEventKeepsLogin ==
    /\ event # <<>>
    /\ event' = Tail(event)
    /\ CASE Head(event) = "connected" -> SetStatus(Connected) /\ address' = TRUE
         [] Head(event) = "disconnected" ->
               /\ SetStatus(IF status = Logined THEN status ELSE Dissconnected)
               /\ address' = FALSE
         [] Head(event) = "error" -> UNCHANGED <<status, timers, address>>
         [] Head(event) = "refused" ->
               /\ SetStatus(IF status = Loginning THEN Connected ELSE status)
               /\ UNCHANGED address
    /\ UNCHANGED <<member, link, conn, request, answer, server, lost, overlap>>

\* nodeConnected, nodeDisconnected, nodeErrorOccured and handleError.
HandleEvent ==
    /\ event # <<>>
    /\ event' = Tail(event)
    /\ CASE Head(event) = "connected" -> SetStatus(Connected) /\ address' = TRUE
         [] Head(event) = "disconnected" ->
               SetStatus(Dissconnected) /\ address' = FALSE
         [] Head(event) = "error" -> SetStatus(Dissconnected) /\ UNCHANGED address
         [] Head(event) = "refused" ->
               /\ SetStatus(IF status = Loginning THEN Connected ELSE status)
               /\ UNCHANGED address
    /\ UNCHANGED <<member, link, conn, request, answer, server, lost, overlap>>

----------------------------------------------------------------------------
(* The client's requests and answers.                                      *)

Load == Len(request) + Len(answer) + Cardinality({w \in Worker : work[w] # Idle})
MaySend ==
    address /\ link = "up" /\ Load < MaxLoad /\ Len(event) <= MaxEvents

Request(cmd, key) == [cmd |-> cmd, key |-> key, conn |-> conn]

\* login and signup.
Enter(cmd, key) ==
    /\ status >= Connected /\ MaySend /\ timers[Connected] < MaxTimers
    /\ request' = Append(request, Request(cmd, key))
    /\ overlap' = (~Quiet \/ (overlap /\ status = Logined))
    /\ IF status < Loginning THEN SetStatus(Loginning) ELSE UNCHANGED <<status, timers>>
    /\ UNCHANGED <<member, address, event, link, conn, answer, server, lost>>

Login == \E key \in {"right", "wrong"} \cup ({member} \ {None}) : Enter("LogIn", key)

SignUp == Enter("SignUp", "right")

\* The server does not answer; the user is reset at once.
Logout ==
    /\ status >= Logined /\ MaySend
    /\ request' = Append(request, Request("LogOut", member))
    /\ overlap' = (overlap \/ ~Quiet)
    /\ member' = None
    /\ SetStatus(Connected)
    /\ UNCHANGED <<address, event, link, conn, answer, server, lost>>

RemoveUser ==
    /\ status >= Logined /\ MaySend /\ member # None
    /\ request' = Append(request, Request("Delete", member))
    /\ UNCHANGED <<client, event, link, conn, answer, server, lost, overlap>>

\* parsePackage: a UserMember logs the client in, whatever its status; the
\* code of a BadRequest is queued for handleError.
TakeAnswer(i) ==
    /\ answer' = RemoveAt(answer, i)
    /\ IF answer[i] # None
       THEN /\ member' = answer[i]
            /\ SetStatus(Logined)
            /\ UNCHANGED event
       ELSE /\ event' = Append(event, "refused")
            /\ UNCHANGED <<member, status, timers>>
    /\ UNCHANGED <<address, link, conn, request, server, lost, overlap>>

----------------------------------------------------------------------------
(* The server's workers.                                                   *)

Take(w) ==
    /\ work[w] = Idle /\ request # <<>>
    /\ work' = [work EXCEPT ![w] =
           [at |-> "begin", cmd |-> Head(request).cmd, key |-> Head(request).key,
            conn |-> Head(request).conn]]
    /\ request' = Tail(request)
    /\ UNCHANGED <<client, event, link, conn, answer, info, account, granted, lost, overlap>>

At(w, at, cmd) == work[w].at = at /\ work[w].cmd = cmd
Goto(w, at) == work' = [work EXCEPT ![w].at = at]
Done(w) == work' = [work EXCEPT ![w] = Idle]

\* sendData and badRequest: void when the connection is gone.
Answer(w, token) ==
    answer' = IF link = "up" /\ conn = work[w].conn
              THEN Append(answer, token)
              ELSE answer

Refuse(w) == Done(w) /\ Answer(w, None)

\* registerNewUser: the user exists already, or is inserted, which fails when
\* somebody else was faster.
Register(w) ==
    /\ At(w, "begin", "SignUp")
    /\ IF account # Absent THEN Refuse(w) ELSE Goto(w, "insert") /\ UNCHANGED answer
    /\ UNCHANGED <<client, event, link, conn, request, info, account, granted, lost, overlap>>

Insert(w) ==
    /\ At(w, "insert", "SignUp")
    /\ IF account # Absent
       THEN Refuse(w) /\ UNCHANGED account
       ELSE account' = None /\ Goto(w, "grant") /\ UNCHANGED answer
    /\ UNCHANGED <<client, event, link, conn, request, info, granted, lost, overlap>>

\* addUpdatePermission for the user itself, then loginUser.  Deletions leave the
\* permission behind.
AddUpdatePermission(w) ==
    /\ At(w, "grant", "SignUp")
    /\ granted' = TRUE
    /\ work' = [work EXCEPT ![w].at = "begin", ![w].cmd = "LogIn"]
    /\ UNCHANGED <<client, event, link, conn, request, answer, info, account, lost, overlap>>

\* Mutant: the credentials are used where the token of the row should be.
CheckUserKeepsKey(w) ==
    /\ At(w, "begin", "LogIn")
    /\ IF account = Absent \/ work[w].key \notin {"right", account}
       THEN Refuse(w)
       ELSE /\ Goto(w, IF account = None THEN "token" ELSE "enter")
            /\ UNCHANGED answer
    /\ UNCHANGED <<client, event, link, conn, request, info, account, granted, lost, overlap>>

\* loginUser: the row is read; its token, if it has one, will be used.
CheckUser(w) ==
    /\ At(w, "begin", "LogIn")
    /\ IF account = Absent \/ work[w].key \notin {"right", account}
       THEN Refuse(w)
       ELSE /\ work' = [work EXCEPT ![w].at = IF account = None THEN "token" ELSE "enter",
                                    ![w].key = account]
            /\ UNCHANGED answer
    /\ UNCHANGED <<client, event, link, conn, request, info, account, granted, lost, overlap>>

Known == {account, member} \cup {info[k] : k \in Conn}
         \cup {request[i].key : i \in DOMAIN request}
         \cup {answer[i] : i \in DOMAIN answer}
         \cup {work[w].key : w \in {v \in Worker : work[v] # Idle}}

\* A token is made for a row without one; the row may be gone by now.
MakeToken(w) ==
    /\ At(w, "token", "LogIn")
    /\ \E t \in Token \ Known :
          /\ work' = [work EXCEPT ![w].at = "enter", ![w].key = t]
          /\ account' = IF account = Absent THEN Absent ELSE t
    /\ UNCHANGED <<client, event, link, conn, request, answer, info, granted, lost, overlap>>

\* The info gets the token, and the client the member.
LoginUser(w) ==
    /\ At(w, "enter", "LogIn")
    /\ info' = [info EXCEPT ![work[w].conn] = work[w].key]
    /\ Done(w) /\ Answer(w, work[w].key)
    /\ UNCHANGED <<client, event, link, conn, request, account, granted, lost, overlap>>

LogOutUser(w) ==
    /\ At(w, "begin", "LogOut")
    /\ LET k == work[w].conn IN
       IF account = Absent \/ info[k] = None \/ info[k] # work[w].key
       THEN Refuse(w) /\ UNCHANGED info
       ELSE /\ info' = [info EXCEPT ![k] = None]
            /\ Done(w) /\ UNCHANGED answer
    /\ UNCHANGED <<client, event, link, conn, request, account, granted, lost, overlap>>

\* signValidation, then deleteObject for the id that the info has by then.
SignValidation(w) ==
    /\ At(w, "begin", "Delete")
    /\ IF info[work[w].conn] # work[w].key THEN Refuse(w)
       ELSE Goto(w, "delete") /\ UNCHANGED answer
    /\ UNCHANGED <<client, event, link, conn, request, info, account, granted, lost, overlap>>

\* Without a row of the member, or before its permission, checkPermission says
\* Unknown, and nothing is answered; Forbidden, which sends a BadRequest, it
\* never says of a row whose only permission is Write.
DeleteUser(w) ==
    /\ At(w, "delete", "Delete")
    /\ account' = IF info[work[w].conn] # None /\ granted THEN Absent ELSE account
    /\ Done(w)
    /\ UNCHANGED <<client, event, link, conn, request, answer, info, granted, lost, overlap>>

\* DataBaseNode::nodeDisconnected resets the info.
ServerDisconnected(k) ==
    /\ k \in lost
    /\ lost' = lost \ {k}
    /\ info' = [info EXCEPT ![k] = None]
    /\ UNCHANGED <<client, event, link, conn, request, answer, work, account, granted, overlap>>

Serve(w) ==
    \/ Take(w) \/ Register(w) \/ Insert(w) \/ AddUpdatePermission(w)
    \/ CheckUser(w) \/ MakeToken(w)
    \/ LoginUser(w) \/ LogOutUser(w) \/ SignValidation(w) \/ DeleteUser(w)

----------------------------------------------------------------------------

Timers == Timer(Dissconnected) \/ Timer(Connected)
Answers == \E i \in DOMAIN answer : i <= ClientWorkers /\ TakeAnswer(i)

Next ==
    \/ Timers \/ HandleEvent \/ Answers
    \/ ConnectToServer \/ DisconnectFromServer
    \/ Establish \/ ConnectFails \/ PeerCloses
    \/ Login \/ SignUp \/ Logout \/ RemoveUser
    \/ \E w \in Worker : Serve(w)
    \/ \E k \in Conn : ServerDisconnected(k)

Spec == Init /\ [][Next]_vars

----------------------------------------------------------------------------
(* Properties.                                                             *)

\* The assertion of nodeConnected: the address of the server is invalid when a
\* connection comes up, however connections, errors and disconnections race.
ConnectedOnce == event # <<>> /\ Head(event) = "connected" => ~address

\* Once nothing is on its way, the client's status agrees with the connection
\* and with the server, if the client waited for that before it sent the
\* login, and did not send a logout or lose the connection in between.
Agreement ==
    Quiet /\ ~overlap =>
        /\ status \in {Connected, Logined} => link # "none"
        /\ status = Logined => /\ link = "up" /\ info[conn] # None
                               /\ info[conn] = member

\* A client that waits for a connection or for an answer has a timer that will
\* end the wait, although timers are never stopped and restore the status of
\* their own time, and events and answers change the status at any moment.
WaitIsTimed ==
    status \in {Connecting, Loginning} => \E s \in DOMAIN timers : timers[s] > 0

=============================================================================
