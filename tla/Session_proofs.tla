--------------------------- MODULE Session_proofs ---------------------------
(***************************************************************************)
(* Theorems about Session, for any number of connections, tokens, workers, *)
(* requests, events and timers.                                            *)
(***************************************************************************)
EXTENDS Session, SequenceTheorems, TLAPS

(***************************************************************************)
(* Types.  TypeOK leaves open what a worker remembers.                     *)
(***************************************************************************)
Event == {"connected", "disconnected", "error", "refused"}
Cmd == {"LogIn", "SignUp", "LogOut", "Delete"}
Key == Token \cup {"right", "wrong", None}
Req == [cmd : Cmd, key : Key, conn : Conn]
Job == [at : {"begin", "insert", "token", "grant", "enter", "delete"},
        cmd : Cmd, key : Key, conn : Conn]

Types ==
    /\ TypeOK
    /\ work \in [Worker -> {Idle} \cup Job]
    /\ \A w \in Worker : work[w].at = "enter" => work[w].key \in Token
    /\ link = "up" => conn \in Conn \ lost

(***************************************************************************)
(* The events of the connection.  Whatever else is queued, the connections *)
(* that come up and those that are lost alternate, and the last of them is *)
(* what the link is now.                                                   *)
(***************************************************************************)
Alternate ==
    \A i, j \in DOMAIN event :
        i < j /\ event[i] = "connected" /\ event[j] = "connected" =>
            \E m \in i + 1 .. j - 1 : event[m] = "disconnected"

AddressEnds ==
    \A j \in DOMAIN event : address /\ event[j] = "connected" =>
        \E m \in 1 .. j - 1 : event[m] = "disconnected"

LossHeard ==
    link # "up" =>
        /\ address => \E m \in DOMAIN event : event[m] = "disconnected"
        /\ \A i \in DOMAIN event : event[i] = "connected" =>
              \E m \in DOMAIN event : m > i /\ event[m] = "disconnected"

Events == Alternate /\ AddressEnds /\ LossHeard

(***************************************************************************)
(* Without a connection the client knows it, or will hear of it by         *)
(* an event (an answer that comes late may hide it).                       *)
(***************************************************************************)
DownHeard ==
    ~overlap /\ link = "none" =>
        \/ status = Dissconnected
        \/ \E i \in DOMAIN event : event[i] \in {"disconnected", "error"}

(***************************************************************************)
(* A session that waited for what was on its way: nothing is on its way    *)
(* without a connection, and with one at most one request that can move    *)
(* the session, or its answer.                                             *)
(***************************************************************************)
Mover == {"LogIn", "SignUp", "LogOut"}

Asked(i) == request[i].cmd \in Mover
Working(w) == work[w] # Idle /\ work[w].cmd \in Mover
Granted(i) == answer[i] # None

NothingUnderWay ==
    /\ request = <<>> /\ answer = <<>> /\ \A w \in Worker : work[w] = Idle
    /\ link = "pending" => status # Logined

OneMover ==
    /\ \A i, j \in DOMAIN request : Asked(i) /\ Asked(j) => i = j
    /\ \A v, w \in Worker : Working(v) /\ Working(w) => v = w
    /\ \A i \in DOMAIN request : Asked(i) => \A w \in Worker : ~Working(w)
    /\ \A i \in DOMAIN answer : Granted(i) =>
          /\ \A j \in DOMAIN request : ~Asked(j)
          /\ \A w \in Worker : ~Working(w)

OwnConnection ==
    /\ \A i \in DOMAIN request : request[i].conn = conn
    /\ \A w \in Worker : work[w] # Idle => work[w].conn = conn

SessionKept ==
    /\ \A i \in DOMAIN answer : Granted(i) => answer[i] = info[conn]
    /\ status = Logined =>
          /\ \A i \in DOMAIN request : request[i].cmd # "LogOut"
          /\ \A w \in Worker : work[w] # Idle => work[w].cmd # "LogOut"
          /\ (\E i \in DOMAIN answer : Granted(i)) \/ (member # None /\ info[conn] = member)

Waited ==
    ~overlap => IF link = "up" THEN OneMover /\ OwnConnection /\ SessionKept
                ELSE NothingUnderWay

Inv == Types /\ Events /\ DownHeard /\ Waited

(***************************************************************************)
(* Sequences.                                                              *)
(***************************************************************************)
LEMMA TailOf ==
  ASSUME NEW S, NEW s \in Seq(S), s # <<>>
  PROVE  /\ Tail(s) \in Seq(S) /\ Len(Tail(s)) = Len(s) - 1
         /\ Head(s) = s[1] /\ Head(s) \in S /\ 1 \in DOMAIN s
         /\ \A i \in DOMAIN Tail(s) : i + 1 \in DOMAIN s /\ Tail(s)[i] = s[i + 1]
BY HeadTailProperties

LEMMA AppendOf ==
  ASSUME NEW S, NEW s \in Seq(S), NEW e \in S
  PROVE  /\ Append(s, e) \in Seq(S) /\ Len(Append(s, e)) = Len(s) + 1
         /\ Append(s, e)[Len(s) + 1] = e
         /\ \A i \in DOMAIN s : Append(s, e)[i] = s[i]
BY AppendProperties

LEMMA PrefixOf ==
  ASSUME NEW S, NEW s \in Seq(S), NEW n \in 0 .. Len(s)
  PROVE  /\ SubSeq(s, 1, n) \in Seq(S)
         /\ s = <<>> => SubSeq(s, 1, n) = <<>>
BY SubSeqProperties

LEMMA RemoveAtOf ==
  ASSUME NEW S, NEW s \in Seq(S), NEW i \in DOMAIN s
  PROVE  /\ RemoveAt(s, i) \in Seq(S)
         /\ \A j \in DOMAIN RemoveAt(s, i) :
               \E k \in DOMAIN s : RemoveAt(s, i)[j] = s[k]
         /\ \A k \in DOMAIN s : k # i =>
               \E j \in DOMAIN RemoveAt(s, i) : RemoveAt(s, i)[j] = s[k]
<1>. DEFINE a == SubSeq(s, 1, i - 1)
            b == SubSeq(s, i + 1, Len(s))
<1>1. /\ a \in Seq(S) /\ Len(a) = i - 1
      /\ \A j \in 1 .. i - 1 : a[j] = s[j]
  BY SubSeqProperties
<1>2. /\ b \in Seq(S) /\ Len(b) = Len(s) - i
      /\ \A j \in 1 .. Len(s) - i : b[j] = s[i + j]
  BY SubSeqProperties
<1>3. RemoveAt(s, i) = a \o b
  BY DEF RemoveAt
<1>. HIDE DEF a, b
<1>4. /\ a \o b \in Seq(S) /\ Len(a \o b) = Len(s) - 1
      /\ \A j \in 1 .. i - 1 : (a \o b)[j] = s[j]
      /\ \A j \in i .. Len(s) - 1 : (a \o b)[j] = s[j + 1]
  <2>. DEFINE u == a \o b
  <2>1. /\ u \in Seq(S) /\ Len(u) = Len(a) + Len(b)
        /\ \A j \in 1 .. Len(a) + Len(b) :
              u[j] = IF j <= Len(a) THEN a[j] ELSE b[j - Len(a)]
    BY <1>1, <1>2, ConcatProperties
  <2>. HIDE DEF u
  <2>2. Len(s) \in Nat /\ i \in 1 .. Len(s)
    OBVIOUS
  <2>3. Len(a) + Len(b) = Len(s) - 1
    BY <1>1, <1>2, <2>2
  <2>4. ASSUME NEW j \in 1 .. i - 1 PROVE u[j] = s[j]
    <3>1. j \in 1 .. Len(a) + Len(b) /\ j <= Len(a) /\ a[j] = s[j]
      BY <1>1, <2>2, <2>3
    <3>. QED  BY <2>1, <3>1
  <2>5. ASSUME NEW j \in i .. Len(s) - 1 PROVE u[j] = s[j + 1]
    <3>1. /\ Len(a) = i - 1 /\ i \in Int /\ 1 <= i /\ Len(s) \in Int
          /\ j \in Int /\ i <= j /\ j <= Len(s) - 1
      BY <1>1, <2>2
    <3>2. j \in 1 .. Len(a) + Len(b) /\ ~(j <= Len(a))
      BY <2>3, <3>1
    <3>3. j - Len(a) \in 1 .. Len(s) - i /\ i + (j - Len(a)) = j + 1
      BY <3>1
    <3>. QED  BY <1>2, <2>1, <3>2, <3>3
  <2>. QED  BY <2>1, <2>3, <2>4, <2>5 DEF u
<1>5. ASSUME NEW t, DOMAIN t = 1 .. Len(s) - 1,
             \A j \in 1 .. i - 1 : t[j] = s[j],
             \A j \in i .. Len(s) - 1 : t[j] = s[j + 1]
      PROVE  /\ \A j \in DOMAIN t : \E k \in DOMAIN s : t[j] = s[k]
             /\ \A k \in DOMAIN s : k # i => \E j \in DOMAIN t : t[j] = s[k]
  <2>1. DOMAIN s = 1 .. Len(s) /\ Len(s) \in Nat /\ i \in 1 .. Len(s)
    OBVIOUS
  <2>2. ASSUME NEW j \in 1 .. Len(s) - 1 PROVE \E k \in DOMAIN s : t[j] = s[k]
    <3>1. j < i => j \in DOMAIN s /\ t[j] = s[j]
      BY <1>5, <2>1
    <3>2. ~(j < i) => j + 1 \in DOMAIN s /\ t[j] = s[j + 1]
      BY <1>5, <2>1
    <3>. QED  BY <3>1, <3>2
  <2>3. ASSUME NEW k \in 1 .. Len(s), k # i PROVE \E j \in DOMAIN t : t[j] = s[k]
    <3>1. k < i => k \in DOMAIN t /\ t[k] = s[k]
      BY <1>5, <2>1
    <3>2. ~(k < i) => k - 1 \in DOMAIN t /\ t[k - 1] = s[k]
      BY <1>5, <2>1, <2>3
    <3>. QED  BY <3>1, <3>2
  <2>. QED  BY <1>5, <2>1, <2>2, <2>3
<1>. DEFINE u == RemoveAt(s, i)
<1>6. /\ u \in Seq(S) /\ DOMAIN u = 1 .. Len(s) - 1
      /\ \A j \in 1 .. i - 1 : u[j] = s[j]
      /\ \A j \in i .. Len(s) - 1 : u[j] = s[j + 1]
  BY <1>3, <1>4
<1>. HIDE DEF u
<1>7. /\ \A j \in DOMAIN u : \E k \in DOMAIN s : u[j] = s[k]
      /\ \A k \in DOMAIN s : k # i => \E j \in DOMAIN u : u[j] = s[k]
  BY <1>5, <1>6
<1>. QED  BY <1>6, <1>7 DEF u

LEMMA ConcatOf ==
  ASSUME NEW S, NEW s \in Seq(S), NEW t \in Seq(S)
  PROVE  /\ s \o t \in Seq(S) /\ Len(s \o t) = Len(s) + Len(t)
         /\ \A i \in DOMAIN s : (s \o t)[i] = s[i]
         /\ \A i \in DOMAIN t : (s \o t)[Len(s) + i] = t[i]
BY ConcatProperties

(***************************************************************************)
(* Type correctness.                                                       *)
(***************************************************************************)
LEMMA TypeInit == Init => Types
<1>. SUFFICES ASSUME Init PROVE Types
  OBVIOUS
<1>1. timers \in [{Dissconnected, Connected} -> 0 .. MaxTimers]
  BY SessionAssumption DEF Init
<1>2. /\ event \in Seq({"connected", "disconnected", "error", "refused"})
      /\ request \in Seq([cmd : {"LogIn", "SignUp", "LogOut", "Delete"},
                           key : Token \cup {"right", "wrong", None}, conn : Conn])
      /\ answer \in Seq(Token \cup {None})
  BY EmptySeq DEF Init
<1>3. work \in [Worker -> {Idle} \cup Job] /\ \A w \in Worker : work[w].at = "idle"
  BY DEF Init, Idle
<1>4. status \in Dissconnected .. Logined /\ info \in [Conn -> Token \cup {None}]
  BY DEF Init, Dissconnected, Logined
<1>5. TypeOK
  BY <1>1, <1>2, <1>3, <1>4 DEF Init, TypeOK
<1>. QED  BY <1>3, <1>5 DEF Types, Init

\* A worker goes on with a job.
LEMMA WorkTypes ==
  ASSUME Types, NEW w \in Worker, NEW j \in {Idle} \cup Job,
         j.at = "enter" => j.key \in Token,
         work' = [work EXCEPT ![w] = j]
  PROVE  /\ work' \in [Worker -> {Idle} \cup Job]
         /\ \A v \in Worker : work'[v].at \in {"idle", "begin", "insert", "token", "grant",
                                               "enter", "delete"}
         /\ \A v \in Worker : work'[v].at = "enter" => work'[v].key \in Token
BY DEF Types, Idle, Job

LEMMA LossTypes ==
  ASSUME Types, link = "up",
         NEW events \in {<<"disconnected">>, <<"error", "disconnected">>},
         Disconnect(events), UNCHANGED <<client, server>>
  PROVE  Types'
<1>. USE DEF Types, TypeOK, Disconnect, client, server
<1>a. event \in Seq(Event) /\ request \in Seq(Req) /\ answer \in Seq(Token \cup {None})
  BY DEF Event, Req, Cmd, Key
<1>1. <<"disconnected">> \in Seq(Event) /\ <<"error", "disconnected">> \in Seq(Event)
  BY DEF Event
<1>2. event' \in Seq(Event)
  BY <1>a, <1>1, ConcatOf
<1>3. request' \in Seq(Req)
  BY <1>a, PrefixOf
<1>4. answer' \in Seq(Token \cup {None})
  BY <1>a, PrefixOf
<1>. QED  BY <1>2, <1>3, <1>4 DEF Event, Req, Cmd, Key

LEMMA TypeStep == Types /\ [Next]_vars => Types'
<1>. SUFFICES ASSUME Types, [Next]_vars PROVE Types'
  OBVIOUS
<1>. USE SessionAssumption DEF Types, TypeOK
<1>a. event \in Seq(Event) /\ request \in Seq(Req) /\ answer \in Seq(Token \cup {None})
  BY DEF Event, Req, Cmd, Key
<1>1. ASSUME NEW s \in {Dissconnected, Connected}, Timer(s) PROVE Types'
  BY <1>1 DEF Timer, server, Dissconnected, Connecting, Connected, Loginning, Logined
<1>2. CASE HandleEvent
  <2>1. event' \in Seq(Event) /\ Head(event) \in Event
    BY <1>2, <1>a, TailOf DEF HandleEvent
  <2>2. ASSUME NEW s \in {status, Dissconnected, Connected}, SetStatus(s)
        PROVE  status' \in Dissconnected .. Logined /\ timers' = timers
    BY <2>2 DEF SetStatus, Dissconnected, Connecting, Connected, Loginning, Logined
  <2>3. status' \in Dissconnected .. Logined /\ timers' = timers
    BY <1>2, <2>1, <2>2 DEF HandleEvent, Event
  <2>4. address' \in BOOLEAN
    BY <1>2, <2>1 DEF HandleEvent, Event
  <2>. QED  BY <1>2, <2>1, <2>3, <2>4 DEF HandleEvent, server, Event
<1>3. ASSUME NEW i \in DOMAIN answer, TakeAnswer(i) PROVE Types'
  <2>1. answer' \in Seq(Token \cup {None}) /\ answer[i] \in Token \cup {None}
    BY <1>3, <1>a, RemoveAtOf DEF TakeAnswer
  <2>2. Append(event, "refused") \in Seq(Event)
    BY <1>a, AppendOf DEF Event
  <2>4. event' \in Seq(Event) /\ member' \in Token \cup {None}
    BY <1>3, <1>a, <2>1, <2>2 DEF TakeAnswer
  <2>3. /\ status' \in Dissconnected .. Logined
        /\ timers' \in [{Dissconnected, Connected} -> 0 .. MaxTimers]
    BY <1>3 DEF TakeAnswer, SetStatus, Dissconnected, Connecting, Connected, Loginning, Logined
  <2>. QED  BY <1>3, <2>1, <2>3, <2>4 DEF TakeAnswer, server, Event
<1>4. CASE ConnectToServer
  <2>1. /\ status' \in Dissconnected .. Logined
        /\ timers' \in [{Dissconnected, Connected} -> 0 .. MaxTimers]
    BY <1>4 DEF ConnectToServer, SetStatus, Dissconnected, Connecting, Connected, Loginning,
                Logined
  <2>. QED  BY <1>4, <2>1 DEF ConnectToServer, server
<1>5. CASE DisconnectFromServer
  BY <1>5, LossTypes DEF DisconnectFromServer, client, server
<1>6. CASE Establish
  <2>1. event' \in Seq(Event)
    BY <1>6, <1>a, AppendOf DEF Establish, Event
  <2>2. conn' \in Conn \ lost
    BY <1>6 DEF Establish, Unused
  <2>. QED  BY <1>6, <2>1, <2>2 DEF Establish, client, server, Event
<1>7. CASE ConnectFails
  <2>1. event' \in Seq(Event)
    BY <1>7, <1>a, AppendOf DEF ConnectFails, Event
  <2>. QED  BY <1>7, <2>1 DEF ConnectFails, client, server, Event
<1>8. CASE PeerCloses
  BY <1>8, LossTypes DEF PeerCloses, client, server
<1>9. ASSUME NEW cmd \in {"LogIn", "SignUp"}, NEW key \in {"right", "wrong"} \cup Token,
             Enter(cmd, key)
      PROVE  Types'
  <2>1. request' \in Seq(Req)
    BY <1>9, <1>a, AppendOf DEF Enter, MaySend, Request, Req, Cmd, Key
  <2>2. /\ status' \in Dissconnected .. Logined
        /\ timers' \in [{Dissconnected, Connected} -> 0 .. MaxTimers]
    BY <1>9 DEF Enter, SetStatus, Dissconnected, Connecting, Connected, Loginning, Logined
  <2>3. overlap' \in BOOLEAN
    BY <1>9 DEF Enter
  <2>. QED  BY <1>9, <2>1, <2>2, <2>3 DEF Enter, server, Req, Cmd, Key
<1>10. CASE Logout
  <2>1. request' \in Seq(Req)
    BY <1>10, <1>a, AppendOf DEF Logout, MaySend, Request, Req, Cmd, Key
  <2>2. /\ status' \in Dissconnected .. Logined
        /\ timers' \in [{Dissconnected, Connected} -> 0 .. MaxTimers]
    BY <1>10 DEF Logout, SetStatus, Dissconnected, Connecting, Connected, Loginning, Logined
  <2>. QED  BY <1>10, <2>1, <2>2 DEF Logout, server, Req, Cmd, Key
<1>11. CASE RemoveUser
  <2>1. request' \in Seq(Req)
    BY <1>11, <1>a, AppendOf DEF RemoveUser, MaySend, Request, Req, Cmd, Key
  <2>. QED  BY <1>11, <2>1 DEF RemoveUser, client, server, Req, Cmd, Key
<1>12. ASSUME NEW w \in Worker, Take(w) PROVE Types'
  <2>1. request' \in Seq(Req) /\ Head(request) \in Req
    BY <1>12, <1>a, TailOf DEF Take
  <2>. DEFINE j == [at |-> "begin", cmd |-> Head(request).cmd, key |-> Head(request).key,
                    conn |-> Head(request).conn]
  <2>2. j \in Job
    BY <2>1 DEF Job, Req
  <2>. QED  BY <1>12, <2>1, <2>2, WorkTypes DEF Take, client, Req, Cmd, Key
<1>13. ASSUME NEW w \in Worker, work[w] # Idle, NEW t \in Token \cup {None},
              Done(w) /\ (Answer(w, t) \/ UNCHANGED answer)
       PROVE  /\ work' \in [Worker -> {Idle} \cup Job]
              /\ \A v \in Worker : work'[v].at \in {"idle", "begin", "insert", "token", "grant",
                                                    "enter", "delete"}
              /\ \A v \in Worker : work'[v].at = "enter" => work'[v].key \in Token
              /\ answer' \in Seq(Token \cup {None})
  <2>1. Append(answer, t) \in Seq(Token \cup {None})
    BY <1>a, AppendOf
  <2>2. answer' \in Seq(Token \cup {None})
    BY <1>13, <1>a, <2>1 DEF Answer
  <2>. QED  BY <1>13, <2>2, WorkTypes DEF Done, Idle
<1>14. ASSUME NEW w \in Worker, NEW a \in {"begin", "insert", "token", "grant", "delete"},
              NEW c \in Cmd, work[w] # Idle,
              work' = [work EXCEPT ![w].at = a, ![w].cmd = c]
       PROVE  /\ work' \in [Worker -> {Idle} \cup Job]
              /\ \A v \in Worker : work'[v].at \in {"idle", "begin", "insert", "token", "grant",
                                                    "enter", "delete"}
              /\ \A v \in Worker : work'[v].at = "enter" => work'[v].key \in Token
  <2>. DEFINE j == [work[w] EXCEPT !.at = a, !.cmd = c]
  <2>1. j \in Job
    BY <1>14 DEF Job
  <2>. QED  BY <1>14, <2>1, WorkTypes DEF Job
<1>15. ASSUME NEW w \in Worker, NEW at \in {"begin", "insert", "token", "grant", "enter", "delete"},
              NEW cmd \in Cmd, At(w, at, cmd)
       PROVE  work[w] \in Job /\ work[w] # Idle /\ work[w].cmd \in Cmd
  BY <1>15 DEF At, Idle, Job
<1>16. ASSUME NEW w \in Worker, Register(w) PROVE Types'
  <2>1. work[w] \in Job /\ work[w] # Idle /\ At(w, "begin", "SignUp")
    BY <1>16, <1>15 DEF Register, Cmd
  <2>2. CASE Refuse(w)
    BY <1>16, <2>1, <2>2, <1>13 DEF Register, Refuse, client, Req, Cmd, Key
  <2>3. CASE Goto(w, "insert") /\ UNCHANGED answer
    <3>1. work' = [work EXCEPT ![w].at = "insert", ![w].cmd = "SignUp"]
      BY <2>1, <2>3 DEF Goto, At, Job
    <3>. QED  BY <1>16, <2>1, <2>3, <3>1, <1>14 DEF Register, client, Req, Cmd, Key
  <2>. QED  BY <1>16, <2>2, <2>3 DEF Register
<1>17. ASSUME NEW w \in Worker, Insert(w) PROVE Types'
  <2>1. work[w] \in Job /\ work[w] # Idle /\ work[w].cmd = "SignUp"
    BY <1>17, <1>15 DEF Insert, Cmd, At
  <2>2. CASE Refuse(w) /\ UNCHANGED account
    BY <1>17, <2>1, <2>2, <1>13 DEF Insert, Refuse, client, Req, Cmd, Key
  <2>3. CASE account' = None /\ Goto(w, "grant") /\ UNCHANGED answer
    <3>. DEFINE j == work[w]
    <3>0. [j EXCEPT !.at = "grant"] = [j EXCEPT !.at = "grant", !.cmd = "SignUp"]
      <4>1. j \in Job /\ j.cmd = "SignUp"
        BY <2>1
      <4>. HIDE DEF j
      <4>. QED  BY <4>1 DEF Job
    <3>1. work' = [work EXCEPT ![w].at = "grant", ![w].cmd = "SignUp"]
      BY <2>3, <3>0 DEF Goto
    <3>2. "grant" \in {"begin", "insert", "token", "grant", "delete"} /\ "SignUp" \in Cmd
      BY DEF Cmd
    <3>3. /\ work' \in [Worker -> {Idle} \cup Job]
          /\ \A v \in Worker : work'[v].at \in {"idle", "begin", "insert", "token", "grant",
                                                "enter", "delete"}
          /\ \A v \in Worker : work'[v].at = "enter" => work'[v].key \in Token
      BY <2>1, <3>1, <3>2, <1>14
    <3>. QED  BY <1>17, <2>3, <3>3 DEF Insert, client, Req, Cmd, Key
  <2>. QED  BY <1>17, <2>2, <2>3 DEF Insert
<1>27. ASSUME NEW w \in Worker, AddUpdatePermission(w) PROVE Types'
  <2>1. work[w] # Idle
    BY <1>27, <1>15 DEF AddUpdatePermission, Cmd
  <2>. QED  BY <1>27, <2>1, <1>14 DEF AddUpdatePermission, client, Req, Cmd, Key
<1>18. ASSUME NEW w \in Worker, CheckUser(w) PROVE Types'
  <2>1. work[w] \in Job /\ work[w] # Idle
    BY <1>18, <1>15 DEF CheckUser, Cmd
  <2>2. CASE Refuse(w)
    BY <1>18, <2>1, <2>2, <1>13 DEF CheckUser, Refuse, client, Req, Cmd, Key
  <2>3. CASE account # Absent /\ UNCHANGED answer /\
             work' = [work EXCEPT ![w].at = IF account = None THEN "token" ELSE "enter",
                                  ![w].key = account]
    <3>. DEFINE j == [work[w] EXCEPT !.at = IF account = None THEN "token" ELSE "enter",
                                     !.key = account]
    <3>1. j \in Job /\ (j.at = "enter" => j.key \in Token)
      BY <2>1, <2>3 DEF Job, Key
    <3>2. work' = [work EXCEPT ![w] = j]
      BY <2>3
    <3>. QED  BY <1>18, <2>3, <3>1, <3>2, WorkTypes DEF CheckUser, client, Req, Cmd, Key
  <2>. QED  BY <1>18, <2>2, <2>3 DEF CheckUser
<1>19. ASSUME NEW w \in Worker, MakeToken(w) PROVE Types'
  <2>1. work[w] \in Job
    BY <1>19, <1>15 DEF MakeToken, Cmd
  <2>2. PICK t \in Token : /\ work' = [work EXCEPT ![w].at = "enter", ![w].key = t]
                           /\ account' = IF account = Absent THEN Absent ELSE t
    BY <1>19 DEF MakeToken
  <2>. DEFINE j == [work[w] EXCEPT !.at = "enter", !.key = t]
  <2>3. j \in Job /\ j.key \in Token
    BY <2>1 DEF Job, Key
  <2>4. work' = [work EXCEPT ![w] = j]
    BY <2>2
  <2>. QED  BY <1>19, <2>2, <2>3, <2>4, WorkTypes DEF MakeToken, client, Req, Cmd, Key
<1>20. ASSUME NEW w \in Worker, LoginUser(w) PROVE Types'
  <2>1. work[w] \in Job /\ work[w] # Idle /\ work[w].key \in Token
    BY <1>20, <1>15 DEF LoginUser, Cmd, At
  <2>. QED  BY <1>20, <2>1, <1>13 DEF LoginUser, Job, client, Req, Cmd, Key
<1>21. ASSUME NEW w \in Worker, LogOutUser(w) PROVE Types'
  <2>1. work[w] \in Job /\ work[w] # Idle
    BY <1>21, <1>15 DEF LogOutUser, Cmd
  <2>2. /\ Done(w) /\ (Answer(w, None) \/ UNCHANGED answer)
        /\ UNCHANGED <<client, event, link, conn, request, account, granted, lost, overlap>>
    BY <1>21 DEF LogOutUser, Refuse
  <2>3. /\ work' \in [Worker -> {Idle} \cup Job]
        /\ \A v \in Worker : work'[v].at \in {"idle", "begin", "insert", "token", "grant",
                                              "enter", "delete"}
        /\ \A v \in Worker : work'[v].at = "enter" => work'[v].key \in Token
        /\ answer' \in Seq(Token \cup {None})
    BY <2>1, <2>2, <1>13
  <2>4. info' \in [Conn -> Token \cup {None}]
    BY <1>21, <2>1 DEF LogOutUser, Job, Key
  <2>. QED  BY <2>2, <2>3, <2>4 DEF client
<1>22. ASSUME NEW w \in Worker, SignValidation(w) PROVE Types'
  <2>1. work[w] \in Job /\ work[w] # Idle /\ At(w, "begin", "Delete")
    BY <1>22, <1>15 DEF SignValidation, Cmd
  <2>2. CASE Refuse(w)
    BY <1>22, <2>1, <2>2, <1>13 DEF SignValidation, Refuse, client, Req, Cmd, Key
  <2>3. CASE Goto(w, "delete") /\ UNCHANGED answer
    <3>1. work' = [work EXCEPT ![w].at = "delete", ![w].cmd = "Delete"]
      BY <2>1, <2>3 DEF Goto, At, Job
    <3>. QED  BY <1>22, <2>1, <2>3, <3>1, <1>14 DEF SignValidation, client, Req, Cmd, Key
  <2>. QED  BY <1>22, <2>2, <2>3 DEF SignValidation
<1>23. ASSUME NEW w \in Worker, DeleteUser(w) PROVE Types'
  <2>1. work[w] # Idle
    BY <1>23, <1>15 DEF DeleteUser, Cmd
  <2>. QED  BY <1>23, <2>1, <1>13 DEF DeleteUser, client, Req, Cmd, Key
<1>24. ASSUME NEW k \in Conn, ServerDisconnected(k) PROVE Types'
  BY <1>24 DEF ServerDisconnected, client
<1>25. CASE UNCHANGED vars
  BY <1>25 DEF vars, client, server
<1>26. Login \/ SignUp =>
          \E cmd \in {"LogIn", "SignUp"}, key \in {"right", "wrong"} \cup Token : Enter(cmd, key)
  BY DEF Login, SignUp
<1>. QED
  BY <1>1, <1>2, <1>3, <1>4, <1>5, <1>6, <1>7, <1>8, <1>9, <1>10, <1>11, <1>12, <1>16, <1>17,
     <1>18, <1>19, <1>20, <1>21, <1>22, <1>23, <1>24, <1>25, <1>26, <1>27
     DEF Next, Timers, Answers, Serve

(***************************************************************************)
(* The events.                                                             *)
(***************************************************************************)
LEMMA EventsInit == Init => Events /\ DownHeard
BY DEF Init, Events, Alternate, AddressEnds, LossHeard, DownHeard

\* An event that is no connection comes, and none is lost.
LEMMA EventsAppend ==
  ASSUME Events, event \in Seq(Event), NEW e \in {"error", "refused"},
         event' = Append(event, e), address' = address, link' = "up" <=> link = "up"
  PROVE  Events'
<1>1. /\ DOMAIN event' = 1 .. Len(event) + 1 /\ Len(event) \in Nat
      /\ event'[Len(event) + 1] = e
      /\ \A i \in DOMAIN event : i \in DOMAIN event' /\ event'[i] = event[i]
  BY AppendOf DEF Event
<1>2. \A i \in DOMAIN event' : event'[i] = "connected" => i \in DOMAIN event
  BY <1>1
<1>3. Alternate'
  BY <1>1, <1>2 DEF Events, Alternate
<1>4. AddressEnds'
  BY <1>1, <1>2 DEF Events, AddressEnds
<1>5. LossHeard'
  BY <1>1, <1>2 DEF Events, LossHeard
<1>. QED  BY <1>3, <1>4, <1>5 DEF Events

LEMMA EventsLoss ==
  ASSUME Events, event \in Seq(Event),
         NEW events \in {<<"disconnected">>, <<"error", "disconnected">>},
         event' = event \o events, address' = address, link' # "up"
  PROVE  Events'
<1>1. /\ events \in Seq(Event) /\ Len(events) \in 1 .. 2
      /\ events[Len(events)] = "disconnected"
      /\ \A i \in DOMAIN events : events[i] # "connected"
  <2>1. CASE events = <<"disconnected">>
    BY <2>1 DEF Event
  <2>2. CASE events = <<"error", "disconnected">>
    BY <2>2 DEF Event
  <2>. QED  BY <2>1, <2>2
<1>2. /\ DOMAIN event' = 1 .. Len(event) + Len(events) /\ Len(event) \in Nat
      /\ event'[Len(event) + Len(events)] = "disconnected"
      /\ \A i \in DOMAIN event : i \in DOMAIN event' /\ event'[i] = event[i]
      /\ \A i \in DOMAIN event' : i \notin DOMAIN event => event'[i] = events[i - Len(event)]
  <2>. DEFINE t == event \o events
  <2>1. /\ DOMAIN t = 1 .. Len(event) + Len(events)
        /\ \A i \in 1 .. Len(event) + Len(events) :
              t[i] = IF i <= Len(event) THEN event[i] ELSE events[i - Len(event)]
        /\ Len(event) \in Nat /\ DOMAIN event = 1 .. Len(event)
    BY <1>1, ConcatProperties
  <2>. HIDE DEF t
  <2>2. event' = t
    BY DEF t
  <2>. QED  BY <1>1, <2>1, <2>2
<1>3. \A i \in DOMAIN event' : event'[i] = "connected" => i \in 1 .. Len(event)
  BY <1>1, <1>2
<1>4. Alternate'
  BY <1>2, <1>3 DEF Events, Alternate
<1>5. AddressEnds'
  BY <1>2, <1>3 DEF Events, AddressEnds
<1>6. LossHeard'
  BY <1>1, <1>2, <1>3 DEF LossHeard
<1>. QED  BY <1>4, <1>5, <1>6 DEF Events

LEMMA EventsStep == Types /\ Events /\ [Next]_vars => Events'
<1>. SUFFICES ASSUME Types, Events, [Next]_vars PROVE Events'
  OBVIOUS
<1>a. event \in Seq(Event)
  BY DEF Types, TypeOK, Event
<1>1. CASE event' = event /\ address' = address /\ (link' = "up" <=> link = "up")
  BY <1>1 DEF Events, Alternate, AddressEnds, LossHeard
<1>2. CASE HandleEvent
  <2>1. /\ DOMAIN event = 1 .. Len(event) /\ Len(event) \in Nat \ {0}
        /\ DOMAIN event' = 1 .. Len(event) - 1
        /\ \A i \in DOMAIN event' : i + 1 \in DOMAIN event /\ event'[i] = event[i + 1]
        /\ \A i \in DOMAIN event : i > 1 => i - 1 \in DOMAIN event' /\ event'[i - 1] = event[i]
    BY <1>2, <1>a, TailOf DEF HandleEvent
  <2>2. /\ link' = link /\ event[1] \in Event /\ 1 \in DOMAIN event
        /\ event[1] = "connected" => address'
        /\ event[1] = "disconnected" => ~address'
        /\ event[1] \in {"error", "refused"} => address' = address
    BY <1>2, <1>a, TailOf DEF HandleEvent, Event
  <2>3. Alternate'
    <3>. SUFFICES ASSUME NEW i \in DOMAIN event', NEW j \in DOMAIN event', i < j,
                         event'[i] = "connected", event'[j] = "connected"
                  PROVE  \E m \in i + 1 .. j - 1 : event'[m] = "disconnected"
      BY DEF Alternate
    <3>1. PICK m \in i + 2 .. j : event[m] = "disconnected"
      BY <2>1 DEF Events, Alternate
    <3>2. m - 1 \in i + 1 .. j - 1
      BY <2>1, <3>1
    <3>3. event'[m - 1] = "disconnected"
      <4>1. m \in DOMAIN event /\ m > 1
        BY <2>1, <3>1
      <4>. QED  BY <2>1, <3>1, <4>1
    <3>. QED  BY <3>2, <3>3
  <2>4. AddressEnds'
    <3>. SUFFICES ASSUME NEW j \in DOMAIN event', address', event'[j] = "connected"
                  PROVE  \E m \in 1 .. j - 1 : event'[m] = "disconnected"
      BY DEF AddressEnds
    <3>1. PICK m \in 2 .. j : event[m] = "disconnected"
      <4>1. CASE event[1] = "connected"
        <5>1. 1 \in DOMAIN event /\ j + 1 \in DOMAIN event /\ 1 < j + 1 /\ event[j + 1] = "connected"
          BY <2>1, <2>2
        <5>. QED  BY <2>1, <4>1, <5>1 DEF Events, Alternate
      <4>2. CASE event[1] # "connected"
        <5>1. PICK m \in 1 .. j : event[m] = "disconnected"
          <6>1. address /\ j + 1 \in DOMAIN event /\ event[j + 1] = "connected"
            BY <2>1, <2>2, <4>2 DEF Event
          <6>. QED  BY <2>1, <6>1 DEF Events, AddressEnds
        <5>2. event[1] # "disconnected"
          BY <2>2
        <5>. QED  BY <2>1, <5>1, <5>2
      <4>. QED  BY <4>1, <4>2
    <3>2. m - 1 \in 1 .. j - 1 /\ event'[m - 1] = "disconnected"
      BY <2>1, <3>1
    <3>. QED  BY <3>2
  <2>5. LossHeard'
    <3>. SUFFICES ASSUME link # "up" PROVE LossHeard'
      BY <2>2 DEF LossHeard
    <3>1. ASSUME address' PROVE \E m \in DOMAIN event' : event'[m] = "disconnected"
      <4>1. PICK m \in DOMAIN event : m > 1 /\ event[m] = "disconnected"
        <5>1. CASE event[1] = "connected"
          BY <2>2, <5>1 DEF Events, LossHeard
        <5>2. CASE event[1] # "connected"
          <6>1. address /\ event[1] # "disconnected"
            BY <2>2, <3>1, <5>2 DEF Event
          <6>. QED  BY <2>1, <6>1 DEF Events, LossHeard
        <5>. QED  BY <5>1, <5>2
      <4>. QED  BY <2>1, <4>1
    <3>2. ASSUME NEW i \in DOMAIN event', event'[i] = "connected"
          PROVE  \E m \in DOMAIN event' : m > i /\ event'[m] = "disconnected"
      <4>1. PICK m \in DOMAIN event : m > i + 1 /\ event[m] = "disconnected"
        BY <2>1, <3>2 DEF Events, LossHeard
      <4>2. m - 1 \in DOMAIN event' /\ m - 1 > i /\ event'[m - 1] = "disconnected"
        BY <2>1, <4>1
      <4>. QED  BY <4>2
    <3>. QED  BY <3>1, <3>2 DEF LossHeard
  <2>. QED  BY <2>3, <2>4, <2>5 DEF Events
<1>3. CASE Establish
  <2>1. /\ DOMAIN event' = 1 .. Len(event) + 1 /\ Len(event) \in Nat
        /\ DOMAIN event = 1 .. Len(event)
        /\ \A i \in DOMAIN event : i \in DOMAIN event' /\ event'[i] = event[i]
        /\ address' = address /\ link # "up" /\ link' = "up"
    BY <1>3, <1>a, AppendOf DEF Establish, client, Event
  <2>2. Alternate'
    <3>. SUFFICES ASSUME NEW i \in DOMAIN event', NEW j \in DOMAIN event', i < j,
                         event'[i] = "connected", event'[j] = "connected"
                  PROVE  \E m \in i + 1 .. j - 1 : event'[m] = "disconnected"
      BY DEF Alternate
    <3>1. i \in DOMAIN event /\ event[i] = "connected"
      BY <2>1
    <3>2. CASE j \in DOMAIN event
      BY <2>1, <3>1, <3>2 DEF Events, Alternate
    <3>3. CASE j = Len(event) + 1
      <4>1. PICK m \in DOMAIN event : m > i /\ event[m] = "disconnected"
        BY <2>1, <3>1 DEF Events, LossHeard
      <4>. QED  BY <2>1, <3>1, <3>3, <4>1
    <3>. QED  BY <2>1, <3>2, <3>3
  <2>3. AddressEnds'
    <3>. SUFFICES ASSUME NEW j \in DOMAIN event', address, event'[j] = "connected"
                  PROVE  \E m \in 1 .. j - 1 : event'[m] = "disconnected"
      BY <2>1 DEF AddressEnds
    <3>1. CASE j \in DOMAIN event
      BY <2>1, <3>1 DEF Events, AddressEnds
    <3>2. CASE j = Len(event) + 1
      BY <2>1, <3>2 DEF Events, LossHeard
    <3>. QED  BY <2>1, <3>1, <3>2
  <2>. QED  BY <2>1, <2>2, <2>3 DEF Events, LossHeard
<1>4. CASE ConnectFails
  BY <1>4, <1>a, EventsAppend DEF ConnectFails, client
<1>5. ASSUME NEW i \in DOMAIN answer, TakeAnswer(i) PROVE Events'
  BY <1>1, <1>5, <1>a, EventsAppend DEF TakeAnswer
<1>6. ASSUME link = "up", NEW events \in {<<"disconnected">>, <<"error", "disconnected">>},
             Disconnect(events), UNCHANGED <<client, server>>
      PROVE  Events'
  BY <1>6, <1>a, EventsLoss DEF Disconnect, client
<1>7. CASE DisconnectFromServer \/ PeerCloses
  BY <1>1, <1>6, <1>7 DEF DisconnectFromServer, PeerCloses, client
<1>8. CASE UNCHANGED vars
  BY <1>1, <1>8 DEF vars, client
<1>. QED
  BY <1>1, <1>2, <1>3, <1>4, <1>5, <1>7, <1>8
     DEF Next, Timers, Answers, Serve, Timer, ConnectToServer, Login, SignUp, Enter, Logout,
         RemoveUser, Take, Register, Insert, AddUpdatePermission, CheckUser, MakeToken, LoginUser, LogOutUser,
         SignValidation, DeleteUser, ServerDisconnected, client

(***************************************************************************)
(* What the client knows of a connection that is gone.                     *)
(***************************************************************************)
LEMMA DownStep == Types /\ Events /\ DownHeard /\ Waited /\ [Next]_vars => DownHeard'
<1>. SUFFICES ASSUME Types, Events, DownHeard, Waited, [Next]_vars, ~overlap', link' = "none"
              PROVE  \/ status' = Dissconnected
                     \/ \E i \in DOMAIN event' : event'[i] \in {"disconnected", "error"}
  BY DEF DownHeard
<1>a. event \in Seq(Event)
  BY DEF Types, TypeOK, Event
<1>1. CASE link = "none" /\ ~overlap /\ UNCHANGED <<status, event>>
  BY <1>1 DEF DownHeard
<1>2. ASSUME NEW s \in {Dissconnected, Connected}, Timer(s)
      PROVE  \/ status' = Dissconnected
             \/ \E i \in DOMAIN event' : event'[i] \in {"disconnected", "error"}
  BY <1>2 DEF Timer, DownHeard, Dissconnected, Connecting, Loginning
<1>3. CASE HandleEvent
  <2>1. /\ DOMAIN event = 1 .. Len(event) /\ Len(event) \in Nat \ {0}
        /\ \A i \in DOMAIN event : i > 1 => i - 1 \in DOMAIN event' /\ event'[i - 1] = event[i]
        /\ event[1] = Head(event) /\ event[1] \in Event /\ 1 \in DOMAIN event
        /\ link = "none" /\ ~overlap
    BY <1>3, <1>a, TailOf DEF HandleEvent
  <2>2. CASE event[1] \in {"disconnected", "error"}
    BY <1>3, <2>1, <2>2 DEF HandleEvent, SetStatus
  <2>3. CASE event[1] = "connected"
    <3>1. PICK m \in DOMAIN event : m > 1 /\ event[m] = "disconnected"
      BY <2>1, <2>3 DEF Events, LossHeard
    <3>. QED  BY <2>1, <3>1
  <2>4. CASE event[1] = "refused"
    <3>1. status' = Dissconnected \/ status # Dissconnected
      BY <1>3, <2>1, <2>4 DEF HandleEvent, SetStatus, Loginning, Dissconnected
    <3>2. CASE status # Dissconnected
      <4>1. PICK m \in DOMAIN event : event[m] \in {"disconnected", "error"}
        BY <2>1, <3>2 DEF DownHeard
      <4>. QED  BY <2>1, <2>4, <4>1
    <3>. QED  BY <3>1, <3>2
  <2>. QED  BY <2>1, <2>2, <2>3, <2>4 DEF Event
<1>4. ASSUME NEW i \in DOMAIN answer, TakeAnswer(i) PROVE FALSE
  BY <1>4 DEF TakeAnswer, Waited, NothingUnderWay
<1>5. ASSUME NEW events \in {<<"disconnected">>, <<"error", "disconnected">>},
             Disconnect(events)
      PROVE  \E i \in DOMAIN event' : event'[i] \in {"disconnected", "error"}
  <2>1. /\ events \in Seq(Event) /\ 1 \in DOMAIN events
        /\ events[1] \in {"disconnected", "error"}
    <3>1. CASE events = <<"disconnected">>
      BY <3>1 DEF Event
    <3>2. CASE events = <<"error", "disconnected">>
      BY <3>2 DEF Event
    <3>. QED  BY <3>1, <3>2
  <2>2. Len(event) + 1 \in DOMAIN (event \o events) /\ (event \o events)[Len(event) + 1] = events[1]
    BY <1>a, <2>1, ConcatOf
  <2>. QED  BY <1>5, <2>1, <2>2 DEF Disconnect
<1>6. CASE PeerCloses
  BY <1>5, <1>6 DEF PeerCloses
<1>7. CASE DisconnectFromServer
  <2>1. CASE link = "up"
    BY <1>5, <1>7, <2>1 DEF DisconnectFromServer
  <2>2. CASE link = "pending"
    BY <1>7, <2>2 DEF DisconnectFromServer, Events, LossHeard
  <2>. QED  BY <1>7, <2>1, <2>2 DEF DisconnectFromServer
<1>8. CASE ConnectFails
  BY <1>8, <1>a, AppendOf DEF ConnectFails, Event
<1>9. CASE ConnectToServer \/ Establish
  BY <1>9 DEF ConnectToServer, Establish, Types, TypeOK
<1>10. CASE UNCHANGED vars
  BY <1>1, <1>10 DEF vars, client
<1>11. CASE Login \/ SignUp \/ Logout \/ RemoveUser
  BY <1>11 DEF Login, SignUp, Enter, Logout, RemoveUser, MaySend
<1>12. ASSUME NEW w \in Worker, Serve(w) PROVE link = "none" /\ ~overlap /\ UNCHANGED <<status, event>>
  BY <1>12 DEF Serve, Take, Register, Insert, AddUpdatePermission, CheckUser, MakeToken, LoginUser, LogOutUser,
               SignValidation, DeleteUser, client
<1>13. ASSUME NEW k \in Conn, ServerDisconnected(k)
       PROVE  link = "none" /\ ~overlap /\ UNCHANGED <<status, event>>
  BY <1>13 DEF ServerDisconnected, client
<1>. QED
  BY <1>1, <1>2, <1>3, <1>4, <1>6, <1>7, <1>8, <1>9, <1>10, <1>11, <1>12, <1>13
     DEF Next, Timers, Answers

(***************************************************************************)
(* A session that waited.                                                  *)
(***************************************************************************)
LEMMA WaitedInit == Init => Waited
BY DEF Init, Waited, NothingUnderWay

\* A step that leaves the connection, what is under way and the status alone.
LEMMA WaitedSame ==
  ASSUME Waited, UNCHANGED <<link, conn, request, answer, work, info, member>>,
         ~overlap' => ~overlap, status' = status \/ status' # Logined
  PROVE  Waited'
BY DEF Waited, NothingUnderWay, OneMover, OwnConnection, SessionKept, Asked, Granted, Working

\* A request that was sent when nothing was on its way.
LEMMA WaitedFirst ==
  ASSUME Types, Waited, Quiet, link = "up", link' = link, conn' = conn,
         NEW r \in Req, r.conn = conn, request' = Append(request, r),
         UNCHANGED <<answer, work, info>>,
         status' = Logined => /\ r.cmd # "LogOut" /\ ~overlap
                              /\ status = Logined /\ member' = member
  PROVE  Waited'
<1>1. request' = <<r>> /\ answer' = <<>> /\ \A w \in Worker : work'[w] = Idle
  BY DEF Quiet
<1>2. OneMover' /\ OwnConnection'
  BY <1>1 DEF OneMover, OwnConnection, Working, Granted
<1>3. SessionKept'
  BY <1>1 DEF SessionKept, Waited, Quiet, Granted
<1>. QED  BY <1>2, <1>3 DEF Waited

LEMMA WaitedStep == Types /\ Waited /\ [Next]_vars => Waited'
<1>. SUFFICES ASSUME Types, Waited, [Next]_vars PROVE Waited'
  OBVIOUS
<1>a. /\ event \in Seq(Event) /\ request \in Seq(Req) /\ answer \in Seq(Token \cup {None})
      /\ work \in [Worker -> {Idle} \cup Job]
  BY DEF Types, TypeOK, Event, Req, Cmd, Key
<1>. USE SessionAssumption
<1>1. ASSUME NEW s \in {Dissconnected, Connected}, Timer(s) PROVE Waited'
  BY <1>1, WaitedSame DEF Timer, server, Dissconnected, Connected, Logined
<1>2. CASE HandleEvent
  <2>1. Head(event) \in Event
    BY <1>2, <1>a, TailOf DEF HandleEvent
  <2>2. ASSUME NEW s \in {status, Dissconnected, Connected}, SetStatus(s)
        PROVE  status' = status \/ status' # Logined
    BY <2>2 DEF SetStatus, Dissconnected, Connected, Logined
  <2>3. status' = status \/ status' # Logined
    BY <1>2, <2>1, <2>2 DEF HandleEvent, Event
  <2>. QED  BY <1>2, <2>3, WaitedSame DEF HandleEvent, server
<1>3. ASSUME NEW i \in DOMAIN answer, TakeAnswer(i) PROVE Waited'
  <2>. SUFFICES ASSUME ~overlap PROVE Waited'
    BY <1>3 DEF TakeAnswer, Waited
  <2>1. link = "up" /\ OneMover /\ OwnConnection /\ SessionKept
    BY <1>3 DEF Waited, NothingUnderWay
  <2>2. \A j \in DOMAIN answer' : \E k \in DOMAIN answer : answer'[j] = answer[k]
    BY <1>3, <1>a, RemoveAtOf DEF TakeAnswer
  <2>3. OneMover' /\ OwnConnection'
    BY <1>3, <2>1, <2>2 DEF TakeAnswer, OneMover, OwnConnection, Asked, Working, Granted, server
  <2>4. CASE Granted(i)
    <3>1. status' = Logined /\ member' = info[conn] /\ member' # None
      BY <1>3, <2>1, <2>4 DEF TakeAnswer, SetStatus, SessionKept, Granted
    <3>2. /\ \A j \in DOMAIN request : request[j].cmd # "LogOut"
          /\ \A w \in Worker : work[w] # Idle => work[w].cmd # "LogOut"
      BY <2>1, <2>4 DEF OneMover, Asked, Working, Mover
    <3>. QED
      BY <1>3, <2>1, <2>2, <2>3, <3>1, <3>2 DEF TakeAnswer, SessionKept, Granted, server, Waited
  <2>5. CASE ~Granted(i)
    <3>1. \A k \in DOMAIN answer : Granted(k) => \E j \in DOMAIN answer' : answer'[j] = answer[k]
      <4>. SUFFICES ASSUME NEW k \in DOMAIN answer, k # i
                    PROVE  \E j \in DOMAIN RemoveAt(answer, i) :
                              RemoveAt(answer, i)[j] = answer[k]
        BY <1>3, <2>5 DEF TakeAnswer
      <4>. QED  BY <1>a, RemoveAtOf
    <3>2. status' = status /\ member' = member
      BY <1>3, <2>5 DEF TakeAnswer, Granted
    <3>. QED
      BY <1>3, <2>1, <2>2, <2>3, <3>1, <3>2 DEF TakeAnswer, SessionKept, Granted, server, Waited
  <2>. QED  BY <2>4, <2>5
<1>4. CASE ConnectToServer
  <2>1. CASE link = "up"
    BY <1>4, <2>1, WaitedSame
       DEF ConnectToServer, SetStatus, server, Connecting, Connected, Logined, Types, TypeOK
  <2>2. CASE link # "up"
    <3>1. link' # "up" /\ status' # Logined
      BY <1>4, <2>2
         DEF ConnectToServer, SetStatus, Connecting, Connected, Logined, Types, TypeOK
    <3>. QED  BY <1>4, <2>2, <3>1 DEF ConnectToServer, Waited, NothingUnderWay, server
  <2>. QED  BY <2>1, <2>2
<1>5. ASSUME NEW events, Disconnect(events), UNCHANGED <<client, server>> PROVE Waited'
  <2>1. ~overlap' => request' = <<>> /\ answer' = <<>> /\ \A w \in Worker : work'[w] = Idle
    BY <1>5, <1>a, PrefixOf DEF Disconnect, Quiet, server
  <2>. QED  BY <1>5, <2>1 DEF Disconnect, Waited, NothingUnderWay
<1>6. CASE PeerCloses
  BY <1>5, <1>6 DEF PeerCloses
<1>7. CASE DisconnectFromServer
  <2>1. CASE link = "up"
    BY <1>5, <1>7, <2>1 DEF DisconnectFromServer
  <2>2. CASE link = "pending"
    BY <1>7, <2>2 DEF DisconnectFromServer, Waited, NothingUnderWay, server
  <2>. QED  BY <1>7, <2>1, <2>2 DEF DisconnectFromServer
<1>8. CASE Establish
  BY <1>8 DEF Establish, Waited, NothingUnderWay, OneMover, OwnConnection, SessionKept,
              Working, client, server
<1>9. CASE ConnectFails
  BY <1>9 DEF ConnectFails, Waited, NothingUnderWay, server
<1>10. CASE Login \/ SignUp
  <2>1. PICK cmd \in {"LogIn", "SignUp"}, key \in {"right", "wrong"} \cup Token : Enter(cmd, key)
    BY <1>10 DEF Login, SignUp, Types, TypeOK
  <2>. DEFINE r == Request(cmd, key)
  <2>2. r \in Req /\ r.conn = conn /\ r.cmd # "LogOut" /\ link = "up"
    BY <2>1 DEF Request, Req, Cmd, Key, Enter, MaySend, Types
  <2>3. status' = Logined => status = Logined
    BY <2>1 DEF Enter, SetStatus, Loginning, Logined
  <2>4. CASE ~overlap'
    BY <2>1, <2>2, <2>3, <2>4, WaitedFirst DEF Enter, server
  <2>. QED  BY <2>4 DEF Waited
<1>11. CASE Logout
  <2>. DEFINE r == Request("LogOut", member)
  <2>1. r \in Req /\ r.conn = conn /\ link = "up" /\ status' # Logined
    BY <1>11 DEF Request, Req, Cmd, Key, Logout, MaySend, Types, TypeOK, SetStatus, Connected,
                 Logined
  <2>2. CASE ~overlap'
    BY <1>11, <2>1, <2>2, WaitedFirst DEF Logout, server
  <2>. QED  BY <2>2 DEF Waited
<1>12. CASE RemoveUser
  <2>. DEFINE r == Request("Delete", member)
  <2>1. r \in Req /\ r.conn = conn /\ r.cmd = "Delete" /\ link = "up"
    BY <1>12 DEF Request, Req, Cmd, Key, RemoveUser, MaySend, Types, TypeOK
  <2>2. /\ DOMAIN request' = 1 .. Len(request) + 1 /\ DOMAIN request = 1 .. Len(request)
        /\ Len(request) \in Nat
        /\ \A i \in DOMAIN request' :
              request'[i] = IF i \in DOMAIN request THEN request[i] ELSE r
    <3>1. request' = Append(request, r)
      BY <1>12 DEF RemoveUser
    <3>. HIDE DEF r
    <3>. QED  BY <1>a, <2>1, <3>1, AppendProperties
  <2>3. \A i \in DOMAIN request' : Asked(i)' => i \in DOMAIN request /\ Asked(i)
    BY <2>1, <2>2 DEF Asked, Mover
  <2>4. CASE ~overlap
    <3>1. OneMover'
      BY <1>12, <2>1, <2>3, <2>4 DEF RemoveUser, server, Waited, OneMover, Working, Granted
    <3>2. OwnConnection' /\ SessionKept'
      BY <1>12, <2>1, <2>2, <2>4
         DEF RemoveUser, client, server, Waited, OwnConnection, SessionKept, Granted
    <3>. QED  BY <1>12, <2>1, <3>1, <3>2 DEF RemoveUser, Waited
  <2>. QED  BY <1>12, <2>4 DEF RemoveUser, Waited
<1>13. ASSUME NEW w \in Worker, Take(w) PROVE Waited'
  <2>. SUFFICES ASSUME ~overlap PROVE Waited'
    BY <1>13 DEF Take, Waited
  <2>1. /\ DOMAIN request = 1 .. Len(request) /\ Len(request) \in Nat
        /\ DOMAIN request' = 1 .. Len(request) - 1 /\ 1 \in DOMAIN request
        /\ \A i \in DOMAIN request' : i + 1 \in DOMAIN request /\ request'[i] = request[i + 1]
        /\ Head(request) = request[1] /\ request[1] \in Req
        /\ link = "up" /\ link' = "up" /\ conn' = conn /\ answer' = answer
    BY <1>13, <1>a, TailOf DEF Take, Waited, NothingUnderWay
  <2>2. /\ work[w] = Idle /\ work'[w].cmd = request[1].cmd /\ work'[w].conn = request[1].conn
        /\ \A v \in Worker : v # w => work'[v] = work[v]
    BY <1>13, <1>a, <2>1 DEF Take
  <2>3. OneMover /\ OwnConnection /\ SessionKept
    BY <2>1 DEF Waited
  <2>4. \A v \in Worker : Working(v)' => (v = w /\ Asked(1)) \/ (v # w /\ Working(v))
    BY <2>1, <2>2 DEF Working, Asked
  <2>5. \A i \in DOMAIN request' : Asked(i)' => i + 1 \in DOMAIN request /\ Asked(i + 1)
    BY <2>1 DEF Asked
  <2>6. OneMover'
    <3>1. \A i, j \in DOMAIN request' : Asked(i)' /\ Asked(j)' => i = j
      <4>. TAKE i, j \in DOMAIN request'
      <4>. HAVE Asked(i)' /\ Asked(j)'
      <4>1. i + 1 = j + 1
        BY <2>3, <2>5 DEF OneMover
      <4>. QED  BY <2>1, <4>1
    <3>2. \A i \in DOMAIN request' : Asked(i)' => ~Asked(1)
      BY <2>1, <2>3, <2>5 DEF OneMover
    <3>. QED  BY <2>1, <2>3, <2>4, <2>5, <3>1, <3>2 DEF OneMover, Granted
  <2>7. OwnConnection'
    BY <2>1, <2>2, <2>3 DEF OwnConnection
  <2>8. SessionKept'
    BY <1>13, <2>1, <2>2, <2>3 DEF Take, SessionKept, client, Granted
  <2>. QED  BY <2>1, <2>6, <2>7, <2>8 DEF Waited
<1>14. ASSUME NEW w \in Worker, work[w] # Idle, NEW j \in Job, j.conn = work[w].conn,
              j.cmd = work[w].cmd \/ {j.cmd, work[w].cmd} = {"LogIn", "SignUp"},
              work' = [work EXCEPT ![w] = j],
              UNCHANGED <<link, conn, request, answer, info, member, status, overlap>>
       PROVE  Waited'
  <2>. SUFFICES ASSUME ~overlap PROVE Waited'
    BY <1>14 DEF Waited
  <2>1. link = "up" /\ OneMover /\ OwnConnection /\ SessionKept
    BY <1>14 DEF Waited, NothingUnderWay
  <2>2. /\ \A v \in Worker : v # w => work'[v] = work[v]
        /\ work'[w] = j
    BY <1>14, <1>a
  <2>3. \A v \in Worker : Working(v)' => Working(v)
    BY <1>14, <2>2 DEF Working, Mover
  <2>4. OneMover'
    BY <1>14, <2>1, <2>3 DEF OneMover, Asked, Granted
  <2>5. OwnConnection'
    BY <1>14, <2>1, <2>2 DEF OwnConnection
  <2>6. SessionKept'
    BY <1>14, <2>1, <2>2 DEF SessionKept, Granted
  <2>. QED  BY <1>14, <2>1, <2>4, <2>5, <2>6 DEF Waited
<1>15. ASSUME NEW w \in Worker, work[w] # Idle, Done(w), NEW t \in {work[w].key, None},
              Answer(w, t) \/ (UNCHANGED answer /\ t = None),
              t # None => work[w].cmd = "LogIn" /\ info' = [info EXCEPT ![work[w].conn] = t],
              t = None => info' = info \/ work[w].cmd = "LogOut",
              UNCHANGED <<link, conn, request, member, status, overlap>>
       PROVE  Waited'
  <2>. SUFFICES ASSUME ~overlap PROVE Waited'
    BY <1>15 DEF Waited
  <2>1. link = "up" /\ OneMover /\ OwnConnection /\ SessionKept /\ conn \in Conn
    BY <1>15 DEF Waited, NothingUnderWay, Types
  <2>2. /\ \A v \in Worker : v # w => work'[v] = work[v]
        /\ work'[w] = Idle /\ work[w].conn = conn /\ work[w] \in Job
    BY <1>15, <1>a, <2>1 DEF Done, OwnConnection
  <2>3. \A v \in Worker : Working(v)' => Working(v) /\ v # w
    BY <2>2 DEF Working
  <2>4. OwnConnection'
    BY <1>15, <2>1, <2>2 DEF OwnConnection
  <2>5. CASE t = None
    <3>1. \A i \in DOMAIN answer' : Granted(i)' =>
             i \in DOMAIN answer /\ Granted(i) /\ answer'[i] = answer[i]
      <4>1. answer' = answer \/ answer' = Append(answer, None)
        BY <1>15, <2>5 DEF Answer
      <4>. DEFINE u == Append(answer, None)
      <4>2. /\ DOMAIN u = 1 .. Len(answer) + 1 /\ Len(answer) \in Nat
            /\ DOMAIN answer = 1 .. Len(answer) /\ u[Len(answer) + 1] = None
            /\ \A i \in DOMAIN answer : u[i] = answer[i]
        BY <1>a, AppendOf
      <4>. HIDE DEF u
      <4>3. \A i \in DOMAIN u : u[i] # None => i \in DOMAIN answer /\ u[i] = answer[i]
        BY <4>2
      <4>4. answer' = answer \/ answer' = u
        BY <4>1 DEF u
      <4>. QED  BY <4>3, <4>4 DEF Granted
    <3>2. OneMover'
      BY <1>15, <2>1, <2>3, <3>1 DEF OneMover, Asked
    <3>3. CASE info' = info
      <4>1. \A i \in DOMAIN answer : Granted(i) => i \in DOMAIN answer' /\ Granted(i)'
        BY <1>15, <1>a, AppendOf DEF Answer, Granted
      <4>2. SessionKept'
        BY <1>15, <2>1, <2>2, <3>1, <3>3, <4>1 DEF SessionKept
      <4>. QED  BY <1>15, <2>1, <2>4, <3>2, <4>2 DEF Waited
    <3>4. CASE work[w].cmd = "LogOut"
      <4>1. Working(w) /\ status # Logined
        BY <1>15, <2>1, <3>4 DEF Working, Mover, SessionKept
      <4>2. SessionKept'
        BY <1>15, <2>1, <3>1, <4>1 DEF SessionKept, OneMover
      <4>. QED  BY <1>15, <2>1, <2>4, <3>2, <4>2 DEF Waited
    <3>. QED  BY <1>15, <2>5, <3>3, <3>4
  <2>6. CASE t # None
    <3>1. Working(w) /\ t \in Key
      BY <1>15, <2>2, <2>6 DEF Working, Mover, Job
    <3>2. /\ \A i \in DOMAIN request : ~Asked(i)
          /\ \A v \in Worker : ~Working(v)'
          /\ \A i \in DOMAIN answer : ~Granted(i)
      BY <2>1, <2>3, <3>1 DEF OneMover
    <3>3. /\ DOMAIN answer' = 1 .. Len(answer) + 1 /\ Len(answer) \in Nat
          /\ \A i \in DOMAIN answer : answer'[i] = answer[i]
          /\ answer'[Len(answer) + 1] = t
      <4>1. answer \in Seq(Key) /\ answer' = Append(answer, t)
        BY <1>15, <1>a, <2>1, <2>2, <2>6 DEF Answer, Key
      <4>. QED  BY <3>1, <4>1, AppendOf
    <3>4. info'[conn] = t
      BY <1>15, <2>1, <2>2, <2>6 DEF Types, TypeOK
    <3>5. OneMover'
      BY <1>15, <3>2 DEF OneMover, Asked
    <3>6. \A i \in DOMAIN answer' : Granted(i)' => answer'[i] = info'[conn]
      BY <3>2, <3>3, <3>4 DEF Granted
    <3>7. \E i \in DOMAIN answer' : Granted(i)'
      <4>1. PICK n \in Nat : n = Len(answer) + 1
        BY <3>3
      <4>. QED  BY <2>6, <3>3, <4>1 DEF Granted
    <3>8. /\ \A i \in DOMAIN request : request[i].cmd # "LogOut"
          /\ \A v \in Worker : work'[v] # Idle => work'[v].cmd # "LogOut"
      BY <3>2 DEF Asked, Working, Mover
    <3>9. SessionKept'
      BY <1>15, <3>6, <3>7, <3>8 DEF SessionKept
    <3>. QED  BY <1>15, <2>1, <2>4, <3>5, <3>9 DEF Waited
  <2>. QED  BY <2>5, <2>6
<1>16. ASSUME NEW w \in Worker, NEW at \in {"begin", "insert", "token", "grant", "enter", "delete"},
              NEW cmd \in Cmd, At(w, at, cmd)
       PROVE  work[w] \in Job /\ work[w] # Idle /\ work[w].cmd = cmd /\ work[w].at = at
  BY <1>16, <1>a DEF At, Idle, Job
<1>17. ASSUME NEW w \in Worker, Refuse(w), work[w] # Idle,
              UNCHANGED <<link, conn, request, info, member, status, overlap>>
       PROVE  Waited'
  BY <1>15, <1>17 DEF Refuse
<1>18. ASSUME NEW w \in Worker, NEW a \in {"insert", "grant", "delete"}, Goto(w, a),
             work[w] # Idle,
              UNCHANGED <<link, conn, request, answer, info, member, status, overlap>>
       PROVE  Waited'
  <2>1. work' = [work EXCEPT ![w].at = a]
    BY <1>18 DEF Goto
  <2>. DEFINE j == [work[w] EXCEPT !.at = a]
  <2>2. j \in Job /\ j.conn = work[w].conn /\ j.cmd = work[w].cmd
    BY <1>18, <1>a DEF Job
  <2>3. work' = [work EXCEPT ![w] = j]
    BY <2>1
  <2>. QED  BY <1>14, <1>18, <2>2, <2>3
<1>19. ASSUME NEW w \in Worker, Register(w) \/ SignValidation(w) PROVE Waited'
  <2>1. work[w] # Idle
    BY <1>19, <1>16 DEF Register, SignValidation, Cmd
  <2>. QED  BY <1>17, <1>18, <1>19, <2>1 DEF Register, SignValidation, client
<1>20. ASSUME NEW w \in Worker, Insert(w) PROVE Waited'
  <2>1. work[w] # Idle
    BY <1>20, <1>16 DEF Insert, Cmd
  <2>. QED  BY <1>17, <1>18, <1>20, <2>1 DEF Insert, client
<1>28. ASSUME NEW w \in Worker, AddUpdatePermission(w) PROVE Waited'
  <2>1. work[w] # Idle /\ work[w].cmd = "SignUp" /\ work[w] \in Job
    BY <1>28, <1>16 DEF AddUpdatePermission, Cmd
  <2>. DEFINE j == [work[w] EXCEPT !.at = "begin", !.cmd = "LogIn"]
  <2>2. j \in Job /\ j.conn = work[w].conn /\ j.cmd = "LogIn"
    BY <2>1 DEF Job, Cmd
  <2>3. work' = [work EXCEPT ![w] = j]
    BY <1>28 DEF AddUpdatePermission
  <2>. QED  BY <1>14, <1>28, <2>1, <2>2, <2>3 DEF AddUpdatePermission, client
<1>21. ASSUME NEW w \in Worker, CheckUser(w) PROVE Waited'
  <2>1. work[w] # Idle /\ work[w] \in Job
    BY <1>21, <1>16 DEF CheckUser, Cmd
  <2>2. CASE Refuse(w)
    BY <1>17, <1>21, <2>1, <2>2 DEF CheckUser, client
  <2>3. CASE account # Absent /\ UNCHANGED answer /\
             work' = [work EXCEPT ![w].at = IF account = None THEN "token" ELSE "enter",
                                  ![w].key = account]
    <3>. DEFINE j == [work[w] EXCEPT !.at = IF account = None THEN "token" ELSE "enter",
                                     !.key = account]
    <3>1. j \in Job /\ j.conn = work[w].conn /\ j.cmd = work[w].cmd
      BY <2>1, <2>3 DEF Job, Key, Types, TypeOK
    <3>2. work' = [work EXCEPT ![w] = j]
      BY <2>3
    <3>3. UNCHANGED <<client, link, conn, request, answer, info, overlap>>
      BY <1>21, <2>3 DEF CheckUser
    <3>. HIDE DEF j
    <3>. QED  BY <1>14, <2>1, <3>1, <3>2, <3>3 DEF client
  <2>. QED  BY <1>21, <2>2, <2>3 DEF CheckUser
<1>22. ASSUME NEW w \in Worker, MakeToken(w) PROVE Waited'
  <2>1. work[w] # Idle /\ work[w] \in Job
    BY <1>22, <1>16 DEF MakeToken, Cmd
  <2>2. PICK t \in Token : work' = [work EXCEPT ![w].at = "enter", ![w].key = t]
    BY <1>22 DEF MakeToken
  <2>. DEFINE j == [work[w] EXCEPT !.at = "enter", !.key = t]
  <2>3. j \in Job /\ j.conn = work[w].conn /\ j.cmd = work[w].cmd
    BY <2>1 DEF Job, Key
  <2>4. work' = [work EXCEPT ![w] = j]
    BY <2>2
  <2>. QED  BY <1>14, <1>22, <2>1, <2>3, <2>4 DEF MakeToken, client
<1>23. ASSUME NEW w \in Worker, LoginUser(w) PROVE Waited'
  <2>1. work[w] # Idle /\ work[w].cmd = "LogIn" /\ work[w].key # None
    BY <1>23, <1>16 DEF LoginUser, Cmd, Types
  <2>. QED  BY <1>15, <1>23, <2>1 DEF LoginUser, client
<1>24. ASSUME NEW w \in Worker, LogOutUser(w) PROVE Waited'
  <2>1. work[w] # Idle /\ work[w].cmd = "LogOut"
    BY <1>24, <1>16 DEF LogOutUser, Cmd
  <2>. QED  BY <1>15, <1>17, <1>24, <2>1 DEF LogOutUser, client
<1>25. ASSUME NEW w \in Worker, DeleteUser(w) PROVE Waited'
  <2>1. work[w] # Idle
    BY <1>25, <1>16 DEF DeleteUser, Cmd
  <2>. QED  BY <1>15, <1>25, <2>1 DEF DeleteUser, client
<1>26. ASSUME NEW k \in Conn, ServerDisconnected(k) PROVE Waited'
  <2>1. link = "up" => info'[conn] = info[conn]
    BY <1>26 DEF ServerDisconnected, Types, TypeOK
  <2>. QED
    BY <1>26, <2>1 DEF ServerDisconnected, client, Waited, NothingUnderWay, OneMover,
                       OwnConnection, SessionKept, Working, Asked, Granted
<1>27. CASE UNCHANGED vars
  BY <1>27, WaitedSame DEF vars, client, server
<1>. QED
  BY <1>1, <1>2, <1>3, <1>4, <1>6, <1>7, <1>8, <1>9, <1>10, <1>11, <1>12, <1>13, <1>19,
     <1>20, <1>21, <1>22, <1>23, <1>24, <1>25, <1>26, <1>27, <1>28
     DEF Next, Timers, Answers, Serve

(***************************************************************************)
(* The theorems.                                                           *)
(***************************************************************************)
LEMMA Invariance == Spec => []Inv
<1>1. Init => Inv
  BY TypeInit, EventsInit, WaitedInit DEF Inv
<1>2. Inv /\ [Next]_vars => Inv'
  BY TypeStep, EventsStep, DownStep, WaitedStep DEF Inv
<1>. QED  BY <1>1, <1>2, PTL DEF Spec

\* Every variable of the client and of the server keeps its type; no more
\* timers run than the guards of the waiting calls allow.
THEOREM TypeCorrectness == Spec => []TypeOK
<1>1. Inv => TypeOK
  BY DEF Inv, Types
<1>. QED  BY <1>1, Invariance, PTL

\* The assertion of nodeConnected never fails, however connections, errors
\* and disconnections race with the events queued for the main thread.
THEOREM AssertionHolds == Spec => []ConnectedOnce
<1>1. ASSUME Inv PROVE ConnectedOnce
  <2>. SUFFICES ASSUME event # <<>>, Head(event) = "connected", address PROVE FALSE
    BY DEF ConnectedOnce
  <2>1. 1 \in DOMAIN event /\ event[1] = "connected"
    BY <1>1, TailOf DEF Inv, Types, TypeOK
  <2>. QED  BY <1>1, <2>1 DEF Inv, Events, AddressEnds
<1>. QED  BY <1>1, Invariance, PTL

\* A session that waited for what was on its way is the server's session once
\* nothing is on its way.
THEOREM SessionsAgree == Spec => []Agreement
<1>1. ASSUME Inv, Quiet, ~overlap
      PROVE  /\ status \in {Connected, Logined} => link # "none"
             /\ status = Logined => /\ link = "up" /\ info[conn] # None
                                    /\ info[conn] = member
  <2>1. event = <<>> /\ request = <<>> /\ answer = <<>>
    BY <1>1 DEF Quiet
  <2>2. link = "none" => status = Dissconnected
    BY <1>1, <2>1 DEF Inv, DownHeard
  <2>3. link \in {"none", "pending", "up"}
    BY <1>1 DEF Inv, Types, TypeOK
  <2>4. link = "pending" => status # Logined
    BY <1>1 DEF Inv, Waited, NothingUnderWay
  <2>5. link = "up" /\ status = Logined => member # None /\ info[conn] = member
    BY <1>1, <2>1 DEF Inv, Waited, SessionKept, Granted
  <2>. QED  BY <2>2, <2>3, <2>4, <2>5 DEF Dissconnected, Connected, Logined
<1>2. Inv => Agreement
  BY <1>1 DEF Agreement
<1>. QED  BY <1>2, Invariance, PTL

\* A client that waits has a timer, for any number of timers, although those
\* of earlier waits are never stopped.
LEMMA WaitStep == Types /\ WaitIsTimed /\ [Next]_vars => WaitIsTimed'
<1>. SUFFICES ASSUME Types, WaitIsTimed, [Next]_vars PROVE WaitIsTimed'
  OBVIOUS
<1>. USE SessionAssumption DEF Dissconnected, Connecting, Connected, Loginning, Logined
<1>a. /\ status \in 0 .. 4 /\ timers \in [{0, 2} -> 0 .. MaxTimers]
      /\ event \in Seq(Event)
  BY DEF Types, TypeOK, Event
<1>b. DOMAIN timers = {0, 2} /\ DOMAIN timers' = {0, 2}
  BY TypeStep DEF Types, TypeOK
<1>1. CASE UNCHANGED <<status, timers>>
  BY <1>1 DEF WaitIsTimed
<1>2. ASSUME NEW s \in {Dissconnected, Connected}, Timer(s) PROVE WaitIsTimed'
  BY <1>2 DEF Timer, WaitIsTimed
<1>3. ASSUME NEW s \in {status, Dissconnected, Connected, Logined}, SetStatus(s)
      PROVE  WaitIsTimed'
  BY <1>3, <1>a DEF SetStatus, WaitIsTimed
<1>4. ASSUME NEW s \in {Connecting, Loginning}, SetStatus(s),
             status \in {Dissconnected, Connected}
      PROVE  WaitIsTimed'
  <2>1. timers'[status] > 0 /\ status \in DOMAIN timers'
    BY <1>4, <1>a, <1>b DEF SetStatus
  <2>. QED  BY <2>1 DEF WaitIsTimed
<1>5. CASE HandleEvent
  <2>1. Head(event) \in Event
    BY <1>5, <1>a, TailOf DEF HandleEvent
  <2>. QED  BY <1>1, <1>3, <1>5, <2>1 DEF HandleEvent, Event
<1>6. ASSUME NEW i \in DOMAIN answer, TakeAnswer(i) PROVE WaitIsTimed'
  BY <1>1, <1>3, <1>6 DEF TakeAnswer
<1>7. CASE ConnectToServer
  BY <1>1, <1>4, <1>7, <1>a DEF ConnectToServer
<1>8. CASE Login \/ SignUp
  <2>1. PICK cmd, key : Enter(cmd, key)
    BY <1>8 DEF Login, SignUp
  <2>. QED  BY <1>1, <1>4, <2>1, <1>a DEF Enter
<1>9. CASE Logout
  BY <1>3, <1>9 DEF Logout
<1>10. CASE DisconnectFromServer \/ PeerCloses \/ Establish \/ ConnectFails \/ RemoveUser
  BY <1>1, <1>10 DEF DisconnectFromServer, PeerCloses, Establish, ConnectFails, RemoveUser,
                     client
<1>11. ASSUME NEW w \in Worker, Serve(w) PROVE WaitIsTimed'
  <2>1. UNCHANGED <<status, timers>>
    BY <1>11 DEF Serve, Take, Register, Insert, AddUpdatePermission, CheckUser, MakeToken, LoginUser, LogOutUser,
                 SignValidation, DeleteUser, client
  <2>. QED  BY <1>1, <2>1
<1>12. ASSUME NEW k \in Conn, ServerDisconnected(k) PROVE WaitIsTimed'
  BY <1>1, <1>12 DEF ServerDisconnected, client
<1>13. CASE UNCHANGED vars
  BY <1>1, <1>13 DEF vars, client
<1>. QED
  BY <1>2, <1>5, <1>6, <1>7, <1>8, <1>9, <1>10, <1>11, <1>12, <1>13 DEF Next, Timers, Answers

\* No client waits for ever for a connection or for an answer: while it waits,
\* a timer runs that ends the wait.
THEOREM WaitsAreTimed == Spec => []WaitIsTimed
<1>1. Init => WaitIsTimed
  BY DEF Init, WaitIsTimed, Dissconnected, Connecting, Loginning
<1>2. Inv /\ WaitIsTimed /\ [Next]_vars => WaitIsTimed'
  BY WaitStep DEF Inv
<1>. QED  BY <1>1, <1>2, Invariance, PTL DEF Spec

=============================================================================
