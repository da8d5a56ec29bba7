----------------------- MODULE NodeConnection_proofs ------------------------
(***************************************************************************)
(* Theorems about NodeConnection, for any number of addresses, sockets,    *)
(* workers, calls and packages: first those that hold whatever overlaps,   *)
(* then those for calls in turns (Turns) or peers that connect once        *)
(* (Fresh).                                                                *)
(***************************************************************************)
EXTENDS NodeConnection, SequenceTheorems, FiniteSetTheorems, TLAPS

(***************************************************************************)
(* Types.  Ops and Jobs are Operation and Event, each as one set of        *)
(* records with the conditions on the fields: the form the proofs use.     *)
(***************************************************************************)
Names == {"take", "null", "drop", "status", "attach", "trust", "local", "create", "announce",
          "registered", "connect", "remove", "send", "write", "force", "ban", "unBan",
          "confirmable", "readTrust", "requestTrust"}

OpRecord == [op : Names, a : Address, s : Socket \cup {None},
             v : {None} \cup Status \cup Int \cup BOOLEAN]

OpOK(o) ==
    /\ o.op \in {"null", "drop", "create", "registered", "connect", "write"} => o.s \in Socket
    /\ o.op = "status" => o.v \in Status
    /\ o.op \in {"trust", "readTrust", "requestTrust"} => o.v \in Int
    /\ o.op \in {"local", "create"} => o.v \in BOOLEAN
    /\ o.op \notin {"null", "drop", "create", "registered", "connect", "write", "attach"} =>
          o.s = None
    /\ o.op \notin {"status", "trust", "readTrust", "requestTrust", "local", "create"} =>
          o.v = None

Ops == {o \in OpRecord : OpOK(o)}

JobRecord == [op : {"addNode", "incomingTcp", "write", "disconnected", "deleteLater", "delete"},
              a : Address \cup {None}, s : Socket \cup {None}, v : {None}]

JobOK(j) ==
    /\ j.op = "addNode" => j.a \in Local
    /\ j.op = "incomingTcp" => j.a \in Remote
    /\ j.op = "disconnected" => j.a \in Address
    /\ j.op \in {"write", "deleteLater", "delete"} => j.s \in Socket
    /\ j.op \in {"addNode", "incomingTcp", "disconnected"} => j.s = None
    /\ j.op = "write" => j.a \in Address
    /\ j.op \in {"deleteLater", "delete"} => j.a = None

Jobs == {j \in JobRecord : JobOK(j)}

Types ==
    /\ FieldTypes
    /\ program \in [Thread -> Seq(Ops)]
    /\ senderQueue \in Seq(Jobs)
    /\ mainQueue \in Seq(Address \X Status)
    \* only the sender thread registers sockets
    /\ \A t \in Thread : \A i \in DOMAIN program[t] :
          LET o == program[t][i]
          IN  /\ o.op \in {"create", "registered", "announce", "connect"} => t = "sender"
              /\ o.op = "attach" /\ o.s # None => t = "sender"

\* An info is announced when it has its entry.
Announced ==
    \A i \in DOMAIN program["sender"] : program["sender"][i].op = "announce" =>
        LET o == program["sender"][i]
        IN  \/ i = 1 /\ o.a \in known
            \/ i = 2 /\ program["sender"][1].op = "create" /\ program["sender"][1].a = o.a

(***************************************************************************)
(* The life of a socket: it is unused until a job takes it, registered     *)
(* once for one address, taken away from its info by whoever drops it, and *)
(* deleted when no info points to it.                                      *)
(***************************************************************************)
Attaches(o, s) == o.op \in {"attach", "create"} /\ o.s = s

Untouched ==
    \A s \in Socket : sock[s] = "unused" =>
        /\ peerOf[s] = None
        /\ \A t \in Thread : \A i \in DOMAIN program[t] : program[t][i].s # s
        /\ \A i \in DOMAIN senderQueue : senderQueue[i].s # s

Pointed ==
    \A a \in Address : sct[a] # None => peerOf[sct[a]] = a /\ sock[sct[a]] # "deleted"

AttachedOnce ==
    \A s \in Socket, i \in DOMAIN program["sender"] : Attaches(program["sender"][i], s) =>
        /\ peerOf[s] = None /\ sock[s] # "deleted"
        /\ \A j \in DOMAIN program["sender"] : Attaches(program["sender"][j], s) => j = i

Dropped ==
    \A t \in Thread : \A i \in DOMAIN program[t] : program[t][i].op = "drop" =>
        LET o == program[t][i]
        IN  /\ peerOf[o.s] = o.a
            /\ \/ i = 1 /\ sct[o.a] # o.s
               \/ i = 2 /\ program[t][1] = Null(o.a, o.s)

Unpointed ==
    \A i \in DOMAIN senderQueue : senderQueue[i].op \in {"delete", "deleteLater"} =>
        /\ peerOf[senderQueue[i].s] # None
        /\ \A a \in Address : sct[a] # senderQueue[i].s

Registering ==
    \A i \in DOMAIN program["sender"] : program["sender"][i].op = "registered" =>
        LET o == program["sender"][i]
        IN  /\ \A j \in DOMAIN program["sender"] : Attaches(program["sender"][j], o.s) => j < i
            /\ \/ peerOf[o.s] = o.a
               \/ \E j \in 1 .. i - 1 : program["sender"][j] = Attach(o.a, o.s)

Wired == \A s \in wired : peerOf[s] # None

Life ==
    /\ Untouched /\ Pointed /\ AttachedOnce /\ Dropped /\ Unpointed /\ Registering
    /\ Wired /\ Announced

(***************************************************************************)
(* Sequences.                                                              *)
(***************************************************************************)
LEMMA TailOf ==
  ASSUME NEW S, NEW s \in Seq(S), s # <<>>
  PROVE  /\ Tail(s) \in Seq(S) /\ Len(s) \in Nat \ {0}
         /\ DOMAIN s = 1 .. Len(s) /\ DOMAIN Tail(s) = 1 .. Len(s) - 1
         /\ Head(s) = s[1] /\ s[1] \in S
         /\ \A i \in 1 .. Len(s) - 1 : Tail(s)[i] = s[i + 1]
BY HeadTailProperties

LEMMA AppendOf ==
  ASSUME NEW S, NEW s \in Seq(S), NEW e \in S
  PROVE  /\ Append(s, e) \in Seq(S) /\ Len(s) \in Nat
         /\ DOMAIN s = 1 .. Len(s) /\ DOMAIN Append(s, e) = 1 .. Len(s) + 1
         /\ \A i \in 1 .. Len(s) + 1 : Append(s, e)[i] = IF i <= Len(s) THEN s[i] ELSE e
BY AppendProperties

LEMMA ConcatOf ==
  ASSUME NEW S, NEW s \in Seq(S), NEW t \in Seq(S)
  PROVE  /\ s \o t \in Seq(S) /\ Len(s) \in Nat /\ Len(t) \in Nat
         /\ DOMAIN s = 1 .. Len(s) /\ DOMAIN t = 1 .. Len(t)
         /\ DOMAIN (s \o t) = 1 .. Len(s) + Len(t)
         /\ \A i \in 1 .. Len(s) + Len(t) :
               (s \o t)[i] = IF i <= Len(s) THEN s[i] ELSE t[i - Len(s)]
BY ConcatProperties

LEMMA ConcatIs ==
  ASSUME NEW S, NEW s \in Seq(S), NEW t \in Seq(S), NEW u \in Seq(S),
         Len(u) = Len(s) + Len(t), \A i \in 1 .. Len(s) : u[i] = s[i],
         \A i \in 1 .. Len(t) : u[Len(s) + i] = t[i]
  PROVE  s \o t = u
<1>1. s \o t \in Seq(S) /\ Len(s \o t) = Len(u)
  BY ConcatProperties
<1>2. ASSUME NEW i \in 1 .. Len(u) PROVE (s \o t)[i] = u[i]
  <2>1. CASE i <= Len(s)
    BY <2>1, ConcatProperties
  <2>2. CASE i > Len(s)
    <3>1. i - Len(s) \in 1 .. Len(t) /\ Len(s) + (i - Len(s)) = i
      BY <2>2
    <3>. QED  BY <2>2, <3>1, ConcatProperties
  <2>. QED  BY <2>1, <2>2
<1>. QED  BY <1>1, <1>2, SeqEqual

LEMMA ConcatOfTuples ==
  ASSUME NEW v, NEW w
  PROVE  <<v>> \o <<>> = <<v>> /\ <<v>> \o <<w>> = <<v, w>>
<1>. DEFINE S == {v, w}
<1>1. <<>> \in Seq(S) /\ <<v>> \in Seq(S) /\ <<w>> \in Seq(S) /\ <<v, w>> \in Seq(S)
  OBVIOUS
<1>2. /\ Len(<<v, w>>) = Len(<<v>>) + Len(<<w>>)
      /\ \A i \in 1 .. Len(<<v>>) : <<v, w>>[i] = <<v>>[i]
      /\ \A i \in 1 .. Len(<<w>>) : <<v, w>>[Len(<<v>>) + i] = <<w>>[i]
  <2>1. Len(<<v, w>>) = 2 /\ Len(<<v>>) = 1 /\ Len(<<w>>) = 1
    OBVIOUS
  <2>2. <<v, w>>[1] = v /\ <<v>>[1] = v /\ <<v, w>>[2] = w /\ <<w>>[1] = w
    OBVIOUS
  <2>3. \A i \in 1 .. Len(<<v>>) : i = 1
    BY <2>1
  <2>4. \A i \in 1 .. Len(<<w>>) : i = 1 /\ Len(<<v>>) + i = 2
    BY <2>1
  <2>5. \A i \in 1 .. Len(<<v>>) : <<v, w>>[i] = <<v>>[i]
    BY <2>2, <2>3, Zenon
  <2>6. \A i \in 1 .. Len(<<w>>) : <<v, w>>[Len(<<v>>) + i] = <<w>>[i]
    BY <2>2, <2>4, Zenon
  <2>7. Len(<<v, w>>) = Len(<<v>>) + Len(<<w>>)
    BY <2>1
  <2>. QED  BY <2>5, <2>6, <2>7, Zenon
<1>. HIDE DEF S
<1>. QED  BY <1>1, <1>2, ConcatIs, ConcatEmptySeq

LEMMA ConcatOfPairs ==
  ASSUME NEW v, NEW w, NEW x, NEW y
  PROVE  <<v, w>> \o <<x, y>> = <<v, w, x, y>>
<1>. DEFINE S == {v, w, x, y}
<1>1. <<v, w>> \in Seq(S) /\ <<x, y>> \in Seq(S) /\ <<v, w, x, y>> \in Seq(S)
  OBVIOUS
<1>2. /\ Len(<<v, w, x, y>>) = Len(<<v, w>>) + Len(<<x, y>>)
      /\ \A i \in 1 .. Len(<<v, w>>) : <<v, w, x, y>>[i] = <<v, w>>[i]
      /\ \A i \in 1 .. Len(<<x, y>>) : <<v, w, x, y>>[Len(<<v, w>>) + i] = <<x, y>>[i]
  OBVIOUS
<1>. HIDE DEF S
<1>. QED  BY <1>1, <1>2, ConcatIs

LEMMA ConcatOfPairAndTriple ==
  ASSUME NEW v, NEW w, NEW x, NEW y, NEW z
  PROVE  <<v, w>> \o <<x, y, z>> = <<v, w, x, y, z>>
<1>. DEFINE S == {v, w, x, y, z}
<1>1. <<v, w>> \in Seq(S) /\ <<x, y, z>> \in Seq(S) /\ <<v, w, x, y, z>> \in Seq(S)
  OBVIOUS
<1>2. /\ Len(<<v, w, x, y, z>>) = Len(<<v, w>>) + Len(<<x, y, z>>)
      /\ \A i \in 1 .. Len(<<v, w>>) : <<v, w, x, y, z>>[i] = <<v, w>>[i]
      /\ \A i \in 1 .. Len(<<x, y, z>>) : <<v, w, x, y, z>>[Len(<<v, w>>) + i] = <<x, y, z>>[i]
  OBVIOUS
<1>. HIDE DEF S
<1>. QED  BY <1>1, <1>2, ConcatIs

LEMMA ConcatOne ==
  ASSUME NEW v, NEW w, NEW x, NEW y, NEW z
  PROVE  <<v, w>> \o <<z>> = <<v, w, z>> /\ <<v, w, x, y>> \o <<z>> = <<v, w, x, y, z>>
<1>. DEFINE S == {v, w, x, y, z}
<1>1. /\ <<v, w>> \in Seq(S) /\ <<z>> \in Seq(S) /\ <<v, w, x, y>> \in Seq(S)
      /\ <<v, w, z>> \in Seq(S) /\ <<v, w, x, y, z>> \in Seq(S)
  OBVIOUS
<1>2. Len(<<z>>) = 1 /\ <<z>>[1] = z /\ \A i \in 1 .. Len(<<z>>) : i = 1
  <2>1. Len(<<z>>) = 1 /\ <<z>>[1] = z
    OBVIOUS
  <2>. QED  BY <2>1
<1>3. /\ Len(<<v, w, z>>) = 3 /\ Len(<<v, w>>) = 2
      /\ \A i \in 1 .. Len(<<v, w>>) : <<v, w, z>>[i] = <<v, w>>[i]
      /\ <<v, w, z>>[3] = z
  OBVIOUS
<1>4. /\ Len(<<v, w, x, y, z>>) = 5 /\ Len(<<v, w, x, y>>) = 4
      /\ \A i \in 1 .. Len(<<v, w, x, y>>) : <<v, w, x, y, z>>[i] = <<v, w, x, y>>[i]
      /\ <<v, w, x, y, z>>[5] = z
  OBVIOUS
<1>. DEFINE e == <<z>>
            p2 == <<v, w>>
            p3 == <<v, w, z>>
            p4 == <<v, w, x, y>>
            p5 == <<v, w, x, y, z>>
<1>. HIDE DEF S, e, p2, p3, p4, p5
<1>5. p2 \o e = p3
  <2>1. p2 \in Seq(S) /\ e \in Seq(S) /\ p3 \in Seq(S)
    BY <1>1 DEF p2, e, p3
  <2>2. /\ Len(p3) = 3 /\ Len(p2) = 2 /\ Len(e) = 1 /\ e[1] = z /\ p3[3] = z
        /\ \A i \in 1 .. Len(e) : i = 1
        /\ \A i \in 1 .. Len(p2) : p3[i] = p2[i]
    BY <1>2, <1>3, Zenon DEF p2, e, p3
  <2>3. Len(p2) + Len(e) = 3 /\ \A i \in 1 .. Len(e) : p3[Len(p2) + i] = e[i]
    BY <2>2
  <2>. QED  BY <2>1, <2>2, <2>3, ConcatIs
<1>6. p4 \o e = p5
  <2>1. p4 \in Seq(S) /\ e \in Seq(S) /\ p5 \in Seq(S)
    BY <1>1 DEF p4, e, p5
  <2>2. /\ Len(p5) = 5 /\ Len(p4) = 4 /\ Len(e) = 1 /\ e[1] = z /\ p5[5] = z
        /\ \A i \in 1 .. Len(e) : i = 1
        /\ \A i \in 1 .. Len(p4) : p5[i] = p4[i]
    BY <1>2, <1>4, Zenon DEF p4, e, p5
  <2>3. Len(p4) + Len(e) = 5 /\ \A i \in 1 .. Len(e) : p5[Len(p4) + i] = e[i]
    BY <2>2
  <2>. QED  BY <2>1, <2>2, <2>3, ConcatIs
<1>. QED  BY <1>5, <1>6 DEF p2, p3, p4, p5, e

LEMMA TupleOf ==
  ASSUME NEW S, NEW x \in S, NEW y \in S, NEW z \in S
  PROVE  /\ <<>> \in Seq(S) /\ <<x>> \in Seq(S) /\ <<x, y>> \in Seq(S) /\ <<x, y, z>> \in Seq(S)
         /\ \A w \in S : /\ <<x, y, z, w>> \in Seq(S)
                         /\ \A u \in S : <<x, y, z, w, u>> \in Seq(S)
OBVIOUS

(***************************************************************************)
(* Programs.                                                               *)
(***************************************************************************)
LEMMA OpsOf ==
  ASSUME NEW a \in Address
  PROVE  /\ Take(a) \in Ops /\ Remove(a) \in Ops /\ Send(a) \in Ops /\ ForceRemove(a) \in Ops
         /\ Ban(a) \in Ops /\ UnBan(a) \in Ops /\ Confirmable(a) \in Ops /\ Announce(a) \in Ops
         /\ \A s \in Socket : /\ Null(a, s) \in Ops /\ Drop(a, s) \in Ops /\ Write(a, s) \in Ops
                              /\ Registered(a, s) \in Ops /\ Op("connect", a, s) \in Ops
         /\ \A s \in Socket \cup {None} : Attach(a, s) \in Ops
         /\ \A st \in Status : SetStatus(a, st) \in Ops
         /\ \A v \in Int : /\ SetTrust(a, v) \in Ops
                           /\ ReadTrust(a, v, TRUE) \in Ops /\ ReadTrust(a, v, FALSE) \in Ops
         /\ \A b \in BOOLEAN : /\ SetLocal(a, b) \in Ops
                               /\ \A s \in Socket : Create(a, s, b) \in Ops
<1>1. /\ Take(a) \in Ops /\ Remove(a) \in Ops /\ Send(a) \in Ops /\ ForceRemove(a) \in Ops
      /\ Ban(a) \in Ops /\ UnBan(a) \in Ops /\ Confirmable(a) \in Ops /\ Announce(a) \in Ops
  BY DEF Ops, OpRecord, OpOK, Names, Op, OpValue, Take, Remove, Send, ForceRemove, Ban, UnBan, Confirmable, Announce
<1>2. \A s \in Socket : /\ Null(a, s) \in Ops /\ Drop(a, s) \in Ops /\ Write(a, s) \in Ops
                        /\ Registered(a, s) \in Ops /\ Op("connect", a, s) \in Ops
  BY DEF Ops, OpRecord, OpOK, Names, Op, OpValue, Null, Drop, Write, Registered
<1>3. \A s \in Socket \cup {None} : Attach(a, s) \in Ops
  BY DEF Ops, OpRecord, OpOK, Names, Op, OpValue, Attach
<1>4. \A st \in Status : SetStatus(a, st) \in Ops
  BY DEF Ops, OpRecord, OpOK, Names, Op, OpValue, SetStatus, Status
<1>5. \A v \in Int : SetTrust(a, v) \in Ops
  BY DEF Ops, OpRecord, OpOK, Names, Op, OpValue, SetTrust
<1>6. \A v \in Int : ReadTrust(a, v, TRUE) \in Ops /\ ReadTrust(a, v, FALSE) \in Ops
  BY DEF Ops, OpRecord, OpOK, Names, Op, OpValue, ReadTrust
<1>7. \A b \in BOOLEAN : SetLocal(a, b) \in Ops
  BY DEF Ops, OpRecord, OpOK, Names, Op, OpValue, SetLocal
<1>8. \A b \in BOOLEAN, s \in Socket : Create(a, s, b) \in Ops
  BY DEF Ops, OpRecord, OpOK, Names, Op, OpValue, Create
<1>9. \A b \in BOOLEAN : SetLocal(a, b) \in Ops /\ \A s \in Socket : Create(a, s, b) \in Ops
  BY <1>7, <1>8
<1>. QED  BY <1>1, <1>2, <1>3, <1>4, <1>5, <1>6, <1>9

\* What a thread may begin, or go on with, that only the sender thread may not.
Common(o) ==
    /\ o.op \notin {"create", "registered", "announce", "connect"}
    /\ o.op = "attach" => o.s = None

LEMMA CommonOf ==
  ASSUME NEW a
  PROVE  Common(Take(a)) /\ Common(Remove(a)) /\ Common(ForceRemove(a))
BY DEF Common, Take, Remove, ForceRemove, Op

LEMMA OneStep ==
  ASSUME NEW x \in Ops, Common(x), NEW ops \in {<<>>, <<x>>}
  PROVE  ops \in Seq(Ops) /\ \A i \in DOMAIN ops : Common(ops[i])
<1>1. CASE ops = <<>>
  BY <1>1
<1>2. CASE ops = <<x>>
  BY <1>2
<1>. QED  BY <1>1, <1>2

\* A thread goes on, or begins.
LEMMA ProgramContinues ==
  ASSUME Types, NEW t \in Thread, program[t] # <<>>, NEW ops \in Seq(Ops),
         t = "sender" \/ \A i \in DOMAIN ops : Common(ops[i]), Continue(t, ops)
  PROVE  /\ program' \in [Thread -> Seq(Ops)]
         /\ program[t][1] \in Ops /\ Head(program[t]) = program[t][1]
         /\ \A u \in Thread \ {t} : program'[u] = program[u]
         /\ Len(ops) \in Nat /\ DOMAIN ops = 1 .. Len(ops)
         /\ Len(program[t]) \in Nat \ {0} /\ DOMAIN program[t] = 1 .. Len(program[t])
         /\ DOMAIN program'[t] = 1 .. Len(ops) + Len(program[t]) - 1
         /\ \A i \in 1 .. Len(ops) + Len(program[t]) - 1 :
               program'[t][i] = IF i <= Len(ops) THEN ops[i] ELSE program[t][i - Len(ops) + 1]
         /\ \A u \in Thread : \A i \in DOMAIN program'[u] :
               LET o == program'[u][i]
               IN  /\ o.op \in {"create", "registered", "announce", "connect"} => u = "sender"
                   /\ o.op = "attach" /\ o.s # None => u = "sender"
<1>. DEFINE p == program[t]
            n == Len(ops)
            q == ops \o Tail(p)
<1>1. p \in Seq(Ops)
  BY DEF Types
<1>2. /\ Tail(p) \in Seq(Ops) /\ Len(p) \in Nat \ {0}
      /\ DOMAIN p = 1 .. Len(p) /\ DOMAIN Tail(p) = 1 .. Len(p) - 1 /\ Len(Tail(p)) = Len(p) - 1
      /\ Head(p) = p[1] /\ p[1] \in Ops
      /\ \A i \in 1 .. Len(p) - 1 : Tail(p)[i] = p[i + 1]
  BY <1>1, TailOf, HeadTailProperties
<1>3. /\ q \in Seq(Ops) /\ n \in Nat /\ DOMAIN ops = 1 .. n
      /\ DOMAIN q = 1 .. n + Len(p) - 1
      /\ \A i \in 1 .. n + Len(p) - 1 : q[i] = IF i <= n THEN ops[i] ELSE Tail(p)[i - n]
  BY <1>2, ConcatOf
<1>. HIDE DEF q
<1>4. \A i \in 1 .. n + Len(p) - 1 : q[i] = IF i <= n THEN ops[i] ELSE p[i - n + 1]
  <2>. SUFFICES ASSUME NEW i \in 1 .. n + Len(p) - 1, i > n
                PROVE  Tail(p)[i - n] = p[i - n + 1]
    BY <1>3
  <2>1. i - n \in 1 .. Len(p) - 1
    BY <1>2, <1>3
  <2>. QED  BY <1>2, <2>1
<1>5. program' = [program EXCEPT ![t] = q]
  BY DEF Continue, q
<1>6. program' \in [Thread -> Seq(Ops)] /\ program'[t] = q
      /\ \A u \in Thread \ {t} : program'[u] = program[u]
  BY <1>3, <1>5 DEF Types
<1>7. \A i \in DOMAIN q : t = "sender" \/ Common(q[i])
  <2>. SUFFICES ASSUME NEW i \in 1 .. n + Len(p) - 1, t # "sender" PROVE Common(q[i])
    BY <1>3
  <2>1. CASE i <= n
    BY <1>3, <1>4, <2>1
  <2>2. CASE i > n
    <3>1. i - n + 1 \in DOMAIN p
      BY <1>2, <1>3, <2>2
    <3>2. Common(p[i - n + 1])
      BY <3>1 DEF Types, Common
    <3>. QED  BY <1>3, <1>4, <2>2, <3>2
  <2>. QED  BY <1>3, <2>1, <2>2
<1>8. ASSUME NEW u \in Thread, NEW i \in DOMAIN program'[u] PROVE u = "sender" \/ Common(program'[u][i])
  <2>1. CASE u = t
    BY <1>6, <1>7, <2>1
  <2>2. CASE u # t
    BY <1>6, <2>2 DEF Types, Common
  <2>. QED  BY <2>1, <2>2
<1>9. \A u \in Thread : \A i \in DOMAIN program'[u] :
         LET o == program'[u][i]
         IN  /\ o.op \in {"create", "registered", "announce", "connect"} => u = "sender"
             /\ o.op = "attach" /\ o.s # None => u = "sender"
  BY <1>8 DEF Common
<1>. QED  BY <1>2, <1>3, <1>4, <1>6, <1>9

LEMMA ProgramStarts ==
  ASSUME Types, NEW t \in Thread, NEW ops \in Seq(Ops),
         t = "sender" \/ \A i \in DOMAIN ops : Common(ops[i]), Start(t, ops)
  PROVE  /\ program' \in [Thread -> Seq(Ops)] /\ program'[t] = ops
         /\ \A u \in Thread \ {t} : program'[u] = program[u]
         /\ \A u \in Thread : \A i \in DOMAIN program'[u] :
               LET o == program'[u][i]
               IN  /\ o.op \in {"create", "registered", "announce", "connect"} => u = "sender"
                   /\ o.op = "attach" /\ o.s # None => u = "sender"
BY DEF Types, Start, Common

LEMMA NoneApart == None \notin Socket /\ None \notin Address
BY ConstantsAssumption DEF Address

LEMMA SenderIsThread == "sender" \in Thread /\ "main" \in Thread /\ Worker \subseteq Thread
BY DEF Thread

\* What no access changes but those that say so.
LEMMA AccessTypes ==
  ASSUME Types, NEW t \in Thread, InfoAccess(t)
  PROVE  Types'
<1>. USE DEF At
<1>. DEFINE o == program[t][1]
<1>1. program[t] # <<>> /\ program[t] \in Seq(Ops) /\ o \in Ops /\ Head(program[t]) = o
  <2>1. program[t] # <<>>
    BY DEF InfoAccess, DoTake, DoNull, DoDrop, DoStatus, DoAttach, DoTrust, DoLocal, DoConfirmable
  <2>. QED  BY <2>1, TailOf DEF Types
<1>2. o \in OpRecord /\ OpOK(o) /\ o.a \in Address /\ o.op \in Names /\ o.s \in Socket \cup {None}
  BY <1>1 DEF Ops, OpRecord
<1>3. <<>> \in Seq(Ops) /\ \A i \in DOMAIN <<>> : Common(<<>>[i])
  OBVIOUS
<1>4. CASE DoTake(t)
  <2>1. CASE sct[o.a] = None
    <3>1. Continue(t, <<>>)
      BY <1>1, <1>4, <2>1 DEF DoTake
    <3>. QED  BY <1>1, <1>3, <1>4, <3>1, ProgramContinues DEF DoTake, Types, FieldTypes, info, sockets, queues, bounds
  <2>2. CASE sct[o.a] # None
    <3>. DEFINE ops == <<Null(o.a, sct[o.a]), Drop(o.a, sct[o.a]), SetStatus(o.a, "NotConnected")>>
    <3>1. Continue(t, ops)
      BY <1>1, <1>4, <2>2 DEF DoTake
    <3>2. ops \in Seq(Ops)
      <4>1. sct[o.a] \in Socket /\ "NotConnected" \in Status
        BY <1>2, <2>2 DEF Status, Types, FieldTypes
      <4>2. /\ Null(o.a, sct[o.a]) \in Ops /\ Drop(o.a, sct[o.a]) \in Ops
            /\ SetStatus(o.a, "NotConnected") \in Ops
        BY <1>2, <4>1, OpsOf
      <4>. QED  BY <4>2, TupleOf
    <3>3. \A i \in DOMAIN ops : Common(ops[i])
      BY DEF Common, Null, Drop, SetStatus, Op, OpValue
    <3>. HIDE DEF ops
    <3>. QED  BY <1>1, <1>4, <3>1, <3>2, <3>3, ProgramContinues DEF DoTake, Types, FieldTypes, info, sockets, queues, bounds
  <2>. QED  BY <2>1, <2>2
<1>5. CASE DoNull(t)
  <2>1. Continue(t, <<>>)
    BY <1>5 DEF DoNull
  <2>. QED  BY <1>1, <1>2, <1>3, <1>5, <2>1, ProgramContinues DEF DoNull, Types, FieldTypes, info, sockets, queues, bounds
<1>6. CASE DoDrop(t)
  <2>1. Continue(t, <<>>)
    BY <1>6 DEF DoDrop
  <2>2. o.s \in Socket
    BY <1>1, <1>2, <1>6 DEF DoDrop, OpOK
  <2>3. Op("deleteLater", None, o.s) \in Jobs
    BY <2>2 DEF Jobs, JobRecord, JobOK, Op
  <2>4. freed' \in BOOLEAN /\ wired' \subseteq Socket
    BY <1>1, <1>6, <2>2 DEF DoDrop, Types, FieldTypes
  <2>5. senderQueue' = senderQueue \/ senderQueue' = Append(senderQueue, Op("deleteLater", None, o.s))
    BY <1>1, <1>6, <2>2 DEF DoDrop
  <2>6. senderQueue' \in Seq(Jobs)
    <3>1. senderQueue \in Seq(Jobs)
      BY DEF Types
    <3>. HIDE DEF o
    <3>. QED  BY <2>3, <2>5, <3>1, AppendOf
  <2>. QED  BY <1>1, <1>3, <1>6, <2>1, <2>4, <2>6, ProgramContinues DEF DoDrop, Types, FieldTypes, info, sockets, queues, bounds
<1>7. CASE DoStatus(t)
  <2>1. Continue(t, <<>>)
    BY <1>7 DEF DoStatus
  <2>2. o.v \in Status
    BY <1>1, <1>2, <1>7 DEF DoStatus, OpOK
  <2>3. mainQueue' \in Seq(Address \X Status) /\ status' \in [Address -> Status]
    BY <1>1, <1>2, <1>7, <2>2 DEF DoStatus, Types, FieldTypes
  <2>. QED  BY <1>1, <1>3, <1>7, <2>1, <2>3, ProgramContinues DEF DoStatus, Types, FieldTypes, info, sockets, queues, bounds
<1>8. CASE DoAttach(t)
  <2>1. sct' \in [Address -> Socket \cup {None}] /\ peerOf' \in [Socket -> Address \cup {None}]
        /\ wired' \subseteq Socket
    <3>1. /\ sct' = [sct EXCEPT ![o.a] = o.s]
          /\ \/ peerOf' = peerOf /\ wired' = wired
             \/ /\ o.s # None
                /\ peerOf' = [peerOf EXCEPT ![o.s] = o.a] /\ wired' = wired \cup {o.s}
      BY <1>1, <1>8 DEF DoAttach
    <3>2. /\ sct \in [Address -> Socket \cup {None}] /\ peerOf \in [Socket -> Address \cup {None}]
          /\ wired \subseteq Socket
      BY DEF Types, FieldTypes
    <3>. HIDE DEF o
    <3>. QED  BY <1>2, <3>1, <3>2
  <2>2. PICK ops \in {<<>>, <<SetStatus(o.a, "Connected")>>} : Continue(t, ops)
    BY <1>1, <1>8 DEF DoAttach
  <2>3. ops \in Seq(Ops)
    <3>1. SetStatus(o.a, "Connected") \in Ops
      BY <1>2, OpsOf DEF Status
    <3>. QED  BY <3>1, TupleOf, EmptySeq
  <2>4. \A i \in DOMAIN ops : Common(ops[i])
    BY DEF Common, SetStatus, OpValue
  <2>. QED  BY <1>1, <1>8, <2>1, <2>2, <2>3, <2>4, ProgramContinues DEF DoAttach, Types, FieldTypes, info, sockets, queues, bounds
<1>9. CASE DoTrust(t)
  <2>1. trust' \in [Address -> Int]
    BY <1>1, <1>2, <1>9 DEF DoTrust, OpOK, Types, FieldTypes
  <2>2. PICK ops \in {<<>>, <<Take(o.a)>>} : Continue(t, ops)
    BY <1>1, <1>9 DEF DoTrust, RemoveSocket
  <2>3. ops \in Seq(Ops)
    <3>1. Take(o.a) \in Ops
      BY <1>2, OpsOf
    <3>. QED  BY <3>1, TupleOf, EmptySeq
  <2>4. \A i \in DOMAIN ops : Common(ops[i])
    BY DEF Common, Take, Op
  <2>. QED  BY <1>1, <1>9, <2>1, <2>2, <2>3, <2>4, ProgramContinues DEF DoTrust, Types, FieldTypes, info, sockets, queues, bounds
<1>10. CASE DoLocal(t)
  <2>1. Continue(t, <<>>)
    BY <1>10 DEF DoLocal
  <2>2. isLocal' \in [Address -> BOOLEAN]
    BY <1>1, <1>2, <1>10 DEF DoLocal, OpOK, Types, FieldTypes
  <2>. QED  BY <1>1, <1>3, <1>10, <2>1, <2>2, ProgramContinues DEF DoLocal, Types, FieldTypes, info, sockets, queues, bounds
<1>11. CASE DoConfirmable(t)
  <2>2. PICK ops \in {<<>>, <<SetStatus(o.a, "Confirmed")>>} : Continue(t, ops)
    BY <1>1, <1>11 DEF DoConfirmable
  <2>3. ops \in Seq(Ops)
    <3>1. SetStatus(o.a, "Confirmed") \in Ops
      BY <1>2, OpsOf DEF Status
    <3>. QED  BY <3>1, TupleOf, EmptySeq
  <2>4. \A i \in DOMAIN ops : Common(ops[i])
    BY DEF Common, SetStatus, OpValue
  <2>. QED  BY <1>1, <1>11, <2>2, <2>3, <2>4, ProgramContinues DEF DoConfirmable, Types, FieldTypes, info, sockets, queues, bounds
<1>. QED  BY <1>4, <1>5, <1>6, <1>7, <1>8, <1>9, <1>10, <1>11 DEF InfoAccess

LEMMA CallTypes ==
  ASSUME Types, NEW t \in Thread, NodeCall(t)
  PROVE  Types'
<1>. USE DEF At
<1>. DEFINE o == program[t][1]
<1>1. program[t] # <<>> /\ program[t] \in Seq(Ops) /\ o \in Ops /\ Head(program[t]) = o
  <2>1. program[t] # <<>>
    BY DEF NodeCall, DoRemove, DoForceRemove, DoBan, DoUnBan, DoSend, DoWrite, DoReadTrust
  <2>. QED  BY <2>1, TailOf DEF Types
<1>2. o \in OpRecord /\ OpOK(o) /\ o.a \in Address /\ o.op \in Names /\ o.s \in Socket \cup {None}
  BY <1>1 DEF Ops, OpRecord
<1>3. <<>> \in Seq(Ops) /\ \A i \in DOMAIN <<>> : Common(<<>>[i])
  OBVIOUS
<1>4. CASE DoRemove(t)
  <2>1. PICK ops \in {<<>>, <<Send(o.a)>>, <<Take(o.a)>>} : Continue(t, ops)
    BY <1>1, <1>4 DEF DoRemove, RemoveSocket
  <2>2. ops \in Seq(Ops)
    <3>1. Send(o.a) \in Ops /\ Take(o.a) \in Ops
      BY <1>2, OpsOf
    <3>. QED  BY <3>1, TupleOf, EmptySeq
  <2>3. \A i \in DOMAIN ops : Common(ops[i])
    BY DEF Common, Send, Take, Op
  <2>4. timers' \subseteq {"confirm", "force"} \X Address
    BY <1>1, <1>2, <1>4 DEF DoRemove, Types, FieldTypes
  <2>. QED  BY <1>1, <1>4, <2>1, <2>2, <2>3, <2>4, ProgramContinues DEF DoRemove, Types, FieldTypes, info, sockets, queues, bounds
<1>5. CASE DoForceRemove(t)
  <2>1. PICK ops \in {<<>>, <<Take(o.a)>>} : Continue(t, ops)
    BY <1>1, <1>5 DEF DoForceRemove, RemoveSocket
  <2>2. ops \in Seq(Ops)
    <3>1. Take(o.a) \in Ops
      BY <1>2, OpsOf
    <3>. QED  BY <3>1, TupleOf, EmptySeq
  <2>3. \A i \in DOMAIN ops : Common(ops[i])
    BY DEF Common, Take, Op
  <2>. QED  BY <1>1, <1>5, <2>1, <2>2, <2>3, ProgramContinues DEF DoForceRemove, Types, FieldTypes, info, sockets, queues, bounds
<1>6. CASE DoBan(t)
  <2>1. PICK ops \in {<<>>, <<SetTrust(o.a, Baned)>>} : Continue(t, ops)
    BY <1>1, <1>6 DEF DoBan
  <2>4. SetTrust(o.a, Baned) \in Ops
    <3>1. Baned \in Int
      BY DEF Baned
    <3>. QED  BY <1>2, <3>1, OpsOf
  <2>2. ops \in Seq(Ops)
    BY <2>1, <2>4, TupleOf
  <2>3. \A i \in DOMAIN ops : Common(ops[i])
    BY DEF Common, SetTrust, OpValue
  <2>. QED  BY <1>1, <1>6, <2>1, <2>2, <2>3, ProgramContinues DEF DoBan, Types, FieldTypes, info, sockets, queues, bounds
<1>7. CASE DoUnBan(t)
  <2>1. Continue(t, <<>>)
    BY <1>7 DEF DoUnBan
  <2>. QED  BY <1>1, <1>3, <1>7, <2>1, ProgramContinues DEF DoUnBan, Types, FieldTypes, info, sockets, queues, bounds
<1>8. CASE DoSend(t)
  <2>1. PICK ops \in {<<>>, <<Write(o.a, sct[o.a])>>} :
          Continue(t, ops) /\ (ops = <<>> \/ sct[o.a] # None)
    BY <1>1, <1>8 DEF DoSend
  <2>2. ops \in Seq(Ops)
    <3>1. CASE sct[o.a] # None
      <4>1. sct[o.a] \in Socket
        BY <1>2, <3>1 DEF Types, FieldTypes
      <4>2. Write(o.a, sct[o.a]) \in Ops
        BY <1>2, <4>1, OpsOf
      <4>. QED  BY <2>1, <4>2, TupleOf
    <3>. QED  BY <1>3, <2>1, <3>1
  <2>3. \A i \in DOMAIN ops : Common(ops[i])
    BY DEF Common, Write, Op
  <2>. QED  BY <1>1, <1>8, <2>1, <2>2, <2>3, ProgramContinues DEF DoSend, Types, FieldTypes, info, sockets, queues, bounds
<1>9. CASE DoWrite(t)
  <2>1. Continue(t, <<>>)
    BY <1>9 DEF DoWrite
  <2>2. o.op = "write" /\ o.s \in Socket /\ o.v = None
    BY <1>1, <1>2, <1>9 DEF DoWrite, OpOK
  <2>3. o \in Jobs
    BY <1>2, <2>2 DEF Jobs, JobRecord, JobOK, OpRecord
  <2>4. senderQueue' \in Seq(Jobs) /\ freed' \in BOOLEAN
    BY <1>1, <1>9, <2>3 DEF DoWrite, Types, FieldTypes
  <2>. QED  BY <1>1, <1>3, <1>9, <2>1, <2>4, ProgramContinues DEF DoWrite, Types, FieldTypes, info, sockets, queues, bounds
<1>10. CASE DoReadTrust(t)
  <2>. DEFINE v == trust[o.a] - o.v
  <2>1. PICK ops \in {<<>>, <<Ban(o.a)>>, <<SetTrust(o.a, v)>>, <<SetTrust(o.a, v), Send(o.a)>>} :
          Continue(t, ops)
    <3>1. /\ <<SetTrust(o.a, v)>> \o <<>> = <<SetTrust(o.a, v)>>
          /\ <<SetTrust(o.a, v)>> \o <<Send(o.a)>> = <<SetTrust(o.a, v), Send(o.a)>>
      BY ConcatOfTuples
    <3>2. CASE o.a \in known /\ trust[o.a] > Baned /\ trust[o.a] < Undefined
      BY <1>1, <1>10, <3>1, <3>2 DEF DoReadTrust
    <3>3. CASE ~(o.a \in known /\ trust[o.a] > Baned /\ trust[o.a] < Undefined)
      BY <1>1, <1>10, <3>3 DEF DoReadTrust
    <3>. QED  BY <3>2, <3>3
  <2>2. v \in Int
    BY <1>1, <1>2, <1>10 DEF DoReadTrust, OpOK, Types, FieldTypes
  <2>. HIDE DEF v
  <2>5. SetTrust(o.a, v) \in Ops /\ Ban(o.a) \in Ops /\ Send(o.a) \in Ops
    BY <1>2, <2>2, OpsOf
  <2>3. ops \in Seq(Ops)
    BY <2>1, <2>5, TupleOf
  <2>4. \A i \in DOMAIN ops : Common(ops[i])
    BY DEF Common, Ban, SetTrust, Send, Op, OpValue
  <2>. QED  BY <1>1, <1>10, <2>1, <2>3, <2>4, ProgramContinues DEF DoReadTrust, Types, FieldTypes, info, sockets, queues, bounds
<1>. QED  BY <1>4, <1>5, <1>6, <1>7, <1>8, <1>9, <1>10 DEF NodeCall

\* registerSocket of a socket that is taken for address a.
RegisterSteps(a, s, b) ==
    {<<>>, <<Create(a, s, b), Announce(a)>>,
     <<Take(a), Attach(a, s), SetLocal(a, b), Registered(a, s)>>}

LEMMA RegisterSocketIs ==
  ASSUME NEW a \in Address, NEW s \in Socket, NEW b \in BOOLEAN
  PROVE  \/ RegisterSocket(a, s, b) = <<>>
         \/ /\ a \notin known
            /\ RegisterSocket(a, s, b) = <<Create(a, s, b), Announce(a)>>
         \/ /\ a \in known
            /\ RegisterSocket(a, s, b)
                 = <<Take(a), Attach(a, s), SetLocal(a, b), Registered(a, s)>>
<1>1. SetSct(a, s) = <<Take(a), Attach(a, s)>>
  BY ConcatOfTuples DEF SetSct, RemoveSocket
<1>2. SetSct(a, s) \o <<SetLocal(a, b), Registered(a, s)>>
        = <<Take(a), Attach(a, s), SetLocal(a, b), Registered(a, s)>>
  BY <1>1, ConcatOfPairs
<1>. QED  BY <1>2 DEF RegisterSocket

LEMMA RegisterSocketSteps ==
  ASSUME NEW a \in Address, NEW s \in Socket, NEW b \in BOOLEAN
  PROVE  /\ RegisterSocket(a, s, b) \in RegisterSteps(a, s, b)
         /\ RegisterSteps(a, s, b) \subseteq Seq(Ops)
<1>1. RegisterSocket(a, s, b) \in RegisterSteps(a, s, b)
  BY RegisterSocketIs DEF RegisterSteps
<1>2. /\ Create(a, s, b) \in Ops /\ Announce(a) \in Ops /\ Take(a) \in Ops
      /\ Attach(a, s) \in Ops /\ SetLocal(a, b) \in Ops /\ Registered(a, s) \in Ops
  BY OpsOf
<1>. QED  BY <1>1, <1>2, TupleOf DEF RegisterSteps

LEMMA RegisterTypes ==
  ASSUME Types, Announced, Register
  PROVE  Types'
<1>. USE DEF At
<1>. DEFINE o == program["sender"][1]
<1>1. program["sender"] # <<>> /\ program["sender"] \in Seq(Ops) /\ o \in Ops
      /\ Head(program["sender"]) = o
  <2>1. program["sender"] # <<>>
    BY DEF Register, DoCreate, DoAnnounce, DoRegistered, DoConnect
  <2>. QED  BY <2>1, TailOf, SenderIsThread DEF Types
<1>2. o \in OpRecord /\ OpOK(o) /\ o.a \in Address /\ o.op \in Names /\ o.s \in Socket \cup {None}
  BY <1>1 DEF Ops, OpRecord
<1>3. <<>> \in Seq(Ops) /\ \A i \in DOMAIN <<>> : Common(<<>>[i])
  OBVIOUS
<1>4. CASE DoCreate
  <2>1. Continue("sender", <<>>)
    BY <1>4 DEF DoCreate
  <2>2. o.s \in Socket /\ o.v \in BOOLEAN
    BY <1>1, <1>2, <1>4 DEF DoCreate, OpOK
  <2>3. /\ known' \subseteq Address /\ sct' \in [Address -> Socket \cup {None}]
        /\ isLocal' \in [Address -> BOOLEAN] /\ peerOf' \in [Socket -> Address \cup {None}]
        /\ wired' \subseteq Socket /\ watched' \subseteq known'
    BY <1>1, <1>2, <1>4, <2>2 DEF DoCreate, Types, FieldTypes
  <2>4. status' \in [Address -> Status]
    BY <1>1, <1>2, <1>4, <2>2 DEF DoCreate, Types, FieldTypes, Status
  <2>. QED  BY <1>1, <1>3, <1>4, <2>1, <2>3, <2>4, ProgramContinues, SenderIsThread
            DEF DoCreate, Types, FieldTypes, queues, bounds
<1>5. CASE DoAnnounce
  <2>1. Continue("sender", <<>>)
    BY <1>5 DEF DoAnnounce
  <2>2. o.a \in known
    BY <1>1, <1>5, TailOf DEF DoAnnounce, Announced
  <2>3. timers' \subseteq {"confirm", "force"} \X Address
    BY <1>1, <1>2, <1>5 DEF DoAnnounce, Types, FieldTypes
  <2>4. /\ program' \in [Thread -> Seq(Ops)]
        /\ \A t \in Thread : \A i \in DOMAIN program'[t] :
              LET x == program'[t][i]
              IN  /\ x.op \in {"create", "registered", "announce", "connect"} => t = "sender"
                  /\ x.op = "attach" /\ x.s # None => t = "sender"
    BY <1>1, <1>3, <2>1, ProgramContinues, SenderIsThread
  <2>5. /\ watched' = watched \cup {o.a}
        /\ UNCHANGED <<node, known, sct, status, trust, isLocal, sock, peerOf, wired, freed,
                       senderQueue, mainQueue, calls, packages, heard>>
    BY <1>1, <1>5 DEF DoAnnounce, sockets, bounds
  <2>6. FieldTypes'
    BY <2>2, <2>3, <2>5 DEF Types, FieldTypes
  <2>. QED  BY <2>4, <2>5, <2>6 DEF Types
<1>6. CASE DoRegistered
  <2>1. o.s \in Socket
    BY <1>1, <1>2, <1>6 DEF DoRegistered, OpOK
  <2>2. CASE sct[o.a] # None
    <3>1. Continue("sender", <<>>) /\ UNCHANGED <<sock, wired>>
      BY <1>1, <1>6, <2>2 DEF DoRegistered
    <3>. QED  BY <1>1, <1>3, <1>6, <3>1, ProgramContinues, SenderIsThread
              DEF DoRegistered, Types, FieldTypes, info, queues, bounds
  <2>3. CASE sct[o.a] = None
    <3>1. Start("sender", <<>>)
      BY <1>1, <1>6, <2>3 DEF DoRegistered
    <3>2. sock' \in [Socket -> {"unused", "created", "connecting", "open", "closed", "deleted"}]
          /\ wired' \subseteq Socket
      BY <1>1, <1>6, <2>1, <2>3 DEF DoRegistered, Types, FieldTypes
    <3>. QED  BY <1>1, <1>3, <1>6, <3>1, <3>2, ProgramStarts, SenderIsThread
              DEF DoRegistered, Types, FieldTypes, info, queues, bounds
  <2>. QED  BY <2>2, <2>3
<1>7. CASE DoConnect
  <2>1. Continue("sender", <<>>)
    BY <1>7 DEF DoConnect
  <2>2. sock' \in [Socket -> {"unused", "created", "connecting", "open", "closed", "deleted"}]
    BY <1>1, <1>7 DEF DoConnect, Types, FieldTypes
  <2>. QED  BY <1>1, <1>3, <1>7, <2>1, <2>2, ProgramContinues, SenderIsThread
            DEF DoConnect, Types, FieldTypes, info, queues, bounds
<1>. QED  BY <1>4, <1>5, <1>6, <1>7 DEF Register

LEMMA MayStartIdle ==
  ASSUME NEW t \in Thread, MayStart(t)
  PROVE  program[t] = <<>>
BY DEF MayStart, Idle

LEMMA ResetSteps ==
  ASSUME NEW a \in Address
  PROVE  /\ Reset(a) = <<Take(a), Attach(a, None), SetTrust(a, DefaultTrust),
                         SetStatus(a, "NotConnected"), SetLocal(a, FALSE)>>
         /\ Reset(a) \in Seq(Ops)
         /\ \A i \in DOMAIN Reset(a) : Common(Reset(a)[i])
<1>1. SetSct(a, None) = <<Take(a), Attach(a, None)>>
  BY ConcatOfTuples DEF SetSct, RemoveSocket
<1>2. Reset(a) = <<Take(a), Attach(a, None), SetTrust(a, DefaultTrust),
                   SetStatus(a, "NotConnected"), SetLocal(a, FALSE)>>
  <2>1. <<Take(a), Attach(a, None)>>
          \o <<SetTrust(a, DefaultTrust), SetStatus(a, "NotConnected"), SetLocal(a, FALSE)>>
        = <<Take(a), Attach(a, None), SetTrust(a, DefaultTrust),
            SetStatus(a, "NotConnected"), SetLocal(a, FALSE)>>
    BY ConcatOfPairAndTriple, Zenon
  <2>. QED  BY <1>1, <2>1, Zenon DEF Reset
<1>3. DefaultTrust \in Int /\ "NotConnected" \in Status
  BY DEF DefaultTrust, Status
<1>4. /\ Take(a) \in Ops /\ Attach(a, None) \in Ops /\ SetTrust(a, DefaultTrust) \in Ops
      /\ SetStatus(a, "NotConnected") \in Ops /\ SetLocal(a, FALSE) \in Ops
  BY <1>3, OpsOf
<1>5. Reset(a) \in Seq(Ops)
  <2>1. \A v, w, x, y, z \in Ops : <<v, w, x, y, z>> \in Seq(Ops)
    BY TupleOf
  <2>2. <<Take(a), Attach(a, None), SetTrust(a, DefaultTrust),
          SetStatus(a, "NotConnected"), SetLocal(a, FALSE)>> \in Seq(Ops)
    BY <1>4, <2>1, Zenon
  <2>. QED  BY <1>2, <2>2, Zenon
<1>6. \A i \in DOMAIN Reset(a) : Common(Reset(a)[i])
  BY <1>2 DEF Common, Take, Attach, SetTrust, SetStatus, SetLocal, Op, OpValue
<1>. QED  BY <1>2, <1>5, <1>6

LEMMA SenderTypes ==
  ASSUME Types, Sender
  PROVE  Types'
<1>. DEFINE j == senderQueue[1]
<1>1. senderQueue # <<>>
  BY DEF Sender, Job, AddNodeJob, IncomingTcpJob, WriteJob, DisconnectedJob, DeleteJob
<1>2. Tail(senderQueue) \in Seq(Jobs) /\ j \in Jobs /\ Head(senderQueue) = j
  BY <1>1, TailOf DEF Types
<1>3. j \in JobRecord /\ JobOK(j) /\ j.a \in Address \cup {None} /\ j.s \in Socket \cup {None}
  BY <1>2 DEF Jobs, JobRecord
<1>4. \A name : Job(name) => program["sender"] = <<>> /\ j.op = name
  BY <1>2, SenderIsThread, MayStartIdle DEF Job
<1>5. CASE AddNodeJob
  <2>1. j.a \in Local /\ j.a \in Address
    BY <1>3, <1>4, <1>5 DEF AddNodeJob, JobOK, Address
  <2>2. PICK s \in NextSocket, ops \in Seq(Ops) :
          sock' = [sock EXCEPT ![s] = IF ops = <<>> THEN "deleted" ELSE "created"]
          /\ Start("sender", ops)
    <3>1. PICK s \in NextSocket :
            LET steps == RegisterSocket(j.a, s, TRUE)
            IN  /\ sock' = [sock EXCEPT ![s] = IF steps = <<>> THEN "deleted" ELSE "created"]
                /\ Start("sender", IF steps = <<>> THEN <<>>
                                   ELSE steps \o <<Op("connect", j.a, s)>>)
      BY <1>2, <1>5 DEF AddNodeJob
    <3>. DEFINE steps == RegisterSocket(j.a, s, TRUE)
                c == <<Op("connect", j.a, s)>>
    <3>2. steps \in Seq(Ops) /\ s \in Socket
      BY <2>1, RegisterSocketSteps DEF NextSocket
    <3>3. c \in Seq(Ops) /\ c # <<>>
      <4>1. Op("connect", j.a, s) \in Ops
        BY <2>1, <3>2, OpsOf
      <4>. QED  BY <4>1, TupleOf
    <3>. HIDE DEF c, steps
    <3>4. steps \o c \in Seq(Ops)
      BY <3>2, <3>3, ConcatProperties
    <3>7. steps # <<>> => steps \o c # <<>>
      BY <3>2, <3>3, ConcatEqualIffEmpty
    <3>5. CASE steps = <<>>
      BY <3>1, <3>2, <3>5 DEF steps
    <3>6. CASE steps # <<>>
      BY <3>1, <3>2, <3>4, <3>6, <3>7 DEF c, steps
    <3>. QED  BY <3>5, <3>6
  <2>3. sock' \in [Socket -> {"unused", "created", "connecting", "open", "closed", "deleted"}]
    BY <2>2 DEF Types, FieldTypes, NextSocket
  <2>. QED  BY <1>2, <1>5, <2>2, <2>3, ProgramStarts, SenderIsThread
            DEF AddNodeJob, Types, FieldTypes, info, bounds
<1>6. CASE IncomingTcpJob
  <2>1. j.a \in Remote /\ j.a \in Address
    BY <1>3, <1>4, <1>6 DEF IncomingTcpJob, JobOK, Address
  <2>2. PICK s \in NextSocket, ops \in Seq(Ops) :
          sock' = [sock EXCEPT ![s] = IF ops = <<>> THEN "deleted" ELSE "open"]
          /\ Start("sender", ops)
    <3>1. PICK s \in NextSocket :
            LET steps == IF IsBanned(j.a) THEN <<>> ELSE RegisterSocket(j.a, s, FALSE)
            IN  /\ sock' = [sock EXCEPT ![s] = IF steps = <<>> THEN "deleted" ELSE "open"]
                /\ Start("sender", steps)
      BY <1>2, <1>6 DEF IncomingTcpJob
    <3>2. RegisterSocket(j.a, s, FALSE) \in Seq(Ops) /\ <<>> \in Seq(Ops)
      <4>1. s \in Socket /\ FALSE \in BOOLEAN
        BY DEF NextSocket
      <4>2. RegisterSocket(j.a, s, FALSE) \in RegisterSteps(j.a, s, FALSE)
            /\ RegisterSteps(j.a, s, FALSE) \subseteq Seq(Ops)
        BY <2>1, <4>1, RegisterSocketSteps
      <4>. QED  BY <4>2, EmptySeq
    <3>3. CASE IsBanned(j.a)
      BY <3>1, <3>2, <3>3
    <3>4. CASE ~IsBanned(j.a)
      BY <3>1, <3>2, <3>4
    <3>. QED  BY <3>3, <3>4
  <2>3. sock' \in [Socket -> {"unused", "created", "connecting", "open", "closed", "deleted"}]
    BY <2>2 DEF Types, FieldTypes, NextSocket
  <2>. QED  BY <1>2, <1>6, <2>2, <2>3, ProgramStarts, SenderIsThread
            DEF IncomingTcpJob, Types, FieldTypes, info, bounds
<1>7. CASE WriteJob
  BY <1>2, <1>7 DEF WriteJob, Types, FieldTypes, info, bounds
<1>8. CASE DisconnectedJob
  <2>1. j.a \in Address
    BY <1>3, <1>4, <1>8 DEF DisconnectedJob, JobOK
  <2>2. <<Take(j.a)>> \in Seq(Ops) /\ \A i \in DOMAIN <<Take(j.a)>> : Common(<<Take(j.a)>>[i])
    BY <2>1, OpsOf, CommonOf, OneStep
  <2>3. Start("sender", <<Take(j.a)>>)
    BY <1>2, <1>8 DEF DisconnectedJob, RemoveSocket
  <2>. QED  BY <1>2, <1>8, <2>2, <2>3, ProgramStarts, SenderIsThread
            DEF DisconnectedJob, Types, FieldTypes, info, sockets, bounds
<1>9. CASE DeleteJob
  <2>1. j.s \in Socket
    BY <1>3, <1>4, <1>9 DEF DeleteJob, JobOK
  <2>2. Op("delete", None, j.s) \in Jobs
    BY <2>1 DEF Jobs, JobRecord, JobOK, Op
  <2>3. Append(Tail(senderQueue), Op("delete", None, j.s)) \in Seq(Jobs)
    BY <1>2, <2>2, AppendOf
  <2>4. senderQueue' \in Seq(Jobs)
    BY <1>2, <1>9, <2>3 DEF DeleteJob
  <2>5. sock' \in [Socket -> {"unused", "created", "connecting", "open", "closed", "deleted"}]
    BY <1>2, <1>9 DEF DeleteJob, Types, FieldTypes
  <2>. QED  BY <1>9, <2>4, <2>5 DEF DeleteJob, Types, FieldTypes, info, bounds
<1>. QED  BY <1>5, <1>6, <1>7, <1>8, <1>9 DEF Sender

LEMMA SocketTypes ==
  ASSUME Types, NEW s \in Socket, SocketConnects(s) \/ ConnectFails(s) \/ PeerCloses(s),
         s \in wired => peerOf[s] \in Address
  PROVE  Types'
<1>1. sock' \in [Socket -> {"unused", "created", "connecting", "open", "closed", "deleted"}]
  BY DEF SocketConnects, ConnectFails, PeerCloses, Types, FieldTypes
<1>2. CASE SocketConnects(s)
  <2>1. PICK ops \in Seq(Ops) : Start("sender", ops)
    <3>1. CASE s \in wired
      <4>1. <<SetStatus(peerOf[s], "Connected")>> \in Seq(Ops)
        <5>1. SetStatus(peerOf[s], "Connected") \in Ops
          BY <3>1, OpsOf DEF Status
        <5>. QED  BY <5>1, TupleOf
      <4>. QED  BY <1>2, <3>1, <4>1 DEF SocketConnects
    <3>2. CASE s \notin wired
      BY <1>2, <3>2, <<>> \in Seq(Ops) DEF SocketConnects
    <3>. QED  BY <3>1, <3>2
  <2>. QED  BY <1>1, <1>2, <2>1, ProgramStarts, SenderIsThread
            DEF SocketConnects, Types, FieldTypes, info, queues, bounds
<1>3. CASE ConnectFails(s)
  BY <1>1, <1>3 DEF ConnectFails, Types, FieldTypes, info, queues, bounds
<1>4. CASE PeerCloses(s)
  <2>1. CASE s \in wired
    <3>1. Op("disconnected", peerOf[s], None) \in Jobs
      BY <2>1 DEF Jobs, JobRecord, JobOK, Op
    <3>2. senderQueue' = Append(senderQueue, Op("disconnected", peerOf[s], None))
      BY <1>4, <2>1 DEF PeerCloses
    <3>3. senderQueue' \in Seq(Jobs)
      BY <3>1, <3>2, AppendOf DEF Types
    <3>. QED  BY <1>1, <1>4, <3>3 DEF PeerCloses, Types, FieldTypes, info, bounds
  <2>2. CASE s \notin wired
    BY <1>1, <1>4, <2>2 DEF PeerCloses, Types, FieldTypes, info, bounds
  <2>. QED  BY <2>1, <2>2
<1>. QED  BY <1>2, <1>3, <1>4

LEMMA MainTypes ==
  ASSUME Types, Main
  PROVE  Types'
<1>1. CASE HandleNodeStatusChanged
  <2>. DEFINE a == mainQueue[1][1]
              st == mainQueue[1][2]
  <2>1. /\ Tail(mainQueue) \in Seq(Address \X Status) /\ Head(mainQueue) = mainQueue[1]
        /\ a \in Address /\ st \in Status
    BY <1>1, TailOf DEF HandleNodeStatusChanged, Types
  <2>2. heard' \in [Address -> Status] /\ mainQueue' \in Seq(Address \X Status)
    BY <1>1, <2>1 DEF HandleNodeStatusChanged, Types, FieldTypes
  <2>3. PICK ops \in {<<>>, Reset(a)} : Start("main", ops)
    BY <1>1, <2>1 DEF HandleNodeStatusChanged
  <2>4. ops \in Seq(Ops) /\ \A i \in DOMAIN ops : Common(ops[i])
    <3>1. <<>> \in Seq(Ops) /\ \A i \in DOMAIN <<>> : Common(<<>>[i])
      OBVIOUS
    <3>2. Reset(a) \in Seq(Ops) /\ \A i \in DOMAIN Reset(a) : Common(Reset(a)[i])
      BY <2>1, ResetSteps
    <3>. QED  BY <2>3, <3>1, <3>2
  <2>. QED  BY <1>1, <2>2, <2>3, <2>4, ProgramStarts, SenderIsThread
            DEF HandleNodeStatusChanged, Types, FieldTypes, info, sockets, bounds
<1>2. ASSUME NEW a \in Address, CheckConfirmendOfNode(a) PROVE Types'
  <2>1. PICK ops \in {<<>>, <<Remove(a)>>} : Start("main", ops)
    BY <1>2 DEF CheckConfirmendOfNode
  <2>2. ops \in Seq(Ops) /\ \A i \in DOMAIN ops : Common(ops[i])
    BY <2>1, OpsOf, CommonOf, OneStep
  <2>. QED  BY <1>2, <2>1, <2>2, ProgramStarts, SenderIsThread
            DEF CheckConfirmendOfNode, Types, FieldTypes, info, sockets, bounds
<1>3. ASSUME NEW a \in Address, ForceTimer(a) PROVE Types'
  <2>1. <<ForceRemove(a)>> \in Seq(Ops)
        /\ \A i \in DOMAIN <<ForceRemove(a)>> : Common(<<ForceRemove(a)>>[i])
    BY OpsOf, CommonOf, OneStep
  <2>. QED  BY <1>3, <2>1, ProgramStarts, SenderIsThread
            DEF ForceTimer, Types, FieldTypes, info, sockets, bounds
<1>. QED  BY <1>1, <1>2, <1>3 DEF Main

LEMMA EnvironmentTypes ==
  ASSUME Types, Environment
  PROVE  Types'
<1>1. ASSUME NEW a \in Address, NEW op \in UserCall, Call(op, a) PROVE Types'
  <2>1. op \in {"remove", "ban", "unBan"}
    BY ConstantsAssumption
  <2>2. Op(op, a, None) \in Ops /\ Common(Op(op, a, None))
    BY <2>1, OpsOf DEF Remove, Ban, UnBan, Common, Op
  <2>3. /\ <<Op(op, a, None)>> \in Seq(Ops)
        /\ \A i \in DOMAIN <<Op(op, a, None)>> : Common(<<Op(op, a, None)>>[i])
    BY <2>2
  <2>4. calls' \in 0 .. MaxCalls
    BY <1>1, ConstantsAssumption DEF Call, Types, FieldTypes
  <2>. QED  BY <1>1, <2>3, <2>4, ProgramStarts, SenderIsThread
            DEF Call, Types, FieldTypes, info, sockets, queues
<1>2. ASSUME NEW a \in Local, AddNode(a) PROVE Types'
  <2>1. Op("addNode", a, None) \in Jobs
    BY DEF Jobs, JobRecord, JobOK, Op, Address
  <2>2. senderQueue' \in Seq(Jobs)
    BY <1>2, <2>1, AppendOf DEF AddNode, Types
  <2>. QED  BY <1>2, <2>2 DEF AddNode, Types, FieldTypes, info, sockets, bounds
<1>3. ASSUME NEW a \in Remote, IncomingConnection(a) PROVE Types'
  <2>1. Op("incomingTcp", a, None) \in Jobs
    BY DEF Jobs, JobRecord, JobOK, Op, Address
  <2>2. senderQueue' \in Seq(Jobs)
    BY <1>3, <2>1, AppendOf DEF IncomingConnection, Types
  <2>. QED  BY <1>3, <2>2 DEF IncomingConnection, Types, FieldTypes, info, sockets, bounds
<1>. QED  BY <1>1, <1>2, <1>3 DEF Environment

LEMMA PackageSteps ==
  ASSUME NEW a \in Address, Types,
         NEW kind \in PackageKind,
         NEW ops \in ParsePackage(a, kind)
  PROVE  /\ \/ ops = <<Confirmable(a)>> \/ ops = <<Remove(a), Confirmable(a)>>
            \/ ops = <<Send(a), Confirmable(a)>>
            \/ \E p \in Penalty : \/ ops = <<ReadTrust(a, p, FALSE)>>
                                  \/ ops = <<ReadTrust(a, p, TRUE)>>
         /\ ops \in Seq(Ops) /\ \A i \in DOMAIN ops : Common(ops[i])
<1>1. \/ ops = <<Confirmable(a)>> \/ ops = <<Remove(a), Confirmable(a)>>
      \/ ops = <<Send(a), Confirmable(a)>>
      \/ \E p \in Penalty : ops = <<ReadTrust(a, p, FALSE)>> \/ ops = <<ReadTrust(a, p, TRUE)>>
  BY ConstantsAssumption DEF ParsePackage
<1>2. \A p \in Penalty : p \in Int
  BY ConstantsAssumption
<1>3. ops \in Seq(Ops)
  <2>1. Confirmable(a) \in Ops /\ Remove(a) \in Ops /\ Send(a) \in Ops
    BY OpsOf
  <2>2. \A p \in Penalty : ReadTrust(a, p, FALSE) \in Ops /\ ReadTrust(a, p, TRUE) \in Ops
    BY <1>2, OpsOf
  <2>. QED  BY <1>1, <2>1, <2>2, TupleOf
<1>4. \A i \in DOMAIN ops : Common(ops[i])
  BY <1>1 DEF Common, Confirmable, Send, Remove, ReadTrust, Op, OpValue
<1>. QED  BY <1>1, <1>3, <1>4

LEMMA PackageTypes ==
  ASSUME Types, Package
  PROVE  Types'
<1>1. PICK t \in Worker, a \in Address,
           kind \in PackageKind :
         NewWork(t, a, kind)
  BY DEF Package
<1>2. PICK ops \in ParsePackage(a, kind) : Start(t, ops)
  BY <1>1 DEF NewWork
<1>3. ops \in Seq(Ops) /\ \A i \in DOMAIN ops : Common(ops[i])
  BY <1>2, PackageSteps
<1>4. packages' \in 0 .. MaxPackages
  BY <1>1, ConstantsAssumption DEF NewWork, Types, FieldTypes
<1>. QED  BY <1>1, <1>2, <1>3, <1>4, ProgramStarts, SenderIsThread
          DEF NewWork, Types, FieldTypes, info, sockets, queues

(***************************************************************************)
(* Most steps leave the life of the sockets alone: what they remove from   *)
(* and put into the program of a thread attaches none.                     *)
(***************************************************************************)
Quiet(o) ==
    /\ o.op \notin {"create", "registered", "announce"}
    /\ o.op = "attach" => o.s = None
    /\ o.s # None => sock[o.s] # "unused"

Harmless(j) ==
    /\ j.s # None => sock[j.s] # "unused"
    /\ j.op \in {"delete", "deleteLater"} =>
          j.s \in Socket /\ peerOf[j.s] # None /\ \A a \in Address : sct[a] # j.s

SockSame ==
    /\ sock' \in [Socket -> {"unused", "created", "connecting", "open", "closed", "deleted"}]
    /\ \A s \in Socket : /\ sock'[s] = "unused" <=> sock[s] = "unused"
                         /\ sock'[s] = "deleted" => sock[s] = "deleted"

QueueSame ==
    \A i \in DOMAIN senderQueue' :
        \/ Harmless(senderQueue'[i])
        \/ \E j \in DOMAIN senderQueue : senderQueue'[i] = senderQueue[j]

\* Thread t puts ops before the rest of its program, of which it has made the
\* first k accesses.
Pops(t, ops, k) ==
    /\ k = 0 => program[t] = <<>>
    /\ k = 1 => program[t] # <<>>
    /\ \A u \in Thread \ {t} : program'[u] = program[u]
    /\ DOMAIN program'[t] = 1 .. Len(ops) + Len(program[t]) - k
    /\ \A i \in 1 .. Len(ops) + Len(program[t]) - k :
          program'[t][i] = IF i <= Len(ops) THEN ops[i] ELSE program[t][i - Len(ops) + k]

LEMMA PopsOf ==
  ASSUME Types, NEW t \in Thread, NEW ops \in Seq(Ops), NEW k \in {0, 1}, Pops(t, ops, k),
         NEW i \in DOMAIN program'[t]
  PROVE  /\ i \in Int
         /\ \/ i \in DOMAIN ops /\ program'[t][i] = ops[i]
            \/ \E j \in DOMAIN program[t] :
                  j > 1 /\ k = 1 /\ i = j + Len(ops) - 1 /\ program'[t][i] = program[t][j]
<1>1. /\ Len(ops) \in Nat /\ DOMAIN ops = 1 .. Len(ops)
      /\ Len(program[t]) \in Nat /\ DOMAIN program[t] = 1 .. Len(program[t])
      /\ (k = 0 => Len(program[t]) = 0)
  BY LenProperties, EmptySeq DEF Types, Pops
<1>2. i \in 1 .. Len(ops) + Len(program[t]) - k
  BY DEF Pops
<1>3. CASE i <= Len(ops)
  BY <1>1, <1>2, <1>3 DEF Pops
<1>4. CASE i > Len(ops)
  <2>1. k = 1
    BY <1>1, <1>2, <1>4
  <2>2. i - Len(ops) + 1 \in DOMAIN program[t] /\ i - Len(ops) + 1 > 1
        /\ i = (i - Len(ops) + 1) + Len(ops) - 1
    BY <1>1, <1>2, <1>4, <2>1
  <2>3. program'[t][i] = program[t][i - Len(ops) + 1]
    <3>1. program'[t][i] = IF i <= Len(ops) THEN ops[i] ELSE program[t][i - Len(ops) + k]
      BY <1>2 DEF Pops
    <3>2. ~(i <= Len(ops))
      BY <1>1, <1>2, <1>4
    <3>. QED  BY <2>1, <3>1, <3>2
  <2>. QED  BY <1>1, <1>2, <2>1, <2>2, <2>3
<1>. QED  BY <1>1, <1>2, <1>3, <1>4

LEMMA QuietStep ==
  ASSUME Types, Life, NEW t \in Thread, NEW ops \in Seq(Ops), NEW k \in {0, 1},
         Pops(t, ops, k),
         \A i \in DOMAIN ops : Quiet(ops[i]),
         k = 1 => /\ program[t][1].op # "create"
                  /\ program[t][1].op = "attach" => program[t][1].s = None,
         known' = known, peerOf' = peerOf, wired' \subseteq wired, SockSame, QueueSame,
         \A a \in Address : sct'[a] = sct[a] \/ sct'[a] = None,
         Dropped'
  PROVE  Life'
<1>. DEFINE n == Len(ops)
            p == program[t]
            q == program'[t]
<1>1. /\ n \in Nat
      /\ Len(p) \in Nat /\ DOMAIN p = 1 .. Len(p) /\ (k = 1 => Len(p) # 0) /\ (k = 0 => Len(p) = 0)
      /\ \A i \in 1 .. Len(p) : p[i] \in Ops
      /\ \A u \in Thread \ {t} : program'[u] = program[u]
  BY LenProperties, ElementOfSeq, EmptySeq DEF Types, Pops
<1>2. \A i \in DOMAIN q :
         /\ i \in Int
         /\ \/ Quiet(q[i])
            \/ \E j \in DOMAIN p : j > 1 /\ k = 1 /\ i = j + n - 1 /\ q[i] = p[j]
  BY PopsOf
<1>13. \A j \in DOMAIN p : j > 1 /\ k = 1 => j + n - 1 \in DOMAIN q /\ q[j + n - 1] = p[j]
  <2>. SUFFICES ASSUME NEW j \in DOMAIN p, j > 1, k = 1
                PROVE  j + n - 1 \in DOMAIN q /\ q[j + n - 1] = p[j]
    OBVIOUS
  <2>1. j + n - 1 \in 1 .. n + Len(p) - 1 /\ j + n - 1 > n /\ (j + n - 1) - n + 1 = j
    BY <1>1
  <2>. DEFINE i == j + n - 1
  <2>2. /\ DOMAIN q = 1 .. n + Len(p) - 1
        /\ \A m \in 1 .. n + Len(p) - 1 : q[m] = IF m <= n THEN ops[m] ELSE p[m - n + 1]
    BY DEF Pops
  <2>3. i \in 1 .. n + Len(p) - 1 /\ ~(i <= n) /\ i - n + 1 = j
    BY <1>1, <2>1
  <2>. HIDE DEF i, n, p, q
  <2>4. i \in DOMAIN q /\ q[i] = p[i - n + 1]
    BY <2>2, <2>3
  <2>. QED  BY <2>3, <2>4 DEF i
<1>. HIDE DEF q
<1>3. Untouched'
  <2>. SUFFICES ASSUME NEW s \in Socket, sock[s] = "unused"
                PROVE  /\ peerOf[s] = None
                       /\ \A u \in Thread : \A i \in DOMAIN program'[u] : program'[u][i].s # s
                       /\ \A i \in DOMAIN senderQueue' : senderQueue'[i].s # s
    BY DEF SockSame, Untouched
  <2>1. peerOf[s] = None /\ s # None
    BY NoneApart DEF Life, Untouched
  <2>2. \A i \in DOMAIN senderQueue' : senderQueue'[i].s # s
    BY <2>1 DEF Life, Untouched, QueueSame, Harmless
  <2>3. \A i \in DOMAIN q : q[i].s # s
    BY <1>1, <1>2, <2>1 DEF Life, Untouched, Quiet
  <2>4. \A u \in Thread \ {t} : \A i \in DOMAIN program'[u] : program'[u][i].s # s
    BY <1>1 DEF Life, Untouched
  <2>. QED  BY <2>2, <2>3, <2>1, <2>4 DEF q
<1>4. Pointed'
  BY DEF Life, Pointed, SockSame, Types, FieldTypes
<1>5. AttachedOnce'
  <2>. SUFFICES ASSUME NEW s \in Socket, NEW i \in DOMAIN program'["sender"],
                       Attaches(program'["sender"][i], s)
                PROVE  /\ peerOf[s] = None /\ sock[s] # "deleted"
                       /\ \A j \in DOMAIN program'["sender"] :
                             Attaches(program'["sender"][j], s) => j = i
    BY DEF AttachedOnce, SockSame, Attaches
  <2>1. CASE t # "sender"
    BY <1>1, <2>1, SenderIsThread DEF Life, AttachedOnce
  <2>2. CASE t = "sender"
    <3>1. \A j \in DOMAIN q : Attaches(q[j], s) =>
             \E m \in DOMAIN p : j = m + n - 1 /\ Attaches(p[m], s)
      BY <1>2, NoneApart DEF Attaches, Quiet
    <3>2. PICK m \in DOMAIN p : i = m + n - 1 /\ Attaches(p[m], s)
      BY <2>2, <3>1 DEF q
    <3>3. peerOf[s] = None /\ sock[s] # "deleted"
          /\ \A j \in DOMAIN p : Attaches(p[j], s) => j = m
      BY <2>2, <3>2 DEF Life, AttachedOnce
    <3>4. ASSUME NEW j \in DOMAIN q, Attaches(q[j], s)
          PROVE  j = i
      BY <3>1, <3>2, <3>3, <3>4
    <3>5. q = program'["sender"]
      BY <2>2 DEF q
    <3>. QED  BY <3>3, <3>4, <3>5
  <2>. QED  BY <2>1, <2>2
<1>8. Unpointed'
  <2>. SUFFICES ASSUME NEW i \in DOMAIN senderQueue',
                       senderQueue'[i].op \in {"delete", "deleteLater"}
                PROVE  /\ peerOf[senderQueue'[i].s] # None
                       /\ \A a \in Address : sct'[a] # senderQueue'[i].s
    BY DEF Unpointed
  <2>1. CASE Harmless(senderQueue'[i])
    BY <2>1, NoneApart DEF Harmless
  <2>2. ASSUME NEW j \in DOMAIN senderQueue, senderQueue'[i] = senderQueue[j]
        PROVE  /\ peerOf[senderQueue'[i].s] # None
               /\ \A a \in Address : sct'[a] # senderQueue'[i].s
    <3>1. senderQueue[j].s \in Socket
      BY <2>2, ElementOfSeq DEF Types, Jobs, JobRecord, JobOK
    <3>. QED  BY <2>2, <3>1, NoneApart DEF Life, Unpointed
  <2>. QED  BY <2>1, <2>2 DEF QueueSame
<1>9. Registering'
  <2>. SUFFICES ASSUME NEW i \in DOMAIN program'["sender"],
                       program'["sender"][i].op = "registered"
                PROVE  LET o == program'["sender"][i]
                       IN  /\ \A j \in DOMAIN program'["sender"] :
                                 Attaches(program'["sender"][j], o.s) => j < i
                           /\ \/ peerOf[o.s] = o.a
                              \/ \E j \in 1 .. i - 1 : program'["sender"][j] = Attach(o.a, o.s)
    BY DEF Registering, Attaches, Attach, Op
  <2>1. CASE t # "sender"
    BY <1>1, <2>1, SenderIsThread DEF Life, Registering
  <2>2. CASE t = "sender"
    <3>0. q = program'["sender"] /\ i \in DOMAIN q /\ q[i].op = "registered"
      BY <2>2 DEF q
    <3>1. PICK m \in DOMAIN p : m > 1 /\ k = 1 /\ i = m + n - 1 /\ q[i] = p[m]
      BY <1>2, <3>0 DEF Quiet
    <3>. DEFINE o == p[m]
    <3>2. o.s \in Socket /\ o.op = "registered"
      BY <1>1, <3>0, <3>1 DEF Ops, OpOK
    <3>3. /\ \A j \in DOMAIN p : Attaches(p[j], o.s) => j < m
          /\ \/ peerOf[o.s] = o.a
             \/ \E j \in 1 .. m - 1 : p[j] = Attach(o.a, o.s)
      BY <2>2, <3>2 DEF Life, Registering
    <3>4. ASSUME NEW j \in DOMAIN q, Attaches(q[j], o.s) PROVE j < i
      <4>1. PICK l \in DOMAIN p : j = l + n - 1 /\ Attaches(p[l], o.s)
        BY <1>2, <3>2, <3>4, NoneApart DEF Attaches, Quiet
      <4>. QED  BY <1>1, <3>1, <3>3, <4>1
    <3>5. ASSUME NEW j \in 1 .. m - 1, p[j] = Attach(o.a, o.s)
          PROVE  \E l \in 1 .. i - 1 : q[l] = Attach(o.a, o.s)
      <4>1. j # 1
        <5>1. Attach(o.a, o.s).op = "attach" /\ Attach(o.a, o.s).s = o.s
          BY DEF Attach, Op
        <5>. QED  BY <3>1, <3>2, <3>5, <5>1, NoneApart
      <4>2. j + n - 1 \in 1 .. i - 1 /\ j \in DOMAIN p /\ j > 1
        BY <1>1, <3>1, <4>1
      <4>3. q[j + n - 1] = p[j]
        BY <1>13, <3>1, <4>2
      <4>. QED  BY <3>5, <4>2, <4>3
    <3>. QED  BY <3>0, <3>1, <3>3, <3>4, <3>5
  <2>. QED  BY <2>1, <2>2
<1>10. Wired'
  BY DEF Life, Wired
<1>11. Announced'
  <2>1. CASE t # "sender"
    BY <1>1, <2>1, SenderIsThread DEF Life, Announced
  <2>2. CASE t = "sender"
    <3>1. \A i \in DOMAIN q : q[i].op # "announce"
      <4>1. \A i \in DOMAIN p : p[i].op = "announce" => i = 1 \/ p[1].op = "create"
        BY <2>2 DEF Life, Announced
      <4>2. \A i \in DOMAIN p : k = 1 /\ p[i].op = "announce" => i = 1
        BY <4>1
      <4>. QED  BY <1>2, <4>2 DEF Quiet
    <3>. QED  BY <2>2, <3>1 DEF Announced, q
  <2>. QED  BY <2>1, <2>2
<1>. QED  BY <1>3, <1>4, <1>5, <1>8, <1>9, <1>10, <1>11 DEF Life

(***************************************************************************)
(* What may follow an access in the program of its thread.                 *)
(***************************************************************************)
Follows(o, ops) ==
    \/ /\ o.op \in {"take", "null", "drop", "status", "attach", "trust", "local",
                    "confirmable", "remove", "force", "ban", "unBan", "send", "write",
                    "readTrust", "requestTrust"}
       /\ ops = <<>>
       /\ o.op = "take" => sct[o.a] = None
       /\ o.op = "attach" /\ o.s # None => sock[o.s] # "open"
    \/ /\ o.op = "take" /\ sct[o.a] # None
       /\ ops = <<Null(o.a, sct[o.a]), Drop(o.a, sct[o.a]), SetStatus(o.a, "NotConnected")>>
    \/ /\ o.op = "attach" /\ o.s # None /\ sock[o.s] = "open"
       /\ ops = <<SetStatus(o.a, "Connected")>>
    \/ /\ o.op = "confirmable" /\ status[o.a] # "NotConnected"
       /\ ops = <<SetStatus(o.a, "Confirmed")>>
    \/ o.op \in {"trust", "remove", "force"} /\ ops = <<Take(o.a)>>
    \/ o.op = "remove" /\ ops = <<Send(o.a)>>
    \/ o.op = "send" /\ sct[o.a] # None /\ ops = <<Write(o.a, sct[o.a])>>
    \/ o.op = "ban" /\ ops = <<SetTrust(o.a, Baned)>>
    \/ o.op = "requestTrust" /\ ops = <<Ban(o.a)>>
    \/ /\ o.op \in {"readTrust", "requestTrust"}
       /\ \E v \in Int : ops = <<SetTrust(o.a, v)>> \/ ops = <<SetTrust(o.a, v), Send(o.a)>>

LEMMA AccessFollows ==
  ASSUME Types, NEW t \in Thread, Access(t)
  PROVE  /\ program[t] # <<>> /\ Head(program[t]) = program[t][1] /\ program[t][1] \in Ops
         /\ program[t][1].a \in Address /\ program[t][1].s \in Socket \cup {None}
         /\ \E ops : Continue(t, ops) /\ Follows(program[t][1], ops)
<1>. USE DEF At
<1>. DEFINE o == program[t][1]
<1>1. program[t] # <<>>
  BY DEF Access, InfoAccess, NodeCall, DoTake, DoNull, DoDrop, DoStatus, DoAttach, DoTrust, DoLocal,
     DoConfirmable, DoRemove, DoForceRemove, DoBan, DoUnBan, DoSend, DoWrite, DoReadTrust
<1>2. o \in Ops /\ Head(program[t]) = o
  BY <1>1, TailOf DEF Types
<1>3. o \in OpRecord /\ OpOK(o) /\ o.a \in Address /\ o.op \in Names /\ o.s \in Socket \cup {None}
  BY <1>2 DEF Ops, OpRecord
<1>. SUFFICES \E ops : Continue(t, ops) /\ Follows(o, ops)
  BY <1>1, <1>2, <1>3
<1>4. CASE DoTake(t)
  BY <1>2, <1>4 DEF DoTake, Follows
<1>5. CASE DoNull(t) \/ DoDrop(t) \/ DoStatus(t) \/ DoLocal(t) \/ DoUnBan(t) \/ DoWrite(t)
  <2>1. Continue(t, <<>>)
    BY <1>5 DEF DoNull, DoDrop, DoStatus, DoLocal, DoUnBan, DoWrite
  <2>2. o.op \in {"null", "drop", "status", "local", "unBan", "write"}
    BY <1>2, <1>5 DEF DoNull, DoDrop, DoStatus, DoLocal, DoUnBan, DoWrite
  <2>. QED  BY <2>1, <2>2 DEF Follows
<1>6. CASE DoAttach(t)
  BY <1>2, <1>6 DEF DoAttach, Follows
<1>7. CASE DoTrust(t)
  BY <1>2, <1>7 DEF DoTrust, RemoveSocket, Follows
<1>8. CASE DoConfirmable(t)
  BY <1>2, <1>8 DEF DoConfirmable, Follows
<1>9. CASE DoRemove(t)
  BY <1>2, <1>9 DEF DoRemove, RemoveSocket, Follows
<1>10. CASE DoForceRemove(t)
  BY <1>2, <1>10 DEF DoForceRemove, RemoveSocket, Follows
<1>11. CASE DoBan(t)
  BY <1>2, <1>11 DEF DoBan, Follows
<1>12. CASE DoSend(t)
  BY <1>2, <1>12 DEF DoSend, Follows
<1>13. CASE DoReadTrust(t)
  <2>. DEFINE v == trust[o.a] - o.v
  <2>1. v \in Int
    BY <1>2, <1>3, <1>13 DEF DoReadTrust, OpOK, Types, FieldTypes
  <2>2. o.op \in {"readTrust", "requestTrust"}
    BY <1>2, <1>13 DEF DoReadTrust
  <2>3. /\ <<SetTrust(o.a, v)>> \o <<>> = <<SetTrust(o.a, v)>>
        /\ <<SetTrust(o.a, v)>> \o <<Send(o.a)>> = <<SetTrust(o.a, v), Send(o.a)>>
    BY ConcatOfTuples
  <2>4. CASE o.a \in known /\ trust[o.a] > Baned /\ trust[o.a] < Undefined
    <3>1. \/ Continue(t, <<SetTrust(o.a, v)>>) \/ Continue(t, <<SetTrust(o.a, v), Send(o.a)>>)
      BY <1>2, <1>13, <2>3, <2>4 DEF DoReadTrust
    <3>. HIDE DEF v
    <3>. QED  BY <2>1, <2>2, <3>1 DEF Follows
  <2>5. CASE ~(o.a \in known /\ trust[o.a] > Baned /\ trust[o.a] < Undefined)
    <3>1. CASE o.op = "requestTrust"
      <4>1. Continue(t, <<Ban(o.a)>>)
        BY <1>2, <1>13, <2>5, <3>1 DEF DoReadTrust
      <4>. QED  BY <3>1, <4>1 DEF Follows
    <3>2. CASE o.op = "readTrust"
      <4>1. Continue(t, <<>>)
        BY <1>2, <1>13, <2>5, <3>2 DEF DoReadTrust
      <4>. QED  BY <3>2, <4>1 DEF Follows
    <3>. QED  BY <2>2, <3>1, <3>2
  <2>. QED  BY <2>4, <2>5
<1>. QED  BY <1>4, <1>5, <1>6, <1>7, <1>8, <1>9, <1>10, <1>11, <1>12, <1>13
          DEF Access, InfoAccess, NodeCall

LEMMA FollowsOps ==
  ASSUME Types, NEW o \in Ops, o.a \in Address, NEW ops, Follows(o, ops)
  PROVE  ops \in Seq(Ops) /\ \A i \in DOMAIN ops : Common(ops[i])
<1>. USE DEF Common, Op, OpValue
<1>1. CASE ops = <<>>
  BY <1>1
<1>2. CASE sct[o.a] # None /\ ops = <<Null(o.a, sct[o.a]), Drop(o.a, sct[o.a]),
                                      SetStatus(o.a, "NotConnected")>>
  <2>1. Null(o.a, sct[o.a]) \in Ops /\ Drop(o.a, sct[o.a]) \in Ops
        /\ SetStatus(o.a, "NotConnected") \in Ops
    <3>1. sct[o.a] \in Socket /\ "NotConnected" \in Status
      BY <1>2 DEF Types, FieldTypes, Status
    <3>. QED  BY <3>1, OpsOf
  <2>2. ops \in Seq(Ops)
    BY <1>2, <2>1, TupleOf
  <2>. QED  BY <1>2, <2>2 DEF Null, Drop, SetStatus
<1>3. ASSUME NEW st \in Status, ops = <<SetStatus(o.a, st)>>
      PROVE  ops \in Seq(Ops) /\ \A i \in DOMAIN ops : Common(ops[i])
  <2>1. SetStatus(o.a, st) \in Ops /\ Common(SetStatus(o.a, st))
    BY OpsOf DEF SetStatus
  <2>. QED  BY <1>3, <2>1, OneStep
<1>4. CASE ops = <<Take(o.a)>>
  BY <1>4, OpsOf, CommonOf, OneStep
<1>5. CASE ops = <<Send(o.a)>>
  <2>1. Send(o.a) \in Ops /\ Common(Send(o.a))
    BY OpsOf DEF Send
  <2>. QED  BY <1>5, <2>1, OneStep
<1>6. CASE sct[o.a] # None /\ ops = <<Write(o.a, sct[o.a])>>
  <2>1. sct[o.a] \in Socket
    BY <1>6 DEF Types, FieldTypes
  <2>2. Write(o.a, sct[o.a]) \in Ops /\ Common(Write(o.a, sct[o.a]))
    BY <2>1, OpsOf DEF Write
  <2>. QED  BY <1>6, <2>2, OneStep
<1>7. CASE ops = <<Ban(o.a)>>
  <2>1. Ban(o.a) \in Ops /\ Common(Ban(o.a))
    BY OpsOf DEF Ban
  <2>. QED  BY <1>7, <2>1, OneStep
<1>8. ASSUME NEW v \in Int, ops = <<SetTrust(o.a, v)>> \/ ops = <<SetTrust(o.a, v), Send(o.a)>>
      PROVE  ops \in Seq(Ops) /\ \A i \in DOMAIN ops : Common(ops[i])
  <2>1. /\ SetTrust(o.a, v) \in Ops /\ Common(SetTrust(o.a, v))
        /\ Send(o.a) \in Ops /\ Common(Send(o.a))
    BY OpsOf DEF Send, SetTrust
  <2>2. ops \in Seq(Ops)
    BY <1>8, <2>1, TupleOf
  <2>. QED  BY <1>8, <2>1, <2>2
<1>9. "NotConnected" \in Status /\ "Connected" \in Status /\ "Confirmed" \in Status /\ Baned \in Int
  BY DEF Status, Baned
<1>10. /\ ops = <<SetStatus(o.a, "Connected")>> => ops \in Seq(Ops) /\ \A i \in DOMAIN ops : Common(ops[i])
       /\ ops = <<SetStatus(o.a, "Confirmed")>> => ops \in Seq(Ops) /\ \A i \in DOMAIN ops : Common(ops[i])
       /\ ops = <<SetTrust(o.a, Baned)>> => ops \in Seq(Ops) /\ \A i \in DOMAIN ops : Common(ops[i])
  BY <1>3, <1>8, <1>9
<1>. QED  BY <1>1, <1>2, <1>4, <1>5, <1>6, <1>7, <1>8, <1>10 DEF Follows

LEMMA FollowsQuiet ==
  ASSUME Types, Life, NEW o \in Ops, o.a \in Address, NEW ops, Follows(o, ops), o.op # "take"
  PROVE  \A i \in DOMAIN ops : Quiet(ops[i])
<1>1. CASE sct[o.a] # None /\ ops = <<Write(o.a, sct[o.a])>>
  <2>1. sock[sct[o.a]] # "unused"
    BY <1>1, NoneApart DEF Types, FieldTypes, Life, Untouched, Pointed
  <2>. QED  BY <1>1, <2>1 DEF Quiet, Write, Op
<1>2. CASE ops = <<>>
  BY <1>2
<1>3. CASE \/ ops = <<SetStatus(o.a, "Connected")>> \/ ops = <<SetStatus(o.a, "Confirmed")>>
           \/ ops = <<Take(o.a)>> \/ ops = <<Send(o.a)>> \/ ops = <<Ban(o.a)>>
           \/ ops = <<SetTrust(o.a, Baned)>>
  BY <1>3 DEF Quiet, SetStatus, Take, Send, Ban, SetTrust, Op, OpValue
<1>4. ASSUME NEW v \in Int, ops = <<SetTrust(o.a, v)>> \/ ops = <<SetTrust(o.a, v), Send(o.a)>>
      PROVE  \A i \in DOMAIN ops : Quiet(ops[i])
  BY <1>4 DEF Quiet, Send, SetTrust, Op, OpValue
<1>. DEFINE G == \A i \in DOMAIN ops : Quiet(ops[i])
<1>5. /\ ops = <<>> => G
      /\ ops = <<SetStatus(o.a, "Connected")>> => G
      /\ ops = <<SetStatus(o.a, "Confirmed")>> => G
      /\ ops = <<Take(o.a)>> => G
      /\ ops = <<Send(o.a)>> => G
      /\ ops = <<Ban(o.a)>> => G
      /\ ops = <<SetTrust(o.a, Baned)>> => G
      /\ sct[o.a] # None /\ ops = <<Write(o.a, sct[o.a])>> => G
      /\ (\E v \in Int : ops = <<SetTrust(o.a, v)>> \/ ops = <<SetTrust(o.a, v), Send(o.a)>>) => G
  BY <1>1, <1>2, <1>3, <1>4
<1>. HIDE DEF G
<1>6. G
  BY <1>5 DEF Follows
<1>. QED  BY <1>6 DEF G

LEMMA ContinuePops ==
  ASSUME Types, NEW t \in Thread, program[t] # <<>>, NEW ops \in Seq(Ops),
         t = "sender" \/ \A i \in DOMAIN ops : Common(ops[i]), Continue(t, ops)
  PROVE  Pops(t, ops, 1)
BY ProgramContinues DEF Pops

LEMMA StartPops ==
  ASSUME Types, NEW t \in Thread, program[t] = <<>>, NEW ops \in Seq(Ops),
         t = "sender" \/ \A i \in DOMAIN ops : Common(ops[i]), Start(t, ops)
  PROVE  Pops(t, ops, 0)
<1>1. /\ program'[t] = ops /\ \A u \in Thread \ {t} : program'[u] = program[u]
  BY ProgramStarts
<1>2. Len(ops) \in Nat /\ DOMAIN ops = 1 .. Len(ops) /\ Len(program[t]) = 0
  BY LenProperties, EmptySeq
<1>. QED  BY <1>1, <1>2 DEF Pops

LEMMA DroppedKept ==
  ASSUME Types, Life, NEW t \in Thread, NEW ops \in Seq(Ops), NEW k \in {0, 1},
         Pops(t, ops, k),
         \A i \in DOMAIN ops : ops[i].op # "drop",
         k = 1 => program[t][1].op \notin {"drop", "null"},
         peerOf' = peerOf,
         \A a \in Address : sct'[a] = sct[a] \/ sct'[a] = None
  PROVE  Dropped'
<1>. DEFINE n == Len(ops)
            p == program[t]
            q == program'[t]
<1>1. /\ Len(p) \in Nat /\ DOMAIN p = 1 .. Len(p) /\ (k = 1 => Len(p) # 0) /\ (k = 0 => Len(p) = 0)
      /\ \A u \in Thread \ {t} : program'[u] = program[u]
  BY LenProperties, ElementOfSeq, EmptySeq DEF Types, Pops
<1>2. \A i \in DOMAIN q :
         \/ i \in DOMAIN ops /\ q[i] = ops[i]
         \/ \E j \in DOMAIN p : j > 1 /\ k = 1 /\ i = j + n - 1 /\ q[i] = p[j]
  BY PopsOf
<1>. HIDE DEF q
<1>3. \A i \in DOMAIN p : p[i].op # "drop"
  <2>. SUFFICES ASSUME NEW i \in DOMAIN p, p[i].op = "drop" PROVE FALSE
    OBVIOUS
  <2>1. i = 1 \/ p[1] = Null(p[i].a, p[i].s)
    BY DEF Life, Dropped
  <2>2. p[1].op \in {"drop", "null"}
    BY <2>1 DEF Null, Op
  <2>. QED  BY <1>1, <2>2
<1>. SUFFICES ASSUME NEW u \in Thread, NEW i \in DOMAIN program'[u],
                     program'[u][i].op = "drop"
              PROVE  LET o == program'[u][i]
                     IN  /\ peerOf[o.s] = o.a
                         /\ \/ i = 1 /\ sct'[o.a] # o.s
                            \/ i = 2 /\ program'[u][1] = Null(o.a, o.s)
  BY DEF Dropped
<1>4. u # t
  <2>1. \A m \in DOMAIN q : q[m].op # "drop"
    BY <1>2, <1>3
  <2>. QED  BY <2>1 DEF q
<1>5. program'[u] = program[u] /\ program[u][i] \in Ops
  BY <1>1, <1>4, ElementOfSeq DEF Types
<1>6. program[u][i].s \in Socket /\ program[u][i].a \in Address
  BY <1>5 DEF Ops, OpRecord, OpOK
<1>. QED  BY <1>5, <1>6, NoneApart DEF Life, Dropped

LEMMA SockKept ==
  ASSUME Types, sock' = sock
  PROVE  SockSame
BY DEF SockSame, Types, FieldTypes

LEMMA QueueKept ==
  ASSUME Types, senderQueue' = senderQueue
  PROVE  QueueSame
BY DEF QueueSame

LEMMA QueueGrows ==
  ASSUME Types, NEW j \in Jobs, Harmless(j), senderQueue' = Append(senderQueue, j)
  PROVE  QueueSame
<1>1. senderQueue \in Seq(Jobs)
  BY DEF Types
<1>2. /\ Len(senderQueue) \in Nat /\ DOMAIN senderQueue = 1 .. Len(senderQueue)
      /\ DOMAIN senderQueue' = 1 .. Len(senderQueue) + 1
      /\ \A i \in 1 .. Len(senderQueue) + 1 :
            senderQueue'[i] = IF i <= Len(senderQueue) THEN senderQueue[i] ELSE j
  BY <1>1, AppendOf
<1>3. ASSUME NEW i \in DOMAIN senderQueue'
      PROVE  Harmless(senderQueue'[i]) \/ \E m \in DOMAIN senderQueue : senderQueue'[i] = senderQueue[m]
  <2>1. CASE i <= Len(senderQueue)
    BY <1>2, <1>3, <2>1
  <2>2. CASE ~(i <= Len(senderQueue))
    BY <1>2, <1>3, <2>2
  <2>. QED  BY <2>1, <2>2
<1>. QED  BY <1>3 DEF QueueSame

LEMMA QueueShrinks ==
  ASSUME Types, senderQueue # <<>>, senderQueue' = Tail(senderQueue)
  PROVE  QueueSame
<1>1. senderQueue \in Seq(Jobs)
  BY DEF Types
<1>2. /\ Len(senderQueue) \in Nat \ {0} /\ DOMAIN senderQueue = 1 .. Len(senderQueue)
      /\ DOMAIN senderQueue' = 1 .. Len(senderQueue) - 1
      /\ \A i \in 1 .. Len(senderQueue) - 1 : senderQueue'[i] = senderQueue[i + 1]
  BY <1>1, TailOf
<1>. QED  BY <1>2 DEF QueueSame

\* The access at the head of a program, and what follows it.
LEMMA AccessPops ==
  ASSUME Types, NEW t \in Thread, Access(t)
  PROVE  LET o == program[t][1]
         IN  /\ program[t] # <<>> /\ Head(program[t]) = o /\ o \in Ops
             /\ o.a \in Address /\ o.s \in Socket \cup {None} /\ OpOK(o)
             /\ 1 \in DOMAIN program[t]
             /\ \E ops \in Seq(Ops) : Pops(t, ops, 1) /\ Follows(o, ops)
<1>. DEFINE o == program[t][1]
<1>1. program[t] # <<>> /\ Head(program[t]) = o /\ o \in Ops /\ o.a \in Address
      /\ o.s \in Socket \cup {None} /\ OpOK(o)
  BY AccessFollows DEF Ops
<1>2. PICK ops : Continue(t, ops) /\ Follows(o, ops)
  BY AccessFollows
<1>. HIDE DEF o
<1>3. ops \in Seq(Ops) /\ \A i \in DOMAIN ops : Common(ops[i])
  BY <1>1, <1>2, FollowsOps
<1>4. Pops(t, ops, 1)
  BY <1>1, <1>2, <1>3, ContinuePops
<1>5. 1 \in DOMAIN program[t]
  BY <1>1, TailOf DEF Types
<1>. QED  BY <1>1, <1>2, <1>3, <1>4, <1>5 DEF o

LEMMA QuietAccess ==
  ASSUME Types, Life, NEW t \in Thread, Access(t),
         program[t][1].op \notin {"take", "null", "drop"},
         program[t][1].op = "attach" => program[t][1].s = None
  PROVE  Life'
<1>. DEFINE o == program[t][1]
<1>1. /\ program[t] # <<>> /\ Head(program[t]) = o /\ o \in Ops
      /\ o.a \in Address /\ o.s \in Socket \cup {None} /\ OpOK(o) /\ 1 \in DOMAIN program[t]
  BY AccessPops
<1>2. PICK ops \in Seq(Ops) : Pops(t, ops, 1) /\ Follows(o, ops)
  BY AccessPops
<1>3. \A i \in DOMAIN ops : Quiet(ops[i])
  BY <1>1, <1>2, FollowsQuiet
<1>4. /\ known' = known /\ peerOf' = peerOf /\ wired' = wired /\ sock' = sock
      /\ \A a \in Address : sct'[a] = sct[a] \/ sct'[a] = None
      /\ o.op # "create"
      /\ \/ senderQueue' = senderQueue
         \/ o.op = "write" /\ senderQueue' = Append(senderQueue, o)
  <2>1. CASE DoAttach(t)
    <3>1. o.op = "attach" /\ o.s = None
      BY <1>1, <2>1 DEF DoAttach, At
    <3>2. sct' = [sct EXCEPT ![o.a] = None] /\ UNCHANGED <<peerOf, wired, known, sock, queues>>
      BY <1>1, <2>1, <3>1 DEF DoAttach
    <3>. QED  BY <3>1, <3>2 DEF queues, Types, FieldTypes
  <2>2. CASE DoStatus(t)
    BY <1>1, <2>2 DEF DoStatus, At, info, sockets, queues
  <2>3. CASE DoTrust(t)
    BY <1>1, <2>3 DEF DoTrust, At, info, sockets, queues
  <2>4. CASE DoLocal(t)
    BY <1>1, <2>4 DEF DoLocal, At, info, sockets, queues
  <2>5. CASE DoConfirmable(t)
    BY <1>1, <2>5 DEF DoConfirmable, At, info, sockets, queues
  <2>6. CASE DoRemove(t)
    BY <1>1, <2>6 DEF DoRemove, At, info, sockets, queues
  <2>7. CASE DoForceRemove(t)
    BY <1>1, <2>7 DEF DoForceRemove, At, info, sockets, queues
  <2>8. CASE DoBan(t)
    BY <1>1, <2>8 DEF DoBan, At, info, sockets, queues
  <2>9. CASE DoUnBan(t)
    BY <1>1, <2>9 DEF DoUnBan, At, info, sockets, queues
  <2>10. CASE DoSend(t)
    BY <1>1, <2>10 DEF DoSend, At, info, sockets, queues
  <2>11. CASE DoWrite(t)
    BY <1>1, <2>11 DEF DoWrite, At, info, sockets, queues
  <2>12. CASE DoReadTrust(t)
    BY <1>1, <2>12 DEF DoReadTrust, At, info, sockets, queues
  <2>13. ~DoTake(t) /\ ~DoNull(t) /\ ~DoDrop(t)
    BY <1>1 DEF DoTake, DoNull, DoDrop, At
  <2>. QED  BY <2>1, <2>2, <2>3, <2>4, <2>5, <2>6, <2>7, <2>8, <2>9, <2>10, <2>11, <2>12, <2>13
            DEF Access, InfoAccess, NodeCall
<1>5. QueueSame
  <2>1. CASE o.op = "write" /\ senderQueue' = Append(senderQueue, o)
    <3>1. o.s \in Socket /\ o.v = None
      BY <1>1, <2>1 DEF OpOK
    <3>2. sock[o.s] # "unused"
      BY <1>1, <3>1 DEF Life, Untouched
    <3>3. o \in Jobs /\ Harmless(o)
      BY <1>1, <2>1, <3>1, <3>2 DEF Ops, OpRecord, Jobs, JobRecord, JobOK, Harmless
    <3>. QED  BY <2>1, <3>3, QueueGrows
  <2>. QED  BY <1>4, <2>1, QueueKept
<1>6. SockSame
  BY <1>4, SockKept
<1>7. \A i \in DOMAIN ops : ops[i].op # "drop"
  BY <1>1, <1>2 DEF Follows, SetStatus, Take, Send, Write, Ban, SetTrust, Op, OpValue
<1>8. Dropped'
  BY <1>1, <1>2, <1>4, <1>7, DroppedKept
<1>. QED  BY <1>1, <1>2, <1>3, <1>4, <1>5, <1>6, <1>8, QuietStep

(***************************************************************************)
(* The accesses that attach a socket and take it away.                     *)
(***************************************************************************)
LEMMA TakeLife ==
  ASSUME Types, Life, NEW t \in Thread, DoTake(t)
  PROVE  Life'
<1>. DEFINE o == program[t][1]
            p == program[t]
            q == program'[t]
<1>0. Access(t)
  BY DEF Access, InfoAccess
<1>1. /\ p # <<>> /\ Head(p) = o /\ o \in Ops
      /\ o.a \in Address /\ o.s \in Socket \cup {None} /\ OpOK(o) /\ 1 \in DOMAIN p /\ o.op = "take"
  BY <1>0, AccessPops DEF DoTake, At
<1>2. PICK ops \in Seq(Ops) : Pops(t, ops, 1) /\ Follows(o, ops)
  BY <1>0, AccessPops
<1>3. /\ UNCHANGED <<info, sockets, queues>>
  BY DEF DoTake
<1>4. SockSame /\ QueueSame
  BY <1>3, SockKept, QueueKept DEF sockets, queues
<1>5. CASE ops = <<>>
  <2>1. \A i \in DOMAIN ops : Quiet(ops[i])
    BY <1>5
  <2>2. Dropped'
    <3>1. \A i \in DOMAIN ops : ops[i].op # "drop"
      BY <1>5
    <3>. QED  BY <1>1, <1>2, <1>3, <3>1, DroppedKept DEF info, sockets
  <2>. QED  BY <1>1, <1>2, <1>3, <1>4, <2>1, <2>2, QuietStep DEF info, sockets
<1>6. CASE /\ sct[o.a] # None
           /\ ops = <<Null(o.a, sct[o.a]), Drop(o.a, sct[o.a]), SetStatus(o.a, "NotConnected")>>
  <2>. DEFINE s == sct[o.a]
  <2>1. s \in Socket /\ peerOf[s] = o.a /\ sock[s] # "unused" /\ sock[s] # "deleted"
    BY <1>1, <1>6, NoneApart DEF Types, FieldTypes, Life, Pointed, Untouched
  <2>2. \A i \in DOMAIN ops : Quiet(ops[i])
    <3>1. /\ Quiet(Null(o.a, s)) /\ Quiet(Drop(o.a, s)) /\ Quiet(SetStatus(o.a, "NotConnected"))
      BY <2>1 DEF Quiet, Null, Drop, SetStatus, Op, OpValue
    <3>2. DOMAIN ops = {1, 2, 3}
      BY <1>6
    <3>. QED  BY <1>6, <3>1, <3>2
  <2>4. \A j \in DOMAIN p : p[j].op # "drop"
    <3>. SUFFICES ASSUME NEW j \in DOMAIN p, p[j].op = "drop" PROVE FALSE
      OBVIOUS
    <3>1. j = 1 \/ p[1] = Null(p[j].a, p[j].s)
      BY DEF Life, Dropped
    <3>. QED  BY <1>1, <3>1 DEF Null, Op
  <2>5. /\ DOMAIN ops = 1 .. 3 /\ ops[1] = Null(o.a, s) /\ ops[2] = Drop(o.a, s) /\ Len(ops) = 3
        /\ ops[1].op = "null" /\ ops[3].op = "status"
        /\ ops[2].op = "drop" /\ ops[2].a = o.a /\ ops[2].s = s
    BY <1>6 DEF Null, Drop, SetStatus, Op, OpValue
  <2>6. \A i \in DOMAIN q : q[i].op = "drop" => i = 2 /\ q[2] = ops[2]
    <3>. SUFFICES ASSUME NEW i \in DOMAIN q, q[i].op = "drop" PROVE i = 2 /\ q[2] = ops[2]
      OBVIOUS
    <3>1. i \in DOMAIN ops /\ q[i] = ops[i]
      BY <1>2, <2>4, PopsOf
    <3>. QED  BY <2>5, <3>1
  <2>7. q[1] = ops[1]
    <3>1. Len(p) \in Nat \ {0}
      BY <1>1, TailOf DEF Types
    <3>. QED  BY <1>2, <2>5, <3>1 DEF Pops
  <2>8. \A u \in Thread \ {t} : program'[u] = program[u]
    BY <1>2 DEF Pops
  <2>. HIDE DEF q, s
  <2>9. \A i \in DOMAIN q : q[i].op = "drop" =>
           peerOf[q[i].s] = q[i].a /\ i = 2 /\ q[1] = Null(q[i].a, q[i].s)
    BY <2>1, <2>5, <2>6, <2>7
  <2>3. Dropped'
    BY <1>3, <2>8, <2>9 DEF Life, Dropped, info, sockets, q
  <2>. QED  BY <1>1, <1>2, <1>3, <1>4, <2>2, <2>3, QuietStep DEF info, sockets
<1>. QED  BY <1>1, <1>2, <1>5, <1>6 DEF Follows

LEMMA NullLife ==
  ASSUME Types, Life, NEW t \in Thread, DoNull(t)
  PROVE  Life'
<1>. DEFINE o == program[t][1]
            p == program[t]
            q == program'[t]
<1>0. Access(t)
  BY DEF Access, InfoAccess
<1>1. /\ p # <<>> /\ Head(p) = o /\ o \in Ops
      /\ o.a \in Address /\ o.s \in Socket \cup {None} /\ OpOK(o) /\ 1 \in DOMAIN p /\ o.op = "null"
  BY <1>0, AccessPops DEF DoNull, At
<1>2. PICK ops \in Seq(Ops) : Pops(t, ops, 1) /\ Follows(o, ops)
  BY <1>0, AccessPops
<1>3. ops = <<>>
  BY <1>1, <1>2 DEF Follows
<1>13. DOMAIN ops = {} /\ Len(ops) = 0
  BY <1>3
<1>4. /\ sct' = [sct EXCEPT ![o.a] = None]
      /\ UNCHANGED <<known, sockets, queues>>
  BY <1>1 DEF DoNull
<1>5. \A a \in Address : sct'[a] = sct[a] \/ sct'[a] = None
  BY <1>4 DEF Types, FieldTypes
<1>6. sct'[o.a] = None
  BY <1>1, <1>4 DEF Types, FieldTypes
<1>7. SockSame /\ QueueSame
  BY <1>4, SockKept, QueueKept DEF sockets, queues
<1>8. \A u \in Thread \ {t} : program'[u] = program[u]
  BY <1>2 DEF Pops
<1>9. \A i \in DOMAIN q : q[i].op = "drop" =>
         peerOf[q[i].s] = q[i].a /\ i = 1 /\ sct'[q[i].a] # q[i].s
  <2>. SUFFICES ASSUME NEW i \in DOMAIN q, q[i].op = "drop"
                PROVE  peerOf[q[i].s] = q[i].a /\ i = 1 /\ sct'[q[i].a] # q[i].s
    OBVIOUS
  <2>1. PICK j \in DOMAIN p : j > 1 /\ i = j - 1 /\ q[i] = p[j]
    <3>1. \/ i \in DOMAIN ops
          \/ \E j \in DOMAIN p : j > 1 /\ i = j + Len(ops) - 1 /\ q[i] = p[j]
      BY <1>2, PopsOf
    <3>2. \A j \in DOMAIN p : j \in Int
      BY LenProperties DEF Types
    <3>. QED  BY <1>13, <3>1, <3>2
  <2>2. p[j].s \in Socket
    <3>1. p[j] \in Ops /\ p[j].op = "drop"
      BY <2>1, ElementOfSeq DEF Types
    <3>. QED  BY <3>1 DEF Ops, OpOK
  <2>3. peerOf[p[j].s] = p[j].a /\ j = 2 /\ p[1] = Null(p[j].a, p[j].s)
    BY <2>1 DEF Life, Dropped
  <2>. QED  BY <1>6, <2>1, <2>2, <2>3, NoneApart DEF Null, Op
<1>10. \A u \in Thread \ {t} : \A i \in DOMAIN program[u] : program[u][i].op = "drop" =>
          program[u][i].s \in Socket /\ program[u][i].a \in Address
  BY ElementOfSeq DEF Types, Ops, OpRecord, OpOK
<1>. HIDE DEF q
<1>11. Dropped'
  BY <1>4, <1>5, <1>8, <1>9, <1>10, NoneApart DEF Life, Dropped, sockets, q
<1>12. \A i \in DOMAIN ops : Quiet(ops[i])
  BY <1>3
<1>. QED  BY <1>1, <1>2, <1>4, <1>5, <1>7, <1>11, <1>12, QuietStep DEF sockets

LEMMA DropLife ==
  ASSUME Types, Life, NEW t \in Thread, DoDrop(t)
  PROVE  Life'
<1>. DEFINE o == program[t][1]
            p == program[t]
            q == program'[t]
<1>0. Access(t)
  BY DEF Access, InfoAccess
<1>1. /\ p # <<>> /\ Head(p) = o /\ o \in Ops
      /\ o.a \in Address /\ o.s \in Socket \cup {None} /\ OpOK(o) /\ 1 \in DOMAIN p /\ o.op = "drop"
  BY <1>0, AccessPops DEF DoDrop, At
<1>2. PICK ops \in Seq(Ops) : Pops(t, ops, 1) /\ Follows(o, ops)
  BY <1>0, AccessPops
<1>3. ops = <<>>
  BY <1>1, <1>2 DEF Follows
<1>13. DOMAIN ops = {} /\ Len(ops) = 0
  BY <1>3
<1>4. o.s \in Socket /\ peerOf[o.s] = o.a /\ sct[o.a] # o.s /\ sock[o.s] # "unused"
  <2>1. o.s \in Socket
    BY <1>1 DEF OpOK
  <2>2. peerOf[o.s] = o.a /\ sct[o.a] # o.s
    BY <1>1 DEF Life, Dropped
  <2>. QED  BY <1>1, <2>1, <2>2, NoneApart DEF Life, Untouched
<1>5. \A a \in Address : sct[a] # o.s
  BY <1>4, NoneApart DEF Life, Pointed
<1>6. /\ UNCHANGED <<info, sock, peerOf>>
      /\ wired' \subseteq wired
      /\ \/ senderQueue' = senderQueue
         \/ senderQueue' = Append(senderQueue, Op("deleteLater", None, o.s))
  BY <1>1 DEF DoDrop
<1>7. QueueSame
  <2>1. Op("deleteLater", None, o.s) \in Jobs /\ Harmless(Op("deleteLater", None, o.s))
    BY <1>1, <1>4, <1>5, NoneApart DEF Jobs, JobRecord, JobOK, Harmless, Op
  <2>. QED  BY <1>6, <2>1, QueueKept, QueueGrows
<1>8. SockSame
  BY <1>6, SockKept
<1>9. \A i \in DOMAIN q : q[i].op # "drop"
  <2>. SUFFICES ASSUME NEW i \in DOMAIN q, q[i].op = "drop" PROVE FALSE
    OBVIOUS
  <2>1. PICK j \in DOMAIN p : j > 1 /\ q[i] = p[j]
    <3>1. \/ i \in DOMAIN ops
          \/ \E j \in DOMAIN p : j > 1 /\ i = j + Len(ops) - 1 /\ q[i] = p[j]
      BY <1>2, PopsOf
    <3>2. \A j \in DOMAIN p : j \in Int
      BY LenProperties DEF Types
    <3>. QED  BY <1>13, <3>1, <3>2
  <2>2. p[1] = Null(p[j].a, p[j].s)
    BY <2>1 DEF Life, Dropped
  <2>. QED  BY <1>1, <2>2 DEF Null, Op
<1>10. \A u \in Thread \ {t} : program'[u] = program[u]
  BY <1>2 DEF Pops
<1>. HIDE DEF q
<1>11. Dropped'
  BY <1>6, <1>9, <1>10 DEF Life, Dropped, info, q
<1>12. \A i \in DOMAIN ops : Quiet(ops[i])
  BY <1>3
<1>. QED  BY <1>1, <1>2, <1>6, <1>7, <1>8, <1>11, <1>12, QuietStep DEF info

\* The sender thread gives a socket to an info.
LEMMA AttachLife ==
  ASSUME Types, Life, NEW ops \in Seq(Ops), Pops("sender", ops, 1),
         NEW o, o = program["sender"][1], o.a \in Address, o.s \in Socket, Attaches(o, o.s),
         \A i \in DOMAIN ops : ops[i].op = "status" /\ ops[i].s = None,
         sct' = [sct EXCEPT ![o.a] = o.s], peerOf' = [peerOf EXCEPT ![o.s] = o.a],
         wired' = wired \cup {o.s}, sock' = sock, senderQueue' = senderQueue,
         known \subseteq known', o.op = "create" => o.a \in known' /\ ops = <<>>
  PROVE  Life'
<1>. DEFINE n == Len(ops)
            p == program["sender"]
            q == program'["sender"]
<1>1. /\ n \in Nat /\ p \in Seq(Ops) /\ p # <<>> /\ 1 \in DOMAIN p
      /\ Len(p) \in Nat /\ DOMAIN p = 1 .. Len(p)
      /\ \A i \in DOMAIN p : p[i] \in Ops
      /\ \A u \in Thread \ {"sender"} : program'[u] = program[u]
      /\ DOMAIN q = 1 .. n + Len(p) - 1
  <2>1. p \in Seq(Ops) /\ p # <<>> /\ n \in Nat
    BY SenderIsThread, LenProperties DEF Types, Pops
  <2>2. Len(p) \in Nat \ {0} /\ DOMAIN p = 1 .. Len(p) /\ \A i \in DOMAIN p : p[i] \in Ops
    BY <2>1, LenProperties, ElementOfSeq, EmptySeq
  <2>. QED  BY <2>1, <2>2 DEF Pops
<1>2. \A i \in DOMAIN q :
         /\ i \in Int
         /\ \/ q[i].op = "status" /\ q[i].s = None
            \/ \E j \in DOMAIN p : j > 1 /\ i = j + n - 1 /\ q[i] = p[j]
  BY PopsOf, SenderIsThread
<1>3. \A j \in DOMAIN p : j > 1 => j + n - 1 \in DOMAIN q /\ q[j + n - 1] = p[j]
  <2>. SUFFICES ASSUME NEW j \in DOMAIN p, j > 1
                PROVE  j + n - 1 \in DOMAIN q /\ q[j + n - 1] = p[j]
    OBVIOUS
  <2>. DEFINE i == j + n - 1
  <2>2. \A m \in 1 .. n + Len(p) - 1 : q[m] = IF m <= n THEN ops[m] ELSE p[m - n + 1]
    BY DEF Pops
  <2>3. i \in 1 .. n + Len(p) - 1 /\ ~(i <= n) /\ i - n + 1 = j
    BY <1>1
  <2>. HIDE DEF i, n, p, q
  <2>4. i \in DOMAIN q /\ q[i] = p[i - n + 1]
    BY <1>1, <2>2, <2>3
  <2>. QED  BY <2>3, <2>4 DEF i
<1>. HIDE DEF q
<1>4. peerOf[o.s] = None /\ sock[o.s] # "deleted" /\ sock[o.s] # "unused"
      /\ \A j \in DOMAIN p : Attaches(p[j], o.s) => j = 1
  <2>1. peerOf[o.s] = None /\ sock[o.s] # "deleted"
        /\ \A j \in DOMAIN p : Attaches(p[j], o.s) => j = 1
    BY <1>1 DEF Life, AttachedOnce
  <2>2. sock[o.s] # "unused"
    BY <1>1, SenderIsThread DEF Life, Untouched
  <2>. QED  BY <2>1, <2>2
<1>5. /\ \A s \in Socket : peerOf'[s] = IF s = o.s THEN o.a ELSE peerOf[s]
      /\ \A a \in Address : sct'[a] = IF a = o.a THEN o.s ELSE sct[a]
  BY DEF Types, FieldTypes
<1>6. Untouched'
  <2>. SUFFICES ASSUME NEW s \in Socket, sock[s] = "unused"
                PROVE  /\ peerOf'[s] = None
                       /\ \A u \in Thread : \A i \in DOMAIN program'[u] : program'[u][i].s # s
                       /\ \A i \in DOMAIN senderQueue' : senderQueue'[i].s # s
    BY DEF Untouched
  <2>1. s # o.s /\ s # None
    BY <1>4, NoneApart
  <2>2. \A i \in DOMAIN q : q[i].s # s
    BY <1>1, <1>2, <2>1, SenderIsThread DEF Life, Untouched
  <2>3. \A u \in Thread \ {"sender"} : \A i \in DOMAIN program'[u] : program'[u][i].s # s
    BY <1>1 DEF Life, Untouched
  <2>4. peerOf'[s] = None /\ \A i \in DOMAIN senderQueue' : senderQueue'[i].s # s
    BY <1>5, <2>1 DEF Life, Untouched
  <2>. QED  BY <2>2, <2>3, <2>4 DEF q
<1>7. Pointed'
  BY <1>4, <1>5, NoneApart DEF Life, Pointed, Types, FieldTypes
<1>8. AttachedOnce'
  <2>. SUFFICES ASSUME NEW s \in Socket, NEW i \in DOMAIN q, Attaches(q[i], s)
                PROVE  /\ peerOf'[s] = None /\ sock[s] # "deleted"
                       /\ \A j \in DOMAIN q : Attaches(q[j], s) => j = i
    BY DEF AttachedOnce, Attaches, q
  <2>1. \A j \in DOMAIN q : Attaches(q[j], s) =>
           \E m \in DOMAIN p : m > 1 /\ j = m + n - 1 /\ Attaches(p[m], s)
    BY <1>2 DEF Attaches
  <2>2. PICK m \in DOMAIN p : m > 1 /\ i = m + n - 1 /\ Attaches(p[m], s)
    BY <2>1
  <2>3. peerOf[s] = None /\ sock[s] # "deleted"
        /\ \A j \in DOMAIN p : Attaches(p[j], s) => j = m
    BY <2>2 DEF Life, AttachedOnce
  <2>4. s # o.s
    BY <1>4, <2>2
  <2>5. \A j \in DOMAIN q : Attaches(q[j], s) => j = i
    BY <2>1, <2>2, <2>3
  <2>. QED  BY <1>5, <2>3, <2>4, <2>5
<1>9. Dropped'
  <2>1. p[1].op # "null" /\ p[1].op # "drop"
    BY DEF Attaches
  <2>2. \A j \in DOMAIN p : p[j].op # "drop"
    <3>. SUFFICES ASSUME NEW j \in DOMAIN p, p[j].op = "drop" PROVE FALSE
      OBVIOUS
    <3>1. j = 1 \/ p[1] = Null(p[j].a, p[j].s)
      BY SenderIsThread DEF Life, Dropped
    <3>. QED  BY <2>1, <3>1 DEF Null, Op
  <2>3. \A i \in DOMAIN q : q[i].op # "drop"
    BY <1>2, <2>2
  <2>4. ASSUME NEW u \in Thread, NEW i \in DOMAIN program'[u], program'[u][i].op = "drop"
        PROVE  LET x == program'[u][i]
               IN  /\ peerOf'[x.s] = x.a
                   /\ \/ i = 1 /\ sct'[x.a] # x.s
                      \/ i = 2 /\ program'[u][1] = Null(x.a, x.s)
    <3>1. u # "sender" /\ program'[u] = program[u]
      BY <1>1, <2>3, <2>4 DEF q
    <3>. DEFINE x == program[u][i]
    <3>2. x.s \in Socket /\ x.a \in Address
      <4>1. program[u] \in Seq(Ops) /\ i \in DOMAIN program[u]
        BY <3>1 DEF Types
      <4>2. x \in Ops
        BY <4>1, ElementOfSeq
      <4>. QED  BY <2>4, <3>1, <4>2 DEF Ops, OpRecord, OpOK
    <3>3. /\ peerOf[x.s] = x.a
          /\ \/ i = 1 /\ sct[x.a] # x.s
             \/ i = 2 /\ program[u][1] = Null(x.a, x.s)
      BY <2>4, <3>1 DEF Life, Dropped
    <3>4. x.s # o.s
      BY <1>4, <3>2, <3>3, NoneApart
    <3>. QED  BY <1>5, <3>1, <3>2, <3>3, <3>4
  <2>. QED  BY <2>4 DEF Dropped
<1>10. Unpointed'
  <2>. SUFFICES ASSUME NEW i \in DOMAIN senderQueue,
                       senderQueue[i].op \in {"delete", "deleteLater"}
                PROVE  /\ peerOf'[senderQueue[i].s] # None
                       /\ \A a \in Address : sct'[a] # senderQueue[i].s
    BY DEF Unpointed
  <2>1. senderQueue[i].s \in Socket
    BY ElementOfSeq DEF Types, Jobs, JobRecord, JobOK
  <2>2. /\ peerOf[senderQueue[i].s] # None
        /\ \A a \in Address : sct[a] # senderQueue[i].s
    BY DEF Life, Unpointed
  <2>. QED  BY <1>4, <1>5, <2>1, <2>2, NoneApart
<1>11. Registering'
  <2>. SUFFICES ASSUME NEW i \in DOMAIN q, q[i].op = "registered"
                PROVE  LET x == q[i]
                       IN  /\ \A j \in DOMAIN q : Attaches(q[j], x.s) => j < i
                           /\ \/ peerOf'[x.s] = x.a
                              \/ \E j \in 1 .. i - 1 : q[j] = Attach(x.a, x.s)
    BY DEF Registering, Attaches, Attach, Op, q
  <2>1. PICK m \in DOMAIN p : m > 1 /\ i = m + n - 1 /\ q[i] = p[m]
    BY <1>2
  <2>. DEFINE x == p[m]
  <2>2. x.s \in Socket /\ x.op = "registered"
    BY <1>1, <2>1 DEF Ops, OpOK
  <2>3. /\ \A j \in DOMAIN p : Attaches(p[j], x.s) => j < m
        /\ \/ peerOf[x.s] = x.a
           \/ \E j \in 1 .. m - 1 : p[j] = Attach(x.a, x.s)
    BY <2>1, <2>2 DEF Life, Registering
  <2>4. ASSUME NEW j \in DOMAIN q, Attaches(q[j], x.s) PROVE j < i
    <3>1. PICK l \in DOMAIN p : j = l + n - 1 /\ Attaches(p[l], x.s)
      BY <1>2, <2>4 DEF Attaches
    <3>. QED  BY <1>1, <2>1, <2>3, <3>1
  <2>5. ASSUME NEW j \in 1 .. m - 1, p[j] = Attach(x.a, x.s)
        PROVE  \/ peerOf'[x.s] = x.a
               \/ \E l \in 1 .. i - 1 : q[l] = Attach(x.a, x.s)
    <3>1. CASE j = 1
      <4>1. o.s = x.s /\ o.a = x.a
        BY <2>5, <3>1 DEF Attach, Op
      <4>. QED  BY <1>5, <2>2, <4>1
    <3>2. CASE j # 1
      <4>0. n \in Nat /\ m \in Int /\ m <= Len(p) /\ Len(p) \in Nat /\ DOMAIN p = 1 .. Len(p)
            /\ i = m + n - 1 /\ j \in Int /\ j >= 1 /\ j <= m - 1
        BY <1>1, <2>1
      <4>1. j + n - 1 \in 1 .. i - 1 /\ j \in DOMAIN p /\ j > 1
        <5>. HIDE DEF n, p
        <5>. QED  BY <3>2, <4>0
      <4>2. q[j + n - 1] = p[j]
        BY <1>3, <4>1
      <4>. QED  BY <2>5, <4>1, <4>2
    <3>. QED  BY <3>1, <3>2
  <2>6. CASE peerOf[x.s] = x.a
    <3>1. x.s # o.s
      BY <1>1, <1>4, <2>6, NoneApart DEF Ops, OpRecord
    <3>. QED  BY <1>5, <2>1, <2>2, <2>4, <2>6, <3>1
  <2>. QED  BY <2>1, <2>3, <2>4, <2>5, <2>6
<1>12. Wired'
  BY <1>5, NoneApart DEF Life, Wired, Types, FieldTypes
<1>13. Announced'
  <2>1. ASSUME NEW i \in DOMAIN q, q[i].op = "announce" PROVE i = 1 /\ q[i].a \in known'
    <3>1. PICK m \in DOMAIN p : m > 1 /\ i = m + n - 1 /\ q[i] = p[m]
      BY <1>2, <2>1
    <3>2. m = 2 /\ p[1].op = "create" /\ p[1].a = p[m].a
      BY <2>1, <3>1 DEF Life, Announced
    <3>3. n = 0
      BY <3>2, EmptySeq
    <3>. QED  BY <1>1, <3>1, <3>2, <3>3
  <2>. QED  BY <2>1 DEF Announced, q
<1>. QED  BY <1>6, <1>7, <1>8, <1>9, <1>10, <1>11, <1>12, <1>13 DEF Life

LEMMA AccessLife ==
  ASSUME Types, Life, NEW t \in Thread, Access(t)
  PROVE  Life'
<1>. DEFINE o == program[t][1]
<1>1. /\ program[t] # <<>> /\ Head(program[t]) = o /\ o \in Ops
      /\ o.a \in Address /\ o.s \in Socket \cup {None} /\ OpOK(o) /\ 1 \in DOMAIN program[t]
  BY AccessPops
<1>2. CASE DoTake(t)
  BY <1>2, TakeLife
<1>3. CASE DoNull(t)
  BY <1>3, NullLife
<1>4. CASE DoDrop(t)
  BY <1>4, DropLife
<1>5. CASE DoAttach(t) /\ o.s # None
  <2>1. t = "sender" /\ o.op = "attach" /\ o.s \in Socket
    BY <1>1, <1>5 DEF DoAttach, At, Types
  <2>2. PICK ops \in Seq(Ops) : Pops(t, ops, 1) /\ Follows(o, ops)
    BY AccessPops
  <2>3. ops = <<>> \/ ops = <<SetStatus(o.a, "Connected")>>
    BY <2>1, <2>2 DEF Follows
  <2>4. \A i \in DOMAIN ops : ops[i].op = "status" /\ ops[i].s = None
    BY <2>3 DEF SetStatus, OpValue
  <2>5. /\ sct' = [sct EXCEPT ![o.a] = o.s] /\ peerOf' = [peerOf EXCEPT ![o.s] = o.a]
        /\ wired' = wired \cup {o.s} /\ sock' = sock /\ senderQueue' = senderQueue
        /\ known \subseteq known'
    BY <1>1, <1>5 DEF DoAttach, queues
  <2>. QED  BY <1>1, <2>1, <2>2, <2>4, <2>5, AttachLife DEF Attaches
<1>6. CASE ~DoTake(t) /\ ~DoNull(t) /\ ~DoDrop(t) /\ (DoAttach(t) => o.s = None)
  <2>1. o.op \notin {"take", "null", "drop"} /\ (o.op = "attach" => DoAttach(t))
    <3>1. CASE InfoAccess(t)
      BY <1>1, <1>6, <3>1 DEF InfoAccess, DoStatus, DoAttach, DoTrust, DoLocal, DoConfirmable, At
    <3>2. CASE NodeCall(t)
      BY <1>1, <3>2 DEF NodeCall, DoRemove, DoForceRemove, DoBan, DoUnBan, DoSend, DoWrite,
         DoReadTrust, At
    <3>. QED  BY <3>1, <3>2 DEF Access
  <2>. QED  BY <1>6, <2>1, QuietAccess
<1>. QED  BY <1>2, <1>3, <1>4, <1>5, <1>6

LEMMA RegisterLife ==
  ASSUME Types, Life, Register
  PROVE  Life'
<1>. DEFINE o == program["sender"][1]
            p == program["sender"]
            q == program'["sender"]
<1>. USE SenderIsThread
<1>1. /\ p # <<>> /\ p \in Seq(Ops) /\ 1 \in DOMAIN p /\ o \in Ops /\ Head(p) = o
      /\ o.a \in Address /\ o.s \in Socket \cup {None} /\ OpOK(o)
  <2>1. p # <<>>
    BY DEF Register, DoCreate, DoAnnounce, DoRegistered, DoConnect, At
  <2>2. p \in Seq(Ops) /\ 1 \in DOMAIN p /\ o \in Ops /\ Head(p) = o
    BY <2>1, TailOf DEF Types
  <2>. QED  BY <2>1, <2>2 DEF Ops, OpRecord
<1>2. <<>> \in Seq(Ops) /\ DOMAIN <<>> = {}
  OBVIOUS
<1>3. Continue("sender", <<>>) => Pops("sender", <<>>, 1)
  BY <1>1, <1>2, ContinuePops
<1>4. CASE DoCreate
  <2>1. o.op = "create" /\ o.s \in Socket /\ Continue("sender", <<>>)
    BY <1>1, <1>4 DEF DoCreate, At, OpOK
  <2>2. /\ sct' = [sct EXCEPT ![o.a] = o.s] /\ peerOf' = [peerOf EXCEPT ![o.s] = o.a]
        /\ wired' = wired \cup {o.s} /\ sock' = sock /\ senderQueue' = senderQueue
        /\ known \subseteq known' /\ o.a \in known'
    BY <1>1, <1>4 DEF DoCreate, queues
  <2>3. Attaches(o, o.s)
    BY <2>1 DEF Attaches
  <2>. QED  BY <1>1, <1>2, <1>3, <2>1, <2>2, <2>3, AttachLife
<1>5. CASE DoAnnounce
  <2>1. o.op = "announce" /\ Continue("sender", <<>>)
    BY <1>1, <1>5 DEF DoAnnounce, At
  <2>2. UNCHANGED <<known, sct, sockets, senderQueue>>
    BY <1>5 DEF DoAnnounce
  <2>3. SockSame /\ QueueSame
    BY <2>2, SockKept, QueueKept DEF sockets
  <2>4. Dropped'
    BY <1>2, <1>3, <2>1, <2>2, DroppedKept DEF sockets
  <2>. QED  BY <1>2, <1>3, <2>1, <2>2, <2>3, <2>4, QuietStep DEF sockets
<1>6. CASE DoConnect
  <2>1. o.op = "connect" /\ Continue("sender", <<>>) /\ o.s \in Socket
    BY <1>1, <1>6 DEF DoConnect, At, OpOK
  <2>2. /\ UNCHANGED <<known, sct, peerOf, wired, senderQueue>>
        /\ sock' = [sock EXCEPT ![o.s] = "connecting"]
    BY <1>1, <1>6 DEF DoConnect, info, queues
  <2>3. sock[o.s] # "unused"
    BY <1>1, <2>1 DEF Life, Untouched
  <2>4. SockSame
    BY <2>1, <2>2, <2>3 DEF SockSame, Types, FieldTypes
  <2>5. QueueSame
    BY <2>2, QueueKept
  <2>6. Dropped'
    BY <1>2, <1>3, <2>1, <2>2, DroppedKept
  <2>. QED  BY <1>2, <1>3, <2>1, <2>2, <2>4, <2>5, <2>6, QuietStep
<1>7. CASE DoRegistered /\ sct[o.a] # None
  <2>1. o.op = "registered" /\ Continue("sender", <<>>)
    BY <1>1, <1>7 DEF DoRegistered, At
  <2>2. UNCHANGED <<known, sct, peerOf, wired, senderQueue, sock>>
    BY <1>1, <1>7 DEF DoRegistered, info, queues
  <2>3. SockSame /\ QueueSame
    BY <2>2, SockKept, QueueKept
  <2>4. Dropped'
    BY <1>2, <1>3, <2>1, <2>2, DroppedKept
  <2>. QED  BY <1>2, <1>3, <2>1, <2>2, <2>3, <2>4, QuietStep
<1>8. CASE DoRegistered /\ sct[o.a] = None
  <2>1. o.op = "registered" /\ o.s \in Socket
    BY <1>1, <1>8 DEF DoRegistered, At, OpOK
  <2>2. /\ UNCHANGED <<known, sct, peerOf, senderQueue>> /\ wired' \subseteq wired
        /\ sock' = [sock EXCEPT ![o.s] = "deleted"]
        /\ q = <<>> /\ \A u \in Thread \ {"sender"} : program'[u] = program[u]
    BY <1>1, <1>8 DEF DoRegistered, info, queues, Start, Types
  <2>3. peerOf[o.s] = o.a
    <3>1. 1 .. 1 - 1 = {}
      OBVIOUS
    <3>. QED  BY <1>1, <2>1, <3>1 DEF Life, Registering
  <2>4. /\ \A a \in Address : sct[a] # o.s
        /\ \A s \in Socket : sock'[s] = "deleted" => sock[s] = "deleted" \/ s = o.s
        /\ \A s \in Socket : sock'[s] = "unused" => sock[s] = "unused"
    <3>1. \A x \in Socket : sock'[x] = IF x = o.s THEN "deleted" ELSE sock[x]
      BY <2>2 DEF Types, FieldTypes
    <3>2. \A a \in Address : sct[a] # o.s
      BY <1>1, <1>8, <2>1, <2>3, NoneApart DEF Life, Pointed
    <3>. QED  BY <3>1, <3>2
  <2>5. DOMAIN q = {}
    BY <2>2
  <2>. HIDE DEF q
  <2>6. Untouched'
    BY <2>2, <2>4, <2>5 DEF Life, Untouched, q
  <2>7. Pointed'
    BY <2>2, <2>4 DEF Life, Pointed, Types, FieldTypes
  <2>8. AttachedOnce' /\ Registering' /\ Announced'
    BY <2>5 DEF AttachedOnce, Registering, Announced, q
  <2>9. Dropped'
    BY <2>2, <2>5 DEF Life, Dropped, q
  <2>10. Unpointed' /\ Wired'
    BY <2>2 DEF Life, Unpointed, Wired
  <2>. QED  BY <2>6, <2>7, <2>8, <2>9, <2>10 DEF Life
<1>. QED  BY <1>4, <1>5, <1>6, <1>7, <1>8 DEF Register

\* A job that registers a socket begins.
LEMMA TakeSocketLife ==
  ASSUME Types, Life, NEW a \in Address, NEW s \in Socket, sock[s] = "unused",
         NEW ops \in Seq(Ops), program["sender"] = <<>>, Start("sender", ops),
         NEW b \in BOOLEAN,
         \/ ops = <<>>
         \/ ops = <<Create(a, s, b), Announce(a)>>
         \/ ops = <<Create(a, s, b), Announce(a), Op("connect", a, s)>>
         \/ ops = <<Take(a), Attach(a, s), SetLocal(a, b), Registered(a, s)>>
         \/ ops = <<Take(a), Attach(a, s), SetLocal(a, b), Registered(a, s), Op("connect", a, s)>>,
         UNCHANGED <<info, peerOf, wired>>, QueueSame,
         NEW st \in {"created", "open", "deleted"},
         sock' = [sock EXCEPT ![s] = st], st = "deleted" => ops = <<>>
  PROVE  Life'
<1>. DEFINE q == program'["sender"]
<1>. USE SenderIsThread
<1>1. q = ops /\ \A u \in Thread \ {"sender"} : program'[u] = program[u]
  BY ProgramStarts
<1>2. /\ peerOf[s] = None /\ s # None
      /\ \A u \in Thread : \A i \in DOMAIN program[u] : program[u][i].s # s
      /\ \A i \in DOMAIN senderQueue : senderQueue[i].s # s
      /\ \A x \in Address : sct[x] # s
  BY NoneApart DEF Life, Untouched, Pointed
<1>3. \A x \in Socket : sock'[x] = IF x = s THEN st ELSE sock[x]
  BY DEF Types, FieldTypes
<1>4. /\ \A i \in DOMAIN q : /\ i \in 1 .. 5 /\ q[i].s \in {s, None}
                             /\ q[i].op \notin {"drop", "delete", "deleteLater"}
      /\ \A i \in DOMAIN q : Attaches(q[i], s) => \/ i = 1 /\ q[i].op = "create"
                                                  \/ i = 2 /\ q[1].op = "take"
      /\ \A i \in DOMAIN q : q[i].op = "registered" => i = 4 /\ q[i].a = a /\ q[i].s = s
                                                       /\ q[2] = Attach(a, s) /\ q[1].op = "take"
      /\ \A i \in DOMAIN q : q[i].op = "announce" => i = 2 /\ q[1].op = "create" /\ q[1].a = q[i].a
  <2>. USE DEF Create, Announce, Take, Attach, SetLocal, Registered, Op, OpValue, Attaches
  <2>1. CASE ops = <<>>
    BY <1>1, <2>1
  <2>2. CASE ops = <<Create(a, s, b), Announce(a)>>
    BY <1>1, <1>2, <2>2
  <2>3. CASE ops = <<Create(a, s, b), Announce(a), Op("connect", a, s)>>
    BY <1>1, <1>2, <2>3
  <2>4. CASE ops = <<Take(a), Attach(a, s), SetLocal(a, b), Registered(a, s)>>
    BY <1>1, <1>2, <2>4
  <2>5. CASE ops = <<Take(a), Attach(a, s), SetLocal(a, b), Registered(a, s), Op("connect", a, s)>>
    BY <1>1, <1>2, <2>5
  <2>. QED  BY <2>1, <2>2, <2>3, <2>4, <2>5
<1>5. ops # <<>> => st # "deleted"
  OBVIOUS
<1>6. ops = <<>> => DOMAIN q = {}
  BY <1>1
<1>. HIDE DEF q
<1>8. Untouched'
  <2>. SUFFICES ASSUME NEW x \in Socket, sock'[x] = "unused"
                PROVE  /\ peerOf'[x] = None
                       /\ \A u \in Thread : \A i \in DOMAIN program'[u] : program'[u][i].s # x
                       /\ \A i \in DOMAIN senderQueue' : senderQueue'[i].s # x
    BY DEF Untouched
  <2>1. x # s /\ sock[x] = "unused" /\ x # None
    BY <1>3, NoneApart
  <2>2. \A i \in DOMAIN senderQueue' : senderQueue'[i].s # x
    BY <2>1 DEF Life, Untouched, QueueSame, Harmless
  <2>3. \A i \in DOMAIN q : q[i].s # x
    BY <1>4, <2>1
  <2>4. \A u \in Thread \ {"sender"} : \A i \in DOMAIN program'[u] : program'[u][i].s # x
    BY <1>1, <2>1 DEF Life, Untouched
  <2>. QED  BY <2>1, <2>2, <2>3, <2>4 DEF Life, Untouched, q
<1>9. Pointed'
  BY <1>2, <1>3 DEF Life, Pointed, Types, FieldTypes, info
<1>10. AttachedOnce'
  <2>. SUFFICES ASSUME NEW x \in Socket, NEW i \in DOMAIN q, Attaches(q[i], x)
                PROVE  /\ peerOf'[x] = None /\ sock'[x] # "deleted"
                       /\ \A j \in DOMAIN q : Attaches(q[j], x) => j = i
    BY DEF AttachedOnce, Attaches, q
  <2>1. x = s
    BY <1>4, NoneApart DEF Attaches
  <2>2. st # "deleted"
    BY <1>5, <1>6
  <2>. QED  BY <1>2, <1>3, <1>4, <2>1, <2>2
<1>11. Dropped'
  BY <1>1, <1>4 DEF Life, Dropped, info, q
<1>12. Unpointed'
  BY DEF Life, Unpointed, QueueSame, Harmless, info
<1>13. Registering'
  <2>. SUFFICES ASSUME NEW i \in DOMAIN q, q[i].op = "registered"
                PROVE  LET x == q[i]
                       IN  /\ \A j \in DOMAIN q : Attaches(q[j], x.s) => j < i
                           /\ \/ peerOf'[x.s] = x.a
                              \/ \E j \in 1 .. i - 1 : q[j] = Attach(x.a, x.s)
    BY DEF Registering, Attaches, Attach, Op, q
  <2>1. i = 4 /\ q[i].a = a /\ q[i].s = s /\ q[2] = Attach(a, s) /\ 2 \in 1 .. i - 1
    BY <1>4
  <2>. QED  BY <1>4, <2>1
<1>14. Wired' /\ Announced'
  BY <1>4 DEF Life, Wired, Announced, q
<1>. QED  BY <1>8, <1>9, <1>10, <1>11, <1>12, <1>13, <1>14 DEF Life

LEMMA SameProgramLife ==
  ASSUME Types, Life, UNCHANGED <<program, known, sct, peerOf, wired>>, SockSame, QueueSame
  PROVE  Life'
<1>1. Untouched'
  BY NoneApart DEF Life, Untouched, QueueSame, Harmless, SockSame
<1>2. Pointed'
  BY DEF Life, Pointed, SockSame, Types, FieldTypes
<1>3. AttachedOnce'
  BY DEF Life, AttachedOnce, SockSame, Attaches
<1>4. Registering' /\ Announced' /\ Dropped' /\ Wired'
  BY DEF Life, Registering, Announced, Dropped, Wired, Attaches
<1>5. Unpointed'
  BY DEF Life, Unpointed, QueueSame, Harmless
<1>. QED  BY <1>1, <1>2, <1>3, <1>4, <1>5 DEF Life

LEMMA SenderLife ==
  ASSUME Types, Life, Sender
  PROVE  Life'
<1>. DEFINE j == senderQueue[1]
<1>. USE SenderIsThread
<1>1. senderQueue # <<>>
  BY DEF Sender, Job, AddNodeJob, IncomingTcpJob, WriteJob, DisconnectedJob, DeleteJob
<1>2. Tail(senderQueue) \in Seq(Jobs) /\ j \in Jobs /\ Head(senderQueue) = j
      /\ 1 \in DOMAIN senderQueue /\ senderQueue \in Seq(Jobs)
  BY <1>1, TailOf DEF Types
<1>3. j \in JobRecord /\ JobOK(j) /\ j.a \in Address \cup {None} /\ j.s \in Socket \cup {None}
  BY <1>2 DEF Jobs, JobRecord
<1>4. \A name : Job(name) => program["sender"] = <<>> /\ j.op = name
  BY <1>2, MayStartIdle DEF Job
<1>5. CASE AddNodeJob
  <2>1. j.a \in Address
    BY <1>3, <1>4, <1>5 DEF AddNodeJob, JobOK, Address
  <2>. DEFINE steps(s) == RegisterSocket(j.a, s, TRUE)
              c(s) == Op("connect", j.a, s)
  <2>2. PICK s \in NextSocket :
          /\ sock' = [sock EXCEPT ![s] = IF steps(s) = <<>> THEN "deleted" ELSE "created"]
          /\ Start("sender", IF steps(s) = <<>> THEN <<>> ELSE steps(s) \o <<c(s)>>)
    BY <1>2, <1>5 DEF AddNodeJob
  <2>3. s \in Socket /\ sock[s] = "unused" /\ program["sender"] = <<>> /\ c(s) \in Ops
    BY <1>4, <1>5, <2>1, OpsOf DEF AddNodeJob, NextSocket
  <2>4. QueueSame
    BY <1>1, <1>2, <1>5, QueueShrinks DEF AddNodeJob
  <2>5. UNCHANGED <<info, peerOf, wired>>
    BY <1>5 DEF AddNodeJob
  <2>6. steps(s) \in RegisterSteps(j.a, s, TRUE) /\ RegisterSteps(j.a, s, TRUE) \subseteq Seq(Ops)
    BY <2>1, <2>3, RegisterSocketSteps
  <2>. HIDE DEF steps
  <2>7. CASE steps(s) = <<>>
    BY <2>1, <2>2, <2>3, <2>4, <2>5, <2>7, EmptySeq, TakeSocketLife
  <2>8. CASE steps(s) # <<>>
    <3>. HIDE DEF c
    <3>1. steps(s) \o <<c(s)>> \in Seq(Ops)
      <4>1. steps(s) \in Seq(Ops) /\ <<c(s)>> \in Seq(Ops)
        BY <2>3, <2>6, TupleOf
      <4>. QED  BY <4>1, ConcatProperties
    <3>2. \/ steps(s) \o <<c(s)>> = <<Create(j.a, s, TRUE), Announce(j.a), c(s)>>
          \/ steps(s) \o <<c(s)>> = <<Take(j.a), Attach(j.a, s), SetLocal(j.a, TRUE),
                                      Registered(j.a, s), c(s)>>
      <4>1. CASE steps(s) = <<Create(j.a, s, TRUE), Announce(j.a)>>
        BY <4>1, ConcatOne
      <4>2. CASE steps(s) = <<Take(j.a), Attach(j.a, s), SetLocal(j.a, TRUE), Registered(j.a, s)>>
        <5>1. \A v, w, x, y, z : <<v, w, x, y>> \o <<z>> = <<v, w, x, y, z>>
          BY ConcatOne
        <5>. QED  BY <4>2, <5>1
      <4>. QED  BY <2>6, <2>8, <4>1, <4>2 DEF RegisterSteps
    <3>3. /\ sock' = [sock EXCEPT ![s] = "created"] /\ Start("sender", steps(s) \o <<c(s)>>)
      BY <2>2, <2>8
    <3>. QED  BY <2>1, <2>3, <2>4, <2>5, <3>1, <3>2, <3>3, TakeSocketLife DEF c
  <2>. QED  BY <2>7, <2>8
<1>6. CASE IncomingTcpJob
  <2>1. j.a \in Address
    BY <1>3, <1>4, <1>6 DEF IncomingTcpJob, JobOK, Address
  <2>. DEFINE steps(s) == IF IsBanned(j.a) THEN <<>> ELSE RegisterSocket(j.a, s, FALSE)
  <2>2. PICK s \in NextSocket :
          /\ sock' = [sock EXCEPT ![s] = IF steps(s) = <<>> THEN "deleted" ELSE "open"]
          /\ Start("sender", steps(s))
    BY <1>2, <1>6 DEF IncomingTcpJob
  <2>3. s \in Socket /\ sock[s] = "unused" /\ program["sender"] = <<>>
    BY <1>4, <1>6 DEF IncomingTcpJob, NextSocket
  <2>4. QueueSame
    BY <1>1, <1>2, <1>6, QueueShrinks DEF IncomingTcpJob
  <2>5. UNCHANGED <<info, peerOf, wired>>
    BY <1>6 DEF IncomingTcpJob
  <2>6. steps(s) \in RegisterSteps(j.a, s, FALSE) /\ RegisterSteps(j.a, s, FALSE) \subseteq Seq(Ops)
    <3>1. /\ RegisterSocket(j.a, s, FALSE) \in RegisterSteps(j.a, s, FALSE)
          /\ RegisterSteps(j.a, s, FALSE) \subseteq Seq(Ops)
      BY <2>1, <2>3, RegisterSocketSteps
    <3>2. <<>> \in RegisterSteps(j.a, s, FALSE)
      BY DEF RegisterSteps
    <3>. QED  BY <3>1, <3>2
  <2>. HIDE DEF steps
  <2>7. CASE steps(s) = <<>>
    BY <2>1, <2>2, <2>3, <2>4, <2>5, <2>7, EmptySeq, TakeSocketLife
  <2>8. CASE steps(s) # <<>>
    <3>1. \/ steps(s) = <<Create(j.a, s, FALSE), Announce(j.a)>>
          \/ steps(s) = <<Take(j.a), Attach(j.a, s), SetLocal(j.a, FALSE), Registered(j.a, s)>>
      BY <2>6, <2>8 DEF RegisterSteps
    <3>2. /\ sock' = [sock EXCEPT ![s] = "open"] /\ Start("sender", steps(s))
          /\ steps(s) \in Seq(Ops)
      BY <2>2, <2>6, <2>8
    <3>. QED  BY <2>1, <2>3, <2>4, <2>5, <3>1, <3>2, TakeSocketLife
  <2>. QED  BY <2>7, <2>8
<1>7. CASE WriteJob
  <2>1. QueueSame
    BY <1>1, <1>2, <1>7, QueueShrinks DEF WriteJob
  <2>2. UNCHANGED <<known, sct, peerOf, wired, sock, program>>
    BY <1>7 DEF WriteJob, info
  <2>. QED  BY <2>1, <2>2, SockKept, SameProgramLife
<1>8. CASE DisconnectedJob
  <2>. DEFINE ops == <<Take(j.a)>>
  <2>1. j.a \in Address /\ program["sender"] = <<>>
    BY <1>3, <1>4, <1>8 DEF DisconnectedJob, JobOK
  <2>2. Start("sender", ops)
    BY <1>2, <1>8 DEF DisconnectedJob, RemoveSocket
  <2>3. ops \in Seq(Ops)
    BY <2>1, OpsOf, TupleOf
  <2>4. \A i \in DOMAIN ops : Quiet(ops[i]) /\ ops[i].op # "drop"
    BY DEF Quiet, Take, Op
  <2>. HIDE DEF ops
  <2>5. Pops("sender", ops, 0)
    BY <2>1, <2>2, <2>3, StartPops
  <2>6. UNCHANGED <<info, sockets>>
    BY <1>8 DEF DisconnectedJob
  <2>7. QueueSame /\ SockSame
    BY <1>1, <1>2, <1>8, <2>6, QueueShrinks, SockKept DEF DisconnectedJob, sockets
  <2>8. Dropped'
    BY <2>3, <2>4, <2>5, <2>6, DroppedKept DEF info, sockets
  <2>. QED  BY <2>3, <2>4, <2>5, <2>6, <2>7, <2>8, QuietStep DEF info, sockets
<1>9. CASE DeleteJob
  <2>1. j.op \in {"delete", "deleteLater"} /\ j.s \in Socket /\ program["sender"] = <<>>
    BY <1>3, <1>4, <1>9 DEF DeleteJob, JobOK
  <2>2. UNCHANGED <<known, sct, peerOf, wired, program>>
    BY <1>9 DEF DeleteJob, info
  <2>3. peerOf[j.s] # None /\ \A a \in Address : sct[a] # j.s
    BY <1>2, <2>1 DEF Life, Unpointed
  <2>4. sock[j.s] # "unused"
    BY <1>2, <2>1 DEF Life, Untouched
  <2>5. sock' = sock \/ sock' = [sock EXCEPT ![j.s] = "deleted"]
    BY <1>2, <1>9 DEF DeleteJob
  <2>6. \A s \in Socket : /\ sock'[s] = "deleted" => sock[s] = "deleted" \/ s = j.s
                          /\ sock'[s] = "unused" => sock[s] = "unused"
    BY <2>5 DEF Types, FieldTypes
  <2>7. QueueSame
    <3>1. CASE senderQueue' = Tail(senderQueue)
      BY <1>1, <3>1, QueueShrinks
    <3>2. CASE senderQueue' = Append(Tail(senderQueue), Op("delete", None, j.s))
      <4>1. Op("delete", None, j.s) \in Jobs /\ Harmless(Op("delete", None, j.s))
        BY <2>1, <2>3, <2>4 DEF Jobs, JobRecord, JobOK, Harmless, Op
      <4>2. \A i \in DOMAIN senderQueue' :
               \/ senderQueue'[i] = Op("delete", None, j.s)
               \/ i \in DOMAIN Tail(senderQueue) /\ senderQueue'[i] = Tail(senderQueue)[i]
        BY <1>2, <3>2, <4>1, AppendOf
      <4>3. \A i \in DOMAIN Tail(senderQueue) :
               \E m \in DOMAIN senderQueue : Tail(senderQueue)[i] = senderQueue[m]
        BY <1>1, <1>2, TailOf
      <4>. QED  BY <4>1, <4>2, <4>3 DEF QueueSame
    <3>. QED  BY <1>2, <1>9, <3>1, <3>2 DEF DeleteJob
  <2>8. Untouched'
    BY <2>2, <2>6, <2>7, NoneApart DEF Life, Untouched, QueueSame, Harmless
  <2>9. Pointed'
    BY <2>2, <2>3, <2>6 DEF Life, Pointed, Types, FieldTypes
  <2>10. AttachedOnce' /\ Registering' /\ Announced'
    BY <2>1, <2>2 DEF AttachedOnce, Registering, Announced
  <2>11. Dropped' /\ Wired'
    BY <2>2 DEF Life, Dropped, Wired
  <2>12. Unpointed'
    BY <2>2, <2>7 DEF Life, Unpointed, QueueSame, Harmless
  <2>. QED  BY <2>8, <2>9, <2>10, <2>11, <2>12 DEF Life
<1>. QED  BY <1>5, <1>6, <1>7, <1>8, <1>9 DEF Sender

LEMMA SocketLife ==
  ASSUME Types, Life, NEW s \in Socket, SocketConnects(s) \/ ConnectFails(s) \/ PeerCloses(s)
  PROVE  Life'
<1>. USE SenderIsThread
<1>1. SockSame /\ UNCHANGED <<info, peerOf, wired>>
  BY DEF SocketConnects, ConnectFails, PeerCloses, SockSame, Types, FieldTypes
<1>2. s \in wired => peerOf[s] \in Address
  BY DEF Life, Wired, Types, FieldTypes
<1>3. CASE SocketConnects(s)
  <2>1. PICK ops \in {<<>>, <<SetStatus(peerOf[s], "Connected")>>} :
          Start("sender", ops) /\ (ops = <<>> \/ s \in wired)
    BY <1>3 DEF SocketConnects
  <2>2. ops \in Seq(Ops)
    <3>1. CASE s \in wired
      <4>1. SetStatus(peerOf[s], "Connected") \in Ops
        BY <1>2, <3>1, OpsOf DEF Status
      <4>. QED  BY <2>1, <4>1, TupleOf
    <3>. QED  BY <2>1, <3>1, EmptySeq
  <2>3. /\ \A i \in DOMAIN ops : Quiet(ops[i])
        /\ \A i \in DOMAIN ops : ops[i].op # "drop"
    BY <2>1 DEF Quiet, SetStatus, OpValue
  <2>4. Pops("sender", ops, 0)
    <3>1. program["sender"] = <<>>
      BY <1>3, MayStartIdle DEF SocketConnects
    <3>. QED  BY <2>1, <2>2, <3>1, StartPops
  <2>5. QueueSame
    BY <1>3, QueueKept DEF SocketConnects, queues
  <2>6. Dropped'
    BY <1>1, <2>2, <2>3, <2>4, DroppedKept DEF info
  <2>. QED  BY <1>1, <2>2, <2>3, <2>4, <2>5, <2>6, QuietStep DEF info
<1>4. CASE ConnectFails(s) \/ PeerCloses(s)
  <2>1. program' = program
    BY <1>4 DEF ConnectFails, PeerCloses
  <2>2. QueueSame
    <3>1. CASE senderQueue' = senderQueue
      BY <3>1, QueueKept
    <3>2. CASE s \in wired /\ senderQueue' = Append(senderQueue, Op("disconnected", peerOf[s], None))
      <4>1. Op("disconnected", peerOf[s], None) \in Jobs
            /\ Harmless(Op("disconnected", peerOf[s], None))
        BY <1>2, <3>2 DEF Jobs, JobRecord, JobOK, Harmless, Op
      <4>. QED  BY <3>2, <4>1, QueueGrows
    <3>. QED  BY <1>4, <3>1, <3>2 DEF ConnectFails, PeerCloses, queues
  <2>. QED  BY <1>1, <2>1, <2>2, SameProgramLife DEF info
<1>. QED  BY <1>3, <1>4

\* The main thread or a worker begins a call.
LEMMA StartLife ==
  ASSUME Types, Life, NEW t \in Thread, program[t] = <<>>, NEW ops \in Seq(Ops), Start(t, ops),
         \A i \in DOMAIN ops : Common(ops[i]) /\ ops[i].s = None /\ ops[i].op # "drop",
         UNCHANGED <<known, sct, sockets, senderQueue>>
  PROVE  Life'
<1>1. Pops(t, ops, 0)
  BY StartPops
<1>2. \A i \in DOMAIN ops : Quiet(ops[i])
  BY DEF Quiet, Common
<1>3. SockSame /\ QueueSame
  BY SockKept, QueueKept DEF sockets
<1>4. Dropped'
  BY <1>1, DroppedKept DEF sockets
<1>. QED  BY <1>1, <1>2, <1>3, <1>4, QuietStep DEF sockets

LEMMA MainLife ==
  ASSUME Types, Life, Main
  PROVE  Life'
<1>. USE SenderIsThread
<1>1. program["main"] = <<>> /\ UNCHANGED <<known, sct, sockets, senderQueue>>
  BY MayStartIdle DEF Main, HandleNodeStatusChanged, CheckConfirmendOfNode, ForceTimer, info
<1>2. CASE HandleNodeStatusChanged
  <2>. DEFINE a == mainQueue[1][1]
  <2>1. a \in Address /\ Head(mainQueue) = mainQueue[1]
    BY <1>2, TailOf DEF HandleNodeStatusChanged, Types
  <2>2. PICK ops \in {<<>>, Reset(a)} : Start("main", ops)
    BY <1>2, <2>1 DEF HandleNodeStatusChanged
  <2>3. CASE ops = <<>>
    <3>1. ops \in Seq(Ops) /\ DOMAIN ops = {}
      BY <2>3
    <3>. QED  BY <1>1, <2>2, <3>1, StartLife
  <2>4. CASE ops = Reset(a)
    <3>1. ops \in Seq(Ops) /\ \A i \in DOMAIN ops : Common(ops[i])
      BY <2>1, <2>4, ResetSteps
    <3>2. \A i \in DOMAIN ops : ops[i].s = None /\ ops[i].op # "drop"
      <4>1. ops = <<Take(a), Attach(a, None), SetTrust(a, DefaultTrust),
                    SetStatus(a, "NotConnected"), SetLocal(a, FALSE)>>
        BY <2>1, <2>4, ResetSteps
      <4>. QED  BY <4>1 DEF Take, Attach, SetTrust, SetStatus, SetLocal, Op, OpValue
    <3>. QED  BY <1>1, <2>2, <3>1, <3>2, StartLife
  <2>. QED  BY <2>2, <2>3, <2>4
<1>3. ASSUME NEW a \in Address, CheckConfirmendOfNode(a) PROVE Life'
  <2>1. PICK ops \in {<<>>, <<Remove(a)>>} : Start("main", ops)
    BY <1>3 DEF CheckConfirmendOfNode
  <2>2. ops \in Seq(Ops) /\ \A i \in DOMAIN ops : Common(ops[i])
    BY <2>1, OpsOf, CommonOf, OneStep
  <2>3. \A i \in DOMAIN ops : ops[i].s = None /\ ops[i].op # "drop"
    BY <2>1 DEF Remove, Op
  <2>. QED  BY <1>1, <2>1, <2>2, <2>3, StartLife
<1>4. ASSUME NEW a \in Address, ForceTimer(a) PROVE Life'
  <2>. DEFINE ops == <<ForceRemove(a)>>
  <2>1. Start("main", ops)
    BY <1>4 DEF ForceTimer
  <2>2. ops \in Seq(Ops) /\ \A i \in DOMAIN ops : Common(ops[i])
    BY OpsOf, CommonOf, OneStep
  <2>3. \A i \in DOMAIN ops : ops[i].s = None /\ ops[i].op # "drop"
    BY DEF ForceRemove, Op
  <2>. QED  BY <1>1, <2>1, <2>2, <2>3, StartLife
<1>. QED  BY <1>2, <1>3, <1>4 DEF Main

LEMMA EnvironmentLife ==
  ASSUME Types, Life, Environment
  PROVE  Life'
<1>. USE SenderIsThread
<1>1. ASSUME NEW a \in Address, NEW op \in UserCall, Call(op, a) PROVE Life'
  <2>. DEFINE ops == <<Op(op, a, None)>>
  <2>1. program["main"] = <<>> /\ UNCHANGED <<known, sct, sockets, senderQueue>>
        /\ Start("main", ops)
    BY <1>1, MayStartIdle DEF Call, info, queues
  <2>2. op \in {"remove", "ban", "unBan"}
    BY ConstantsAssumption
  <2>3. Op(op, a, None) \in Ops
    BY <2>2, OpsOf DEF Remove, Ban, UnBan
  <2>4. /\ ops \in Seq(Ops)
        /\ \A i \in DOMAIN ops : Common(ops[i]) /\ ops[i].s = None /\ ops[i].op # "drop"
    BY <2>2, <2>3 DEF Common, Op
  <2>. QED  BY <2>1, <2>4, StartLife
<1>2. ASSUME NEW j \in Jobs, senderQueue' = Append(senderQueue, j), j.s = None,
             j.op \in {"addNode", "incomingTcp"},
             UNCHANGED <<info, sockets, program>>
      PROVE  Life'
  <2>1. QueueSame
    BY <1>2, QueueGrows DEF Harmless
  <2>. QED  BY <1>2, <2>1, SockKept, SameProgramLife DEF info, sockets
<1>3. ASSUME NEW a \in Local, AddNode(a) PROVE Life'
  <2>1. Op("addNode", a, None) \in Jobs
    BY DEF Jobs, JobRecord, JobOK, Op, Address
  <2>. QED  BY <1>2, <1>3, <2>1 DEF AddNode, Op
<1>4. ASSUME NEW a \in Remote, IncomingConnection(a) PROVE Life'
  <2>1. Op("incomingTcp", a, None) \in Jobs
    BY DEF Jobs, JobRecord, JobOK, Op, Address
  <2>. QED  BY <1>2, <1>4, <2>1 DEF IncomingConnection, Op
<1>. QED  BY <1>1, <1>3, <1>4 DEF Environment

LEMMA PackageLife ==
  ASSUME Types, Life, Package
  PROVE  Life'
<1>1. PICK t \in Worker, a \in Address,
           kind \in PackageKind :
         NewWork(t, a, kind)
  BY DEF Package
<1>2. PICK ops \in ParsePackage(a, kind) : Start(t, ops)
  BY <1>1 DEF NewWork
<1>3. ops \in Seq(Ops) /\ \A i \in DOMAIN ops : Common(ops[i])
  BY <1>2, PackageSteps
<1>4. \A i \in DOMAIN ops : ops[i].s = None /\ ops[i].op # "drop"
  <2>1. \/ ops = <<Confirmable(a)>> \/ ops = <<Remove(a), Confirmable(a)>>
        \/ ops = <<Send(a), Confirmable(a)>>
        \/ \E p \in Penalty : \/ ops = <<ReadTrust(a, p, FALSE)>>
                              \/ ops = <<ReadTrust(a, p, TRUE)>>
    BY <1>2, PackageSteps
  <2>. QED  BY <2>1 DEF Confirmable, Send, Remove, ReadTrust, Op, OpValue
<1>5. t \in Thread /\ program[t] = <<>> /\ UNCHANGED <<known, sct, sockets, senderQueue>>
  BY <1>1, SenderIsThread, MayStartIdle DEF NewWork, info, queues
<1>. QED  BY <1>2, <1>3, <1>4, <1>5, StartLife

(***************************************************************************)
(* The invariant.                                                          *)
(***************************************************************************)
Inv == Types /\ Life

LEMMA InvInit == Init => Inv
<1>. SUFFICES ASSUME Init PROVE Inv
  OBVIOUS
<1>1. FieldTypes
  <2>1. "NotConnected" \in Status /\ DefaultTrust \in Int /\ 0 \in 0 .. MaxCalls
        /\ 0 \in 0 .. MaxPackages
    BY ConstantsAssumption DEF Status, DefaultTrust
  <2>2. /\ sct \in [Address -> Socket \cup {None}] /\ status \in [Address -> Status]
        /\ trust \in [Address -> Int] /\ isLocal \in [Address -> BOOLEAN]
        /\ peerOf \in [Socket -> Address \cup {None}] /\ heard \in [Address -> Status]
    BY <2>1 DEF Init
  <2>3. sock \in [Socket -> {"unused", "created", "connecting", "open", "closed", "deleted"}]
    BY DEF Init
  <2>. QED  BY <2>1, <2>2, <2>3 DEF Init, FieldTypes
<1>2. program \in [Thread -> Seq(Ops)] /\ senderQueue \in Seq(Jobs)
      /\ mainQueue \in Seq(Address \X Status)
  BY DEF Init
<1>3. \A t \in Thread : program[t] = <<>>
  BY DEF Init
<1>4. Types
  BY <1>1, <1>2, <1>3 DEF Types
<1>5. Life
  BY <1>3, SenderIsThread DEF Init, Life, Untouched, Pointed, AttachedOnce, Dropped, Unpointed,
     Registering, Wired, Announced
<1>. QED  BY <1>4, <1>5 DEF Inv

LEMMA InvNext == Inv /\ [Next]_vars => Inv'
<1>. SUFFICES ASSUME Inv, [Next]_vars PROVE Inv'
  OBVIOUS
<1>0. Types /\ Life
  BY DEF Inv
<1>1. ASSUME NEW t \in Thread, Access(t) PROVE Inv'
  BY <1>0, <1>1, AccessTypes, CallTypes, AccessLife DEF Access, Inv
<1>2. CASE Register
  BY <1>0, <1>2, RegisterTypes, RegisterLife DEF Inv, Life
<1>3. CASE Sender
  BY <1>0, <1>3, SenderTypes, SenderLife DEF Inv
<1>4. ASSUME NEW s \in Socket, SocketConnects(s) \/ ConnectFails(s) \/ PeerCloses(s) PROVE Inv'
  <2>1. s \in wired => peerOf[s] \in Address
    BY <1>0 DEF Life, Wired, Types, FieldTypes
  <2>. QED  BY <1>0, <1>4, <2>1, SocketTypes, SocketLife DEF Inv
<1>5. CASE Main
  BY <1>0, <1>5, MainTypes, MainLife DEF Inv
<1>6. CASE Environment
  BY <1>0, <1>6, EnvironmentTypes, EnvironmentLife DEF Inv
<1>7. CASE Package
  BY <1>0, <1>7, PackageTypes, PackageLife DEF Inv
<1>8. CASE UNCHANGED vars
  BY <1>0, <1>8 DEF Inv, Types, FieldTypes, Life, Untouched, Pointed, AttachedOnce, Dropped, Unpointed,
     Registering, Wired, Announced, Attaches, vars
<1>. QED  BY <1>1, <1>2, <1>3, <1>4, <1>5, <1>6, <1>7, <1>8 DEF Next, SocketEvent

LEMMA InvHolds == Spec => []Inv
<1>1. Init => Inv
  BY InvInit
<1>2. Inv /\ [Next]_vars => Inv'
  BY InvNext
<1>. QED  BY <1>1, <1>2, PTL DEF Spec

\* What a thread may do and what may wait, in the form of TypeOK.
LEMMA OpsAreOperations == Ops \subseteq Operation
BY DEF Ops, OpRecord, OpOK, Names, Operation

LEMMA JobsAreEvents == Jobs \subseteq Event
BY DEF Jobs, JobRecord, JobOK, Event

LEMMA SeqOfSubset ==
  ASSUME NEW S, NEW T, S \subseteq T, NEW q \in Seq(S)
  PROVE  q \in Seq(T)
BY SMT

\* Whatever the threads do, the fields of the infos and the states of the
\* sockets are what the code gives them, every access a thread has still to
\* make and every event that waits has its arguments (a socket to delete, an
\* address and a status to report), and only the sender thread registers
\* sockets.
THEOREM TypeCorrectness == Spec => []TypeOK
<1>1. Inv => TypeOK
  <2>. SUFFICES ASSUME Types PROVE TypeOK
    BY DEF Inv
  <2>1. FieldTypes /\ mainQueue \in Seq(Address \X Status)
    BY DEF Types
  <2>2. \A t \in Thread : program[t] \in Seq(Ops)
    BY DEF Types
  <2>3. \A t \in Thread : program[t] \in Seq(Operation)
    BY <2>2, OpsAreOperations, SeqOfSubset
  <2>4. program \in [Thread -> Seq(Operation)]
    BY <2>3 DEF Types
  <2>5. senderQueue \in Seq(Event)
    BY JobsAreEvents, SeqOfSubset DEF Types
  <2>6. RegistersInSender
    <3>. SUFFICES ASSUME NEW t \in Thread, NEW i \in DOMAIN program[t], t # "sender"
                  PROVE  \/ program[t][i].op \notin {"create", "registered", "announce", "connect", "attach"}
                         \/ program[t][i].op = "attach" /\ program[t][i].s = None
      BY DEF RegistersInSender
    <3>. QED  BY DEF Types
  <2>. QED  BY <2>1, <2>4, <2>5, <2>6 DEF TypeOK
<1>. QED  BY <1>1, InvHolds, PTL

\* An info never points to a deleted socket, for any number of threads inside
\* removeSocket, setSct and registerSocket at once.
THEOREM SocketsAlive == Spec => []SctAlive
<1>1. Inv => SctAlive
  BY DEF Inv, Life, Pointed, SctAlive
<1>. QED  BY <1>1, InvHolds, PTL

(***************************************************************************)
(* What the node has been told of an info: the events that wait in the     *)
(* main thread end with the present status.                                *)
(***************************************************************************)
Silent(a) == \A i \in DOMAIN mainQueue : mainQueue[i][1] # a

Told(a) ==
    \/ heard[a] = status[a] /\ Silent(a)
    \/ \E i \in DOMAIN mainQueue :
          /\ mainQueue[i][1] = a /\ mainQueue[i][2] = status[a]
          /\ \A j \in DOMAIN mainQueue : mainQueue[j][1] = a => j <= i

\* An access that will change, or lead to a change of, the status of its info to
\* something else than NotConnected.
Loud(x) ==
    \/ x.op = "confirmable"
    \/ x.op = "status" /\ x.v # "NotConnected"
    \/ x.op = "attach" /\ x.s # None

\* Nothing has happened to an info that the node does not watch yet.
ToldAll ==
    \A a \in Local :
        /\ a \in watched => Told(a)
        /\ a \notin watched => status[a] = "NotConnected" /\ heard[a] = "NotConnected" /\ Silent(a)

LoudAll ==
    \A t \in Thread : \A i \in DOMAIN program[t] :
        LET x == program[t][i]
        IN  /\ Loud(x) => x.a \in watched \/ x.a \notin Local
            /\ x.op = "attach" /\ x.s # None => x.a \in known

WatchSoon ==
    \A a \in known \ watched :
        \E i \in DOMAIN program["sender"] : program["sender"][i] = Announce(a)

WiredKnown == \A s \in wired : peerOf[s] \in known

Creating ==
    \A i \in DOMAIN program["sender"] : program["sender"][i].op = "create" =>
        LET o == program["sender"][i]
        IN  /\ i = 1 /\ o.a \notin known
            /\ 2 \in DOMAIN program["sender"] /\ program["sender"][2] = Announce(o.a)
            /\ o.a \in Local => sock[o.s] = "created"

Hearing == ToldAll /\ LoudAll /\ WatchSoon /\ WiredKnown /\ Creating

LEMMA ToldStays ==
  ASSUME Hearing, UNCHANGED <<status, heard, mainQueue, watched>>
  PROVE  ToldAll'
BY DEF Hearing, ToldAll, Told, Silent

\* What a thread does next, when it registers no new info.
Mute(x) ==
    /\ x.op \notin {"create", "announce"}
    /\ Loud(x) => x.a \in watched \/ x.a \notin Local
    /\ x.op = "attach" /\ x.s # None => x.a \in known

LEMMA MuteStep ==
  ASSUME Types, Life, Hearing, NEW t \in Thread, NEW ops \in Seq(Ops), NEW k \in {0, 1},
         Pops(t, ops, k),
         \A i \in DOMAIN ops : Mute(ops[i]),
         k = 1 => program[t][1].op \notin {"create", "announce"},
         t = "sender" \/ sock' = sock,
         known' = known, watched' = watched
  PROVE  LoudAll' /\ WatchSoon' /\ Creating'
<1>. USE SenderIsThread
<1>. DEFINE n == Len(ops)
            p == program[t]
            q == program'[t]
<1>1. /\ Len(p) \in Nat /\ DOMAIN p = 1 .. Len(p) /\ (k = 0 => Len(p) = 0)
      /\ \A u \in Thread \ {t} : program'[u] = program[u]
  BY LenProperties, ElementOfSeq, EmptySeq DEF Types, Pops
<1>2. \A i \in DOMAIN q :
         \/ i \in DOMAIN ops /\ q[i] = ops[i]
         \/ \E j \in DOMAIN p : j > 1 /\ k = 1 /\ i = j + n - 1 /\ q[i] = p[j]
  BY PopsOf
<1>. HIDE DEF q
<1>3. LoudAll'
  <2>1. \A i \in DOMAIN q :
           /\ Loud(q[i]) => q[i].a \in watched \/ q[i].a \notin Local
           /\ q[i].op = "attach" /\ q[i].s # None => q[i].a \in known
    BY <1>2 DEF Hearing, LoudAll, Mute
  <2>2. \A u \in Thread \ {t} : \A i \in DOMAIN program'[u] :
           LET x == program'[u][i]
           IN  /\ Loud(x) => x.a \in watched \/ x.a \notin Local
               /\ x.op = "attach" /\ x.s # None => x.a \in known
    BY <1>1 DEF Hearing, LoudAll
  <2>. QED  BY <2>1, <2>2 DEF LoudAll, Loud, q
<1>4. CASE t = "sender"
  <2>1. \A j \in DOMAIN p : p[j].op \notin {"create", "announce"}
    <3>1. \A j \in DOMAIN p : p[j].op = "create" => j = 1
      BY <1>4 DEF Hearing, Creating
    <3>2. \A j \in DOMAIN p : p[j].op = "announce" => j = 1 \/ p[1].op = "create"
      BY <1>4 DEF Life, Announced
    <3>3. k = 0 => DOMAIN p = {}
      BY <1>1
    <3>. QED  BY <3>1, <3>2, <3>3
  <2>2. \A i \in DOMAIN q : q[i].op \notin {"create", "announce"}
    BY <1>2, <2>1 DEF Mute
  <2>3. known \ watched = {}
    <3>1. \A a \in Address : Announce(a).op = "announce"
      BY DEF Announce, Op
    <3>2. \A a \in known : a \in Address
      BY DEF Types, FieldTypes
    <3>. QED  BY <1>4, <2>1, <3>1, <3>2 DEF Hearing, WatchSoon
  <2>. QED  BY <1>3, <1>4, <2>2, <2>3 DEF WatchSoon, Creating, q
<1>5. CASE t # "sender"
  <2>1. program'["sender"] = program["sender"] /\ sock' = sock
    BY <1>1, <1>5
  <2>. QED  BY <1>3, <2>1 DEF Hearing, WatchSoon, Creating
<1>. QED  BY <1>4, <1>5

LEMMA FollowsMute ==
  ASSUME Hearing, NEW t \in Thread, 1 \in DOMAIN program[t],
         NEW ops, Follows(program[t][1], ops)
  PROVE  \A i \in DOMAIN ops : Mute(ops[i])
<1>. DEFINE o == program[t][1]
            G == \A i \in DOMAIN ops : Mute(ops[i])
<1>1. Loud(o) => o.a \in watched \/ o.a \notin Local
  BY DEF Hearing, LoudAll
<1>. HIDE DEF o
<1>. USE DEF Mute, Loud, Op, OpValue
<1>2. ops = <<>> => G
  OBVIOUS
<1>3. ops = <<Null(o.a, sct[o.a]), Drop(o.a, sct[o.a]), SetStatus(o.a, "NotConnected")>> => G
  BY DEF Null, Drop, SetStatus
<1>4. o.op = "attach" /\ o.s # None /\ ops = <<SetStatus(o.a, "Connected")>> => G
  BY <1>1 DEF SetStatus
<1>5. o.op = "confirmable" /\ ops = <<SetStatus(o.a, "Confirmed")>> => G
  BY <1>1 DEF SetStatus
<1>6. ops = <<Take(o.a)>> \/ ops = <<Send(o.a)>> \/ ops = <<Ban(o.a)>>
        \/ ops = <<SetTrust(o.a, Baned)>> \/ ops = <<Write(o.a, sct[o.a])>> => G
  BY DEF Take, Send, Ban, SetTrust, Write
<1>7. ASSUME NEW v \in Int, ops = <<SetTrust(o.a, v)>> \/ ops = <<SetTrust(o.a, v), Send(o.a)>>
      PROVE  G
  BY <1>7 DEF SetTrust, Send
<1>. HIDE DEF G
<1>8. Follows(o, ops)
  BY DEF o
<1>9. G
  BY <1>2, <1>3, <1>4, <1>5, <1>6, <1>7, <1>8 DEF Follows
<1>. QED  BY <1>9 DEF G

\* setStatus: the event that it posts is the last one for the info.
LEMMA StatusTold ==
  ASSUME Types, Hearing, NEW t \in Thread, DoStatus(t), NEW o, o = program[t][1],
         Head(program[t]) = o, 1 \in DOMAIN program[t], o.a \in Address, o.v \in Status
  PROVE  ToldAll'
<1>1. /\ status' = [status EXCEPT ![o.a] = o.v]
      /\ mainQueue' = IF status[o.a] # o.v /\ o.a \in watched
                      THEN Append(mainQueue, <<o.a, o.v>>) ELSE mainQueue
      /\ UNCHANGED <<heard, watched>>
  BY DEF DoStatus
<1>2. \A a \in Address : status'[a] = IF a = o.a THEN o.v ELSE status[a]
  BY <1>1 DEF Types, FieldTypes
<1>3. o.a \in Local /\ o.a \notin watched => o.v = "NotConnected"
  <2>1. Loud(o) => o.a \in watched \/ o.a \notin Local
    BY DEF Hearing, LoudAll
  <2>2. o.op = "status"
    BY DEF DoStatus, At
  <2>. QED  BY <2>1, <2>2 DEF Loud
<1>4. CASE status[o.a] # o.v /\ o.a \in watched
  <2>. DEFINE e == <<o.a, o.v>>
  <2>1. e \in Address \X Status /\ mainQueue \in Seq(Address \X Status) /\ e[1] = o.a /\ e[2] = o.v
    BY DEF Types
  <2>2. mainQueue' = Append(mainQueue, e)
    BY <1>1, <1>4
  <2>. HIDE DEF e
  <2>3. /\ Len(mainQueue) \in Nat /\ DOMAIN mainQueue = 1 .. Len(mainQueue)
        /\ DOMAIN mainQueue' = 1 .. Len(mainQueue) + 1
        /\ \A i \in 1 .. Len(mainQueue) + 1 :
              mainQueue'[i] = IF i <= Len(mainQueue) THEN mainQueue[i] ELSE e
    BY <2>1, <2>2, AppendOf
  <2>4. \A i \in DOMAIN mainQueue : i \in DOMAIN mainQueue' /\ mainQueue'[i] = mainQueue[i]
    BY <2>3
  <2>5. /\ Len(mainQueue) + 1 \in DOMAIN mainQueue' /\ mainQueue'[Len(mainQueue) + 1] = e
        /\ \A j \in DOMAIN mainQueue' : j <= Len(mainQueue) + 1
        /\ \A j \in DOMAIN mainQueue' : j \in DOMAIN mainQueue \/ mainQueue'[j] = e
    BY <2>3
  <2>6. Told(o.a)'
    <3>1. status'[o.a] = o.v
      BY <1>2
    <3>. QED  BY <2>1, <2>5, <3>1 DEF Told
  <2>7. ASSUME NEW a \in Local, a # o.a, a \in watched PROVE Told(a)'
    <3>1. Told(a)
      BY <2>7 DEF Hearing, ToldAll
    <3>2. status'[a] = status[a] /\ heard'[a] = heard[a]
      BY <1>1, <1>2, <2>7 DEF Address
    <3>3. CASE heard[a] = status[a] /\ Silent(a)
      BY <2>1, <2>4, <2>5, <2>7, <3>2, <3>3 DEF Told, Silent
    <3>4. ASSUME NEW i \in DOMAIN mainQueue, mainQueue[i][1] = a, mainQueue[i][2] = status[a],
                 \A j \in DOMAIN mainQueue : mainQueue[j][1] = a => j <= i
          PROVE  Told(a)'
      <4>1. \A j \in DOMAIN mainQueue' : mainQueue'[j][1] = a => j <= i
        BY <2>1, <2>4, <2>5, <2>7, <3>4
      <4>. QED  BY <2>4, <3>2, <3>4, <4>1 DEF Told
    <3>. QED  BY <3>1, <3>3, <3>4 DEF Told
  <2>8. ASSUME NEW a \in Local, a \notin watched
        PROVE  status'[a] = "NotConnected" /\ heard'[a] = "NotConnected" /\ Silent(a)'
    <3>1. a # o.a
      BY <1>4, <2>8
    <3>. QED  BY <1>1, <1>2, <2>1, <2>4, <2>5, <2>8, <3>1 DEF Hearing, ToldAll, Silent, Address
  <2>. QED  BY <1>1, <2>6, <2>7, <2>8 DEF ToldAll
<1>5. CASE ~(status[o.a] # o.v /\ o.a \in watched)
  <2>1. mainQueue' = mainQueue
    BY <1>1, <1>5
  <2>2. \A a \in Local : status'[a] = status[a]
    <3>1. CASE status[o.a] = o.v
      BY <1>2, <3>1 DEF Address
    <3>2. CASE o.a \notin watched
      BY <1>2, <1>3, <3>2 DEF Address, Hearing, ToldAll
    <3>. QED  BY <1>5, <3>1, <3>2
  <2>. QED  BY <1>1, <2>1, <2>2 DEF Hearing, ToldAll, Told, Silent
<1>. QED  BY <1>4, <1>5

LEMMA AccessHearing ==
  ASSUME Types, Life, Hearing, NEW t \in Thread, Access(t)
  PROVE  Hearing'
<1>. DEFINE o == program[t][1]
<1>1. /\ program[t] # <<>> /\ Head(program[t]) = o /\ o \in Ops
      /\ o.a \in Address /\ o.s \in Socket \cup {None} /\ OpOK(o) /\ 1 \in DOMAIN program[t]
  BY AccessPops
<1>2. PICK ops \in Seq(Ops) : Pops(t, ops, 1) /\ Follows(o, ops)
  BY AccessPops
<1>3. \A i \in DOMAIN ops : Mute(ops[i])
  BY <1>1, <1>2, FollowsMute
<1>4. /\ known' = known /\ watched' = watched /\ sock' = sock /\ heard' = heard
      /\ o.op \notin {"create", "announce"}
      /\ DoStatus(t) \/ UNCHANGED <<status, mainQueue>>
      /\ \/ peerOf' = peerOf /\ wired' \subseteq wired
         \/ /\ o.op = "attach" /\ o.s \in Socket
            /\ peerOf' = [peerOf EXCEPT ![o.s] = o.a] /\ wired' = wired \cup {o.s}
  <2>1. CASE DoTake(t)
    BY <1>1, <2>1 DEF DoTake, At, info, sockets, queues
  <2>2. CASE DoNull(t)
    BY <1>1, <2>2 DEF DoNull, At, info, sockets, queues
  <2>3. CASE DoDrop(t)
    BY <1>1, <2>3 DEF DoDrop, At, info, sockets, queues
  <2>4. CASE DoStatus(t)
    BY <1>1, <2>4 DEF DoStatus, At, info, sockets, queues
  <2>5. CASE DoAttach(t)
    BY <1>1, <2>5 DEF DoAttach, At, info, sockets, queues
  <2>6. CASE DoTrust(t)
    BY <1>1, <2>6 DEF DoTrust, At, info, sockets, queues
  <2>7. CASE DoLocal(t)
    BY <1>1, <2>7 DEF DoLocal, At, info, sockets, queues
  <2>8. CASE DoConfirmable(t)
    BY <1>1, <2>8 DEF DoConfirmable, At, info, sockets, queues
  <2>9. CASE DoRemove(t)
    BY <1>1, <2>9 DEF DoRemove, At, info, sockets, queues
  <2>10. CASE DoForceRemove(t)
    BY <1>1, <2>10 DEF DoForceRemove, At, info, sockets, queues
  <2>11. CASE DoBan(t)
    BY <1>1, <2>11 DEF DoBan, At, info, sockets, queues
  <2>12. CASE DoUnBan(t)
    BY <1>1, <2>12 DEF DoUnBan, At, info, sockets, queues
  <2>13. CASE DoSend(t)
    BY <1>1, <2>13 DEF DoSend, At, info, sockets, queues
  <2>14. CASE DoWrite(t)
    BY <1>1, <2>14 DEF DoWrite, At, info, sockets, queues
  <2>15. CASE DoReadTrust(t)
    BY <1>1, <2>15 DEF DoReadTrust, At, info, sockets, queues
  <2>. QED  BY <2>1, <2>2, <2>3, <2>4, <2>5, <2>6, <2>7, <2>8,
            <2>9, <2>10, <2>11, <2>12, <2>13, <2>14, <2>15
            DEF Access, InfoAccess, NodeCall
<1>5. LoudAll' /\ WatchSoon' /\ Creating'
  BY <1>2, <1>3, <1>4, MuteStep
<1>6. ToldAll'
  <2>1. CASE DoStatus(t)
    <3>1. o.v \in Status
      BY <1>1, <2>1 DEF DoStatus, At, OpOK
    <3>. QED  BY <1>1, <2>1, <3>1, StatusTold
  <2>. QED  BY <1>4, <2>1, ToldStays
<1>7. WiredKnown'
  <2>1. CASE peerOf' = peerOf /\ wired' \subseteq wired
    BY <1>4, <2>1 DEF Hearing, WiredKnown
  <2>2. CASE /\ o.op = "attach" /\ o.s \in Socket
             /\ peerOf' = [peerOf EXCEPT ![o.s] = o.a] /\ wired' = wired \cup {o.s}
    <3>1. o.a \in known
      BY <1>1, <2>2, NoneApart DEF Hearing, LoudAll
    <3>2. \A s \in Socket : peerOf'[s] = IF s = o.s THEN o.a ELSE peerOf[s]
      BY <2>2 DEF Types, FieldTypes
    <3>. QED  BY <1>4, <2>2, <3>1, <3>2 DEF Hearing, WiredKnown, Types, FieldTypes
  <2>. QED  BY <1>4, <2>1, <2>2
<1>. QED  BY <1>5, <1>6, <1>7 DEF Hearing

\* While the sender thread is idle every info of the node is watched.
LEMMA IdleWatched ==
  ASSUME Types, Hearing, program["sender"] = <<>>
  PROVE  known = watched
<1>1. DOMAIN program["sender"] = {}
  OBVIOUS
<1>. QED  BY <1>1 DEF Types, FieldTypes, Hearing, WatchSoon

LEMMA StartHearing ==
  ASSUME Types, Life, Hearing, NEW t \in Thread, program[t] = <<>>, NEW ops \in Seq(Ops),
         Start(t, ops), \A i \in DOMAIN ops : Mute(ops[i]),
         t = "sender" \/ \A i \in DOMAIN ops : Common(ops[i]),
         t = "sender" \/ sock' = sock,
         UNCHANGED <<known, watched, status, heard, mainQueue, peerOf, wired>>
  PROVE  Hearing'
<1>1. 0 \in {0, 1} /\ Pops(t, ops, 0)
  BY StartPops
<1>2. LoudAll' /\ WatchSoon' /\ Creating'
  BY <1>1, MuteStep
<1>. QED  BY <1>2, ToldStays DEF Hearing, WiredKnown

LEMMA SameHearing ==
  ASSUME Hearing, UNCHANGED <<program, known, watched, status, heard, mainQueue, peerOf, wired>>,
         sock' = sock \/ program["sender"] = <<>>
  PROVE  Hearing'
<1>1. ToldAll'
  BY ToldStays
<1>2. LoudAll' /\ WatchSoon' /\ WiredKnown' /\ Creating'
  BY DEF Hearing, LoudAll, Loud, WatchSoon, WiredKnown, Creating
<1>. QED  BY <1>1, <1>2 DEF Hearing

LEMMA RegisterHearing ==
  ASSUME Types, Life, Hearing, Register
  PROVE  Hearing'
<1>. DEFINE o == program["sender"][1]
            p == program["sender"]
            q == program'["sender"]
<1>. USE SenderIsThread
<1>1. /\ p # <<>> /\ p \in Seq(Ops) /\ 1 \in DOMAIN p /\ o \in Ops /\ Head(p) = o
      /\ o.a \in Address /\ o.s \in Socket \cup {None} /\ OpOK(o)
  <2>1. p # <<>>
    BY DEF Register, DoCreate, DoAnnounce, DoRegistered, DoConnect, At
  <2>2. p \in Seq(Ops) /\ 1 \in DOMAIN p /\ o \in Ops /\ Head(p) = o
    BY <2>1, TailOf DEF Types
  <2>. QED  BY <2>1, <2>2 DEF Ops, OpRecord
<1>2. <<>> \in Seq(Ops) /\ DOMAIN <<>> = {}
  OBVIOUS
<1>3. Continue("sender", <<>>) => Pops("sender", <<>>, 1)
  BY <1>1, <1>2, ContinuePops
<1>4. \A a \in Address : Announce(a).op = "announce" /\ Announce(a).a = a
  BY DEF Announce, Op
<1>5. /\ \A i \in DOMAIN p : p[i].op = "create" => i = 1
      /\ \A a \in Address, i \in DOMAIN p : p[i] = Announce(a) =>
            \/ i = 1
            \/ i = 2 /\ o.op = "create" /\ o.a = a
  <2>1. \A i \in DOMAIN p : p[i].op = "create" => i = 1
    BY DEF Hearing, Creating
  <2>2. \A i \in DOMAIN p : p[i].op = "announce" =>
           \/ i = 1
           \/ i = 2 /\ o.op = "create" /\ o.a = p[i].a
    BY DEF Life, Announced
  <2>. QED  BY <1>4, <2>1, <2>2
<1>6. \A a \in known : a \in Address
  BY DEF Types, FieldTypes
<1>7. ASSUME Continue("sender", <<>>)
      PROVE  /\ \A i \in DOMAIN q : i + 1 \in DOMAIN p /\ q[i] = p[i + 1] /\ i \in Nat \ {0}
             /\ \A i \in DOMAIN p : i > 1 => i - 1 \in DOMAIN q /\ q[i - 1] = p[i]
             /\ \A u \in Thread \ {"sender"} : program'[u] = program[u]
  <2>1. q = <<>> \o Tail(p) /\ \A u \in Thread \ {"sender"} : program'[u] = program[u]
    BY <1>7 DEF Continue, Types
  <2>2. /\ Tail(p) \in Seq(Ops) /\ Len(p) \in Nat \ {0} /\ DOMAIN p = 1 .. Len(p)
        /\ DOMAIN Tail(p) = 1 .. Len(p) - 1
        /\ \A i \in 1 .. Len(p) - 1 : Tail(p)[i] = p[i + 1]
    BY <1>1, TailOf
  <2>3. q = Tail(p)
    BY <2>1, <2>2, ConcatProperties
  <2>. QED  BY <2>1, <2>2, <2>3
<1>. HIDE DEF q
<1>8. CASE DoCreate
  <2>1. o.op = "create" /\ o.s \in Socket /\ Continue("sender", <<>>)
    BY <1>1, <1>8 DEF DoCreate, At, OpOK
  <2>2. /\ o.a \notin known /\ 2 \in DOMAIN p /\ p[2] = Announce(o.a)
        /\ o.a \in Local => sock[o.s] = "created"
    BY <1>1, <2>1 DEF Hearing, Creating
  <2>3. /\ known' = known \cup {o.a}
        /\ status' = [status EXCEPT ![o.a] =
                         IF sock[o.s] = "open" THEN "Connected" ELSE "NotConnected"]
        /\ peerOf' = [peerOf EXCEPT ![o.s] = o.a] /\ wired' = wired \cup {o.s}
        /\ UNCHANGED <<watched, sock, heard, mainQueue>>
    BY <1>1, <1>8 DEF DoCreate, queues
  <2>4. \A a \in Local : status'[a] = IF a = o.a THEN "NotConnected" ELSE status[a]
    BY <1>1, <2>2, <2>3 DEF Types, FieldTypes, Address
  <2>5. ToldAll'
    <3>1. o.a \notin watched
      BY <2>2 DEF Types, FieldTypes
    <3>. QED  BY <2>3, <2>4, <3>1 DEF Hearing, ToldAll, Told, Silent
  <2>6. LoudAll'
    BY <1>7, <2>1, <2>3 DEF Hearing, LoudAll, Loud, q
  <2>7. WatchSoon'
    <3>1. known \ watched = {}
      BY <1>5, <1>6, <2>1, <2>2, <1>4 DEF Hearing, WatchSoon
    <3>2. 1 \in DOMAIN q /\ q[1] = Announce(o.a)
      <4>1. 2 - 1 = 1 /\ 2 > 1
        OBVIOUS
      <4>. QED  BY <1>7, <2>1, <2>2, <4>1
    <3>. QED  BY <2>3, <3>1, <3>2 DEF WatchSoon, q
  <2>8. WiredKnown'
    <3>1. \A s \in Socket : peerOf'[s] = IF s = o.s THEN o.a ELSE peerOf[s]
      BY <2>3 DEF Types, FieldTypes
    <3>. QED  BY <2>1, <2>3, <3>1 DEF Hearing, WiredKnown, Types, FieldTypes
  <2>9. Creating'
    <3>1. \A i \in DOMAIN q : q[i].op # "create"
      BY <1>5, <1>7, <2>1
    <3>. QED  BY <3>1 DEF Creating, q
  <2>. QED  BY <2>5, <2>6, <2>7, <2>8, <2>9 DEF Hearing
<1>9. CASE DoAnnounce
  <2>1. o.op = "announce" /\ Continue("sender", <<>>)
    BY <1>1, <1>9 DEF DoAnnounce, At
  <2>2. /\ watched' = watched \cup {o.a}
        /\ UNCHANGED <<known, status, peerOf, wired, sock, heard, mainQueue>>
    BY <1>1, <1>9 DEF DoAnnounce, sockets
  <2>3. ToldAll'
    BY <2>2 DEF Hearing, ToldAll, Told, Silent
  <2>4. LoudAll'
    BY <1>7, <2>1, <2>2 DEF Hearing, LoudAll, Loud, q
  <2>5. WatchSoon'
    <3>1. known \ watched' = {}
      BY <1>4, <1>5, <1>6, <2>1, <2>2 DEF Hearing, WatchSoon
    <3>. QED  BY <2>2, <3>1 DEF WatchSoon
  <2>6. WiredKnown'
    BY <2>2 DEF Hearing, WiredKnown
  <2>7. Creating'
    <3>1. \A i \in DOMAIN q : q[i].op # "create"
      BY <1>5, <1>7, <2>1
    <3>. QED  BY <3>1 DEF Creating, q
  <2>. QED  BY <2>3, <2>4, <2>5, <2>6, <2>7 DEF Hearing
<1>10. CASE DoConnect \/ DoRegistered
  <2>1. /\ o.op \notin {"create", "announce"} /\ wired' \subseteq wired
        /\ UNCHANGED <<known, watched, status, peerOf, heard, mainQueue>>
        /\ Continue("sender", <<>>) \/ Start("sender", <<>>)
    BY <1>1, <1>10 DEF DoConnect, DoRegistered, At, info, queues
  <2>2. ToldAll' /\ WiredKnown'
    BY <2>1, ToldStays DEF Hearing, WiredKnown
  <2>3. CASE Continue("sender", <<>>)
    BY <1>2, <1>3, <2>1, <2>2, <2>3, MuteStep DEF Hearing
  <2>4. CASE Start("sender", <<>>)
    <3>1. q = <<>> /\ \A u \in Thread \ {"sender"} : program'[u] = program[u]
      BY <2>4 DEF Start, Types, q
    <3>2. known \ watched = {}
      BY <1>4, <1>5, <1>6, <2>1 DEF Hearing, WatchSoon
    <3>3. DOMAIN q = {}
      BY <3>1
    <3>4. LoudAll'
      BY <2>1, <3>1, <3>3 DEF Hearing, LoudAll, Loud, q
    <3>5. WatchSoon' /\ Creating'
      BY <2>1, <3>2, <3>3 DEF WatchSoon, Creating, q
    <3>. QED  BY <2>2, <3>4, <3>5 DEF Hearing
  <2>. QED  BY <2>1, <2>3, <2>4
<1>. QED  BY <1>8, <1>9, <1>10 DEF Register

\* A job that registers a socket begins.
LEMMA TakeSocketHearing ==
  ASSUME Types, Life, Hearing, NEW a \in Address, NEW s \in Socket,
         program["sender"] = <<>>, NEW ops \in Seq(Ops), Start("sender", ops),
         NEW b \in BOOLEAN, sock[s] = "unused",
         \/ ops = <<>>
         \/ a \notin known /\ ops = <<Create(a, s, b), Announce(a)>>
         \/ a \notin known /\ ops = <<Create(a, s, b), Announce(a), Op("connect", a, s)>>
         \/ /\ a \in known
            /\ ops = <<Take(a), Attach(a, s), SetLocal(a, b), Registered(a, s)>>
         \/ /\ a \in known
            /\ ops = <<Take(a), Attach(a, s), SetLocal(a, b), Registered(a, s),
                       Op("connect", a, s)>>,
         UNCHANGED <<known, watched, status, heard, mainQueue, peerOf, wired>>,
         NEW st, sock' = [sock EXCEPT ![s] = st], a \in Local /\ ops # <<>> => st = "created"
  PROVE  Hearing'
<1>. USE SenderIsThread
<1>1. known = watched /\ s # None
  BY IdleWatched, NoneApart
<1>2. CASE a \in known \/ ops = <<>>
  <2>1. \A i \in DOMAIN ops : Mute(ops[i])
    <3>. USE DEF Mute, Loud, Take, Attach, SetLocal, Registered, Op, OpValue
    <3>1. CASE ops = <<>>
      BY <3>1
    <3>2. CASE ops = <<Take(a), Attach(a, s), SetLocal(a, b), Registered(a, s)>>
      BY <1>1, <1>2, <3>1, <3>2
    <3>3. CASE ops = <<Take(a), Attach(a, s), SetLocal(a, b), Registered(a, s),
                       Op("connect", a, s)>>
      BY <1>1, <1>2, <3>1, <3>3
    <3>. QED  BY <1>2, <3>1, <3>2, <3>3
  <2>. QED  BY <2>1, StartHearing
<1>3. CASE a \notin known /\ ops # <<>>
  <2>. DEFINE q == program'["sender"]
  <2>1. q = ops /\ \A u \in Thread \ {"sender"} : program'[u] = program[u]
    BY DEF Start, Types
  <2>2. /\ 2 \in DOMAIN q /\ q[1] = Create(a, s, b) /\ q[2] = Announce(a)
        /\ \A i \in DOMAIN q : ~ Loud(q[i]) /\ (q[i].op = "create" => i = 1)
    <3>. USE DEF Loud, Create, Announce, Op
    <3>1. CASE ops = <<Create(a, s, b), Announce(a)>>
      BY <2>1, <3>1
    <3>2. CASE ops = <<Create(a, s, b), Announce(a), Op("connect", a, s)>>
      BY <2>1, <3>2
    <3>. QED  BY <1>3, <3>1, <3>2
  <2>. HIDE DEF q
  <2>3. Create(a, s, b).a = a /\ Create(a, s, b).s = s
    BY DEF Create
  <2>4. LoudAll'
    BY <2>1, <2>2 DEF Hearing, LoudAll, Loud, q
  <2>5. WatchSoon'
    BY <1>1 DEF WatchSoon
  <2>6. Creating'
    <3>1. a \in Local => sock'[s] = "created"
      BY <1>3 DEF Types, FieldTypes
    <3>. QED  BY <1>3, <2>2, <2>3, <3>1 DEF Creating, q
  <2>7. ToldAll' /\ WiredKnown'
    BY ToldStays DEF Hearing, WiredKnown
  <2>. QED  BY <2>4, <2>5, <2>6, <2>7 DEF Hearing
<1>. QED  BY <1>2, <1>3

LEMMA SenderHearing ==
  ASSUME Types, Life, Hearing, Sender
  PROVE  Hearing'
<1>. DEFINE j == senderQueue[1]
<1>. USE SenderIsThread
<1>1. senderQueue # <<>>
  BY DEF Sender, Job, AddNodeJob, IncomingTcpJob, WriteJob, DisconnectedJob, DeleteJob
<1>2. j \in Jobs /\ Head(senderQueue) = j
  BY <1>1, TailOf DEF Types
<1>3. j \in JobRecord /\ JobOK(j)
  BY <1>2 DEF Jobs
<1>4. \A name : Job(name) => program["sender"] = <<>> /\ j.op = name
  BY <1>2, MayStartIdle DEF Job
<1>5. UNCHANGED <<known, watched, status, heard, mainQueue, peerOf, wired>>
  BY DEF Sender, AddNodeJob, IncomingTcpJob, WriteJob, DisconnectedJob, DeleteJob, info, sockets
<1>6. \A a \in Address, s \in Socket, b \in BOOLEAN :
        RegisterSocket(a, s, b) \in Seq(Ops)
  BY RegisterSocketSteps
<1>7. CASE AddNodeJob
  <2>1. j.a \in Local /\ j.a \in Address
    BY <1>3, <1>4, <1>7 DEF AddNodeJob, JobOK, Address
  <2>. DEFINE steps(s) == RegisterSocket(j.a, s, TRUE)
              c(s) == Op("connect", j.a, s)
  <2>2. PICK s \in NextSocket :
          /\ sock' = [sock EXCEPT ![s] = IF steps(s) = <<>> THEN "deleted" ELSE "created"]
          /\ Start("sender", IF steps(s) = <<>> THEN <<>> ELSE steps(s) \o <<c(s)>>)
    BY <1>2, <1>7 DEF AddNodeJob
  <2>3. s \in Socket /\ sock[s] = "unused" /\ program["sender"] = <<>> /\ c(s) \in Ops
    BY <1>4, <1>7, <2>1, OpsOf DEF AddNodeJob, NextSocket
  <2>4. /\ steps(s) \in Seq(Ops)
        /\ \/ steps(s) = <<>>
           \/ /\ j.a \notin known
              /\ steps(s) = <<Create(j.a, s, TRUE), Announce(j.a)>>
           \/ /\ j.a \in known
              /\ steps(s) = <<Take(j.a), Attach(j.a, s), SetLocal(j.a, TRUE), Registered(j.a, s)>>
    BY <1>6, <2>1, <2>3, RegisterSocketIs
  <2>. HIDE DEF steps
  <2>5. CASE steps(s) = <<>>
    BY <1>5, <2>1, <2>2, <2>3, <2>5, EmptySeq, TakeSocketHearing
  <2>6. CASE steps(s) # <<>>
    <3>. HIDE DEF c
    <3>1. steps(s) \o <<c(s)>> \in Seq(Ops)
      <4>1. <<c(s)>> \in Seq(Ops)
        BY <2>3, TupleOf
      <4>. QED  BY <2>4, <4>1, ConcatProperties
    <3>2. \/ /\ j.a \notin known
             /\ steps(s) \o <<c(s)>> = <<Create(j.a, s, TRUE), Announce(j.a), c(s)>>
          \/ /\ j.a \in known
             /\ steps(s) \o <<c(s)>> = <<Take(j.a), Attach(j.a, s), SetLocal(j.a, TRUE),
                                         Registered(j.a, s), c(s)>>
      <4>1. CASE steps(s) = <<Create(j.a, s, TRUE), Announce(j.a)>> /\ j.a \notin known
        BY <4>1, ConcatOne
      <4>2. CASE /\ steps(s) = <<Take(j.a), Attach(j.a, s), SetLocal(j.a, TRUE),
                                 Registered(j.a, s)>>
                 /\ j.a \in known
        <5>1. \A v, w, x, y, z : <<v, w, x, y>> \o <<z>> = <<v, w, x, y, z>>
          BY ConcatOne
        <5>. QED  BY <4>2, <5>1
      <4>. QED  BY <2>4, <2>6, <4>1, <4>2
    <3>3. /\ sock' = [sock EXCEPT ![s] = "created"] /\ Start("sender", steps(s) \o <<c(s)>>)
      BY <2>2, <2>6
    <3>. QED  BY <1>5, <2>1, <2>3, <3>1, <3>2, <3>3, TakeSocketHearing DEF c
  <2>. QED  BY <2>5, <2>6
<1>8. CASE IncomingTcpJob
  <2>1. j.a \in Address /\ j.a \notin Local
    BY <1>3, <1>4, <1>8, ConstantsAssumption DEF IncomingTcpJob, JobOK, Address
  <2>. DEFINE steps(s) == IF IsBanned(j.a) THEN <<>> ELSE RegisterSocket(j.a, s, FALSE)
  <2>2. PICK s \in NextSocket :
          /\ sock' = [sock EXCEPT ![s] = IF steps(s) = <<>> THEN "deleted" ELSE "open"]
          /\ Start("sender", steps(s))
    BY <1>2, <1>8 DEF IncomingTcpJob
  <2>3. s \in Socket /\ sock[s] = "unused" /\ program["sender"] = <<>>
    BY <1>4, <1>8 DEF IncomingTcpJob, NextSocket
  <2>4. /\ steps(s) \in Seq(Ops)
        /\ \/ steps(s) = <<>>
           \/ /\ j.a \notin known
              /\ steps(s) = <<Create(j.a, s, FALSE), Announce(j.a)>>
           \/ /\ j.a \in known
              /\ steps(s) = <<Take(j.a), Attach(j.a, s), SetLocal(j.a, FALSE), Registered(j.a, s)>>
    BY <1>6, <2>1, <2>3, RegisterSocketIs, EmptySeq
  <2>. HIDE DEF steps
  <2>5. sock' = [sock EXCEPT ![s] = "deleted"] \/ sock' = [sock EXCEPT ![s] = "open"]
    BY <2>2
  <2>. QED  BY <1>5, <2>1, <2>2, <2>3, <2>4, <2>5, TakeSocketHearing
<1>9. CASE WriteJob
  BY <1>5, <1>9, SameHearing DEF WriteJob
<1>10. CASE DisconnectedJob
  <2>. DEFINE ops == <<Take(j.a)>>
  <2>1. j.a \in Address /\ program["sender"] = <<>>
    BY <1>3, <1>4, <1>10 DEF DisconnectedJob, JobOK
  <2>2. Start("sender", ops)
    BY <1>2, <1>10 DEF DisconnectedJob, RemoveSocket
  <2>3. ops \in Seq(Ops)
    BY <2>1, OpsOf, TupleOf
  <2>4. \A i \in DOMAIN ops : Mute(ops[i])
    BY DEF Mute, Loud, Take, Op
  <2>. HIDE DEF ops
  <2>. QED  BY <1>5, <2>1, <2>2, <2>3, <2>4, StartHearing
<1>11. CASE DeleteJob
  <2>1. program["sender"] = <<>> /\ program' = program
    BY <1>4, <1>11 DEF DeleteJob
  <2>. QED  BY <1>5, <2>1, SameHearing
<1>. QED  BY <1>7, <1>8, <1>9, <1>10, <1>11 DEF Sender

LEMMA SocketHearing ==
  ASSUME Types, Life, Hearing, NEW s \in Socket,
         SocketConnects(s) \/ ConnectFails(s) \/ PeerCloses(s)
  PROVE  Hearing'
<1>. USE SenderIsThread
<1>1. /\ program["sender"] = <<>>
      /\ UNCHANGED <<known, watched, status, heard, mainQueue, peerOf, wired>>
  BY MayStartIdle DEF SocketConnects, ConnectFails, PeerCloses, info, queues
<1>2. s \in wired => peerOf[s] \in watched /\ peerOf[s] \in Address
  BY <1>1, IdleWatched DEF Hearing, WiredKnown, Types, FieldTypes
<1>3. CASE SocketConnects(s)
  <2>1. PICK ops \in {<<>>, <<SetStatus(peerOf[s], "Connected")>>} :
          Start("sender", ops) /\ (ops = <<>> \/ s \in wired)
    BY <1>3 DEF SocketConnects
  <2>2. ops \in Seq(Ops)
    <3>1. CASE s \in wired
      <4>1. SetStatus(peerOf[s], "Connected") \in Ops
        BY <1>2, <3>1, OpsOf DEF Status
      <4>. QED  BY <2>1, <4>1, TupleOf
    <3>. QED  BY <2>1, <3>1, EmptySeq
  <2>3. \A i \in DOMAIN ops : Mute(ops[i])
    BY <1>2, <2>1 DEF Mute, Loud, SetStatus, OpValue
  <2>. QED  BY <1>1, <2>1, <2>2, <2>3, StartHearing
<1>4. CASE ConnectFails(s) \/ PeerCloses(s)
  <2>1. program' = program
    BY <1>4 DEF ConnectFails, PeerCloses
  <2>. QED  BY <1>1, <2>1, SameHearing
<1>. QED  BY <1>3, <1>4

\* handleNodeStatusChanged: the node hears the oldest of the events.
LEMMA ToldPopped ==
  ASSUME Types, Hearing, HandleNodeStatusChanged
  PROVE  ToldAll'
<1>. DEFINE e == mainQueue[1]
<1>1. /\ Len(mainQueue) \in Nat \ {0} /\ DOMAIN mainQueue = 1 .. Len(mainQueue)
      /\ Head(mainQueue) = e /\ e \in Address \X Status
      /\ DOMAIN mainQueue' = 1 .. Len(mainQueue) - 1
      /\ \A i \in 1 .. Len(mainQueue) - 1 : mainQueue'[i] = mainQueue[i + 1]
  BY TailOf DEF HandleNodeStatusChanged, Types
<1>2. /\ heard' = [heard EXCEPT ![e[1]] = e[2]] /\ status' = status /\ watched' = watched
  BY <1>1 DEF HandleNodeStatusChanged, info
<1>3. \A a \in Address : heard'[a] = IF a = e[1] THEN e[2] ELSE heard[a]
  BY <1>1, <1>2 DEF Types, FieldTypes
<1>4. /\ \A i \in DOMAIN mainQueue' : i + 1 \in DOMAIN mainQueue /\ mainQueue'[i] = mainQueue[i + 1]
      /\ \A i \in DOMAIN mainQueue :
            i > 1 => i - 1 \in DOMAIN mainQueue' /\ mainQueue'[i - 1] = mainQueue[i]
      /\ 1 \in DOMAIN mainQueue
  BY <1>1
<1>5. ASSUME NEW a \in Local, a \in watched PROVE Told(a)'
  <2>1. Told(a)
    BY <1>5 DEF Hearing, ToldAll
  <2>2. CASE heard[a] = status[a] /\ Silent(a)
    <3>1. a # e[1]
      BY <1>4, <2>2 DEF Silent
    <3>. QED  BY <1>2, <1>3, <1>4, <2>2, <3>1 DEF Told, Silent, Address
  <2>3. ASSUME NEW i \in DOMAIN mainQueue, mainQueue[i][1] = a, mainQueue[i][2] = status[a],
               \A k \in DOMAIN mainQueue : mainQueue[k][1] = a => k <= i
        PROVE  Told(a)'
    <3>1. CASE i = 1
      <4>1. Silent(a)'
        BY <1>1, <1>4, <2>3, <3>1 DEF Silent
      <4>2. heard'[a] = status'[a]
        BY <1>2, <1>3, <2>3, <3>1 DEF Address
      <4>. QED  BY <4>1, <4>2 DEF Told
    <3>2. CASE i > 1
      <4>1. i - 1 \in DOMAIN mainQueue' /\ mainQueue'[i - 1] = mainQueue[i]
        BY <1>4, <3>2
      <4>2. \A k \in DOMAIN mainQueue' : mainQueue'[k][1] = a => k <= i - 1
        BY <1>1, <1>4, <2>3
      <4>. QED  BY <1>2, <2>3, <4>1, <4>2 DEF Told
    <3>. QED  BY <1>1, <3>1, <3>2
  <2>. QED  BY <2>1, <2>2, <2>3 DEF Told
<1>6. ASSUME NEW a \in Local, a \notin watched
      PROVE  status'[a] = "NotConnected" /\ heard'[a] = "NotConnected" /\ Silent(a)'
  <2>1. status[a] = "NotConnected" /\ heard[a] = "NotConnected" /\ Silent(a)
    BY <1>6 DEF Hearing, ToldAll
  <2>2. a # e[1]
    BY <1>4, <2>1 DEF Silent
  <2>. QED  BY <1>2, <1>3, <1>4, <2>1, <2>2 DEF Silent, Address
<1>. QED  BY <1>2, <1>5, <1>6 DEF ToldAll

LEMMA MainHearing ==
  ASSUME Types, Life, Hearing, Main
  PROVE  Hearing'
<1>. USE SenderIsThread
<1>1. /\ program["main"] = <<>>
      /\ UNCHANGED <<known, watched, status, sock, peerOf, wired>>
  BY MayStartIdle DEF Main, HandleNodeStatusChanged, CheckConfirmendOfNode, ForceTimer, info, sockets
<1>2. CASE HandleNodeStatusChanged
  <2>. DEFINE a == mainQueue[1][1]
  <2>1. a \in Address /\ Head(mainQueue) = mainQueue[1]
    BY <1>2, TailOf DEF HandleNodeStatusChanged, Types
  <2>2. PICK ops \in {<<>>, Reset(a)} : Start("main", ops)
    BY <1>2, <2>1 DEF HandleNodeStatusChanged
  <2>3. ops \in Seq(Ops) /\ \A i \in DOMAIN ops : Common(ops[i]) /\ Mute(ops[i])
    <3>1. CASE ops = <<>>
      BY <3>1, EmptySeq
    <3>2. CASE ops = Reset(a)
      <4>1. /\ Reset(a) = <<Take(a), Attach(a, None), SetTrust(a, DefaultTrust),
                            SetStatus(a, "NotConnected"), SetLocal(a, FALSE)>>
            /\ Reset(a) \in Seq(Ops) /\ \A i \in DOMAIN Reset(a) : Common(Reset(a)[i])
        BY <2>1, ResetSteps
      <4>2. \A i \in DOMAIN ops : Mute(ops[i])
        BY <3>2, <4>1 DEF Mute, Loud, Take, Attach, SetTrust, SetStatus, SetLocal, Op, OpValue
      <4>. QED  BY <3>2, <4>1, <4>2
    <3>. QED  BY <3>1, <3>2
  <2>4. 0 \in {0, 1} /\ Pops("main", ops, 0)
    BY <1>1, <2>2, <2>3, StartPops
  <2>5. LoudAll' /\ WatchSoon' /\ Creating'
    BY <1>1, <2>3, <2>4, MuteStep
  <2>6. WiredKnown'
    BY <1>1 DEF Hearing, WiredKnown
  <2>. QED  BY <1>2, <2>5, <2>6, ToldPopped DEF Hearing
<1>3. ASSUME NEW a \in Address, CheckConfirmendOfNode(a) PROVE Hearing'
  <2>1. PICK ops \in {<<>>, <<Remove(a)>>} : Start("main", ops)
    BY <1>3 DEF CheckConfirmendOfNode
  <2>2. ops \in Seq(Ops) /\ \A i \in DOMAIN ops : Common(ops[i])
    BY <2>1, OpsOf, CommonOf, OneStep
  <2>3. \A i \in DOMAIN ops : Mute(ops[i])
    BY <2>1 DEF Mute, Loud, Remove, Op
  <2>4. UNCHANGED <<heard, mainQueue>>
    BY <1>3 DEF CheckConfirmendOfNode
  <2>. QED  BY <1>1, <2>1, <2>2, <2>3, <2>4, StartHearing
<1>4. ASSUME NEW a \in Address, ForceTimer(a) PROVE Hearing'
  <2>. DEFINE ops == <<ForceRemove(a)>>
  <2>1. Start("main", ops) /\ UNCHANGED <<heard, mainQueue>>
    BY <1>4 DEF ForceTimer
  <2>2. ops \in Seq(Ops) /\ \A i \in DOMAIN ops : Common(ops[i])
    BY OpsOf, CommonOf, OneStep
  <2>3. \A i \in DOMAIN ops : Mute(ops[i])
    BY DEF Mute, Loud, ForceRemove, Op
  <2>. HIDE DEF ops
  <2>. QED  BY <1>1, <2>1, <2>2, <2>3, StartHearing
<1>. QED  BY <1>2, <1>3, <1>4 DEF Main

LEMMA EnvironmentHearing ==
  ASSUME Types, Life, Hearing, Environment
  PROVE  Hearing'
<1>. USE SenderIsThread
<1>1. UNCHANGED <<known, watched, status, heard, mainQueue, sock, peerOf, wired>>
  BY DEF Environment, Call, AddNode, IncomingConnection, info, sockets, queues
<1>2. ASSUME NEW a \in Address, NEW op \in UserCall, Call(op, a) PROVE Hearing'
  <2>. DEFINE ops == <<Op(op, a, None)>>
  <2>1. program["main"] = <<>> /\ Start("main", ops)
    BY <1>2, MayStartIdle DEF Call
  <2>2. op \in {"remove", "ban", "unBan"}
    BY ConstantsAssumption
  <2>3. Op(op, a, None) \in Ops
    BY <2>2, OpsOf DEF Remove, Ban, UnBan
  <2>4. ops \in Seq(Ops) /\ \A i \in DOMAIN ops : Common(ops[i]) /\ Mute(ops[i])
    BY <2>2, <2>3 DEF Common, Mute, Loud, Op
  <2>. HIDE DEF ops
  <2>. QED  BY <1>1, <2>1, <2>4, StartHearing
<1>3. CASE program' = program
  BY <1>1, <1>3, SameHearing
<1>. QED  BY <1>2, <1>3 DEF Environment, AddNode, IncomingConnection

LEMMA PackageHearing ==
  ASSUME Types, Life, Hearing, Package
  PROVE  Hearing'
<1>1. PICK t \in Worker, a \in Address,
           kind \in PackageKind :
         NewWork(t, a, kind)
  BY DEF Package
<1>2. PICK ops \in ParsePackage(a, kind) : Start(t, ops)
  BY <1>1 DEF NewWork
<1>3. ops \in Seq(Ops) /\ \A i \in DOMAIN ops : Common(ops[i])
  BY <1>2, PackageSteps
<1>4. \A i \in DOMAIN ops : Mute(ops[i])
  <2>1. \/ ops = <<Confirmable(a)>> \/ ops = <<Remove(a), Confirmable(a)>>
        \/ ops = <<Send(a), Confirmable(a)>>
        \/ \E p \in Penalty : \/ ops = <<ReadTrust(a, p, FALSE)>>
                              \/ ops = <<ReadTrust(a, p, TRUE)>>
    BY <1>2, PackageSteps
  <2>2. a \in watched
    BY <1>1 DEF NewWork
  <2>. QED  BY <2>1, <2>2 DEF Mute, Loud, Confirmable, Send, Remove, ReadTrust, Op, OpValue
<1>5. /\ t \in Thread /\ program[t] = <<>>
      /\ UNCHANGED <<known, watched, status, heard, mainQueue, sock, peerOf, wired>>
  BY <1>1, SenderIsThread, MayStartIdle DEF NewWork, info, sockets, queues
<1>. QED  BY <1>2, <1>3, <1>4, <1>5, StartHearing

LEMMA HearingInit == Init => Hearing
<1>. SUFFICES ASSUME Init PROVE Hearing
  OBVIOUS
<1>1. /\ DOMAIN mainQueue = {} /\ \A t \in Thread : DOMAIN program[t] = {}
  BY DEF Init
<1>. QED  BY <1>1, SenderIsThread DEF Init, Hearing, ToldAll, LoudAll, WatchSoon, WiredKnown,
          Creating, Silent, Address

LEMMA HearingNext == Inv /\ Hearing /\ [Next]_vars => Hearing'
<1>. SUFFICES ASSUME Types, Life, Hearing, [Next]_vars PROVE Hearing'
  BY DEF Inv
<1>1. ASSUME NEW t \in Thread, Access(t) PROVE Hearing'
  BY <1>1, AccessHearing
<1>2. CASE UNCHANGED vars
  BY <1>2, SameHearing DEF vars
<1>. QED  BY <1>1, <1>2, RegisterHearing, SenderHearing, SocketHearing, MainHearing,
          EnvironmentHearing, PackageHearing DEF Next, SocketEvent

\* Once the threads and the queues are at rest, the node has been told the present
\* status of every info to which it has connected (handleNodeStatusChanged runs
\* on the queued statusChaned events).
THEOREM StatusHeard == Spec => []HeardStatus
<1>1. ASSUME Inv, Hearing PROVE HeardStatus
  <2>. SUFFICES ASSUME Quiescent, NEW a \in known \cap Local PROVE heard[a] = status[a]
    BY DEF HeardStatus
  <2>1. program["sender"] = <<>> /\ DOMAIN mainQueue = {}
    BY SenderIsThread DEF Quiescent, Idle
  <2>2. a \in watched
    BY <1>1, <2>1, IdleWatched DEF Inv
  <2>. QED  BY <1>1, <2>1, <2>2 DEF Hearing, ToldAll, Told
<1>. QED  BY <1>1, HearingInit, HearingNext, InvHolds, PTL DEF Spec

(***************************************************************************)
(* What depends on what may overlap: on calls in turns (Turns), where a    *)
(* thread begins only when the others have done, and on peers that connect *)
(* once (Fresh).  In both cases a socket that is attached never takes the  *)
(* place of another one.                                                   *)
(***************************************************************************)

Turns == ~ Preemptive

Fresh == FreshPeers /\ Local = {}

\* An access that presumes that the info has no socket, and one that sees to it.
Needs(x) == x.op = "attach" \/ (x.op = "status" /\ x.v = "NotConnected")

Clears(x, a) == x.op \in {"take", "null"} /\ x.a = a

ClearFirst ==
    \A t \in Thread : \A i \in DOMAIN program[t] : Needs(program[t][i]) =>
        \/ sct[program[t][i].a] = None
        \/ \E j \in DOMAIN program[t] : j < i /\ Clears(program[t][j], program[t][i].a)

\* removeSocket, once it has read the socket.
Removes(p, a, s) ==
    /\ {1, 2, 3} \subseteq DOMAIN p
    /\ p[1] = Null(a, s) /\ p[2] = Drop(a, s) /\ p[3] = SetStatus(a, "NotConnected")

NullFirst ==
    \A t \in Thread : \A i \in DOMAIN program[t] : program[t][i].op = "null" =>
        LET o == program[t][i]
        IN  i = 1 /\ sct[o.a] \in {o.s, None} /\ Removes(program[t], o.a, o.s)

\* What a registration still does after it has given the info its socket.
Ending ==
    \A i, j \in DOMAIN program["sender"] : i < j =>
        LET o == program["sender"][i]
            x == program["sender"][j]
        IN  /\ o.op = "create" \/ (o.op = "attach" /\ o.s # None) =>
                  x.op \in {"local", "registered", "announce", "connect"}
            /\ o.op = "registered" => x.op = "connect"

\* Nothing happens to an info that the node does not know.
KnownOps ==
    /\ \A t \in Thread : \A i \in DOMAIN program[t] :
          program[t][i].op \in {"attach", "status", "null"} => program[t][i].a \in known
    /\ \A i \in DOMAIN mainQueue : mainQueue[i][1] \in known
    /\ \A a \in Address \ known : sct[a] = None /\ status[a] = "NotConnected"

Alone == \A t, u \in Thread : program[t] = <<>> \/ program[u] = <<>> \/ t = u

\* Peers that connect once are not known before.
Unmet ==
    \A i \in DOMAIN program["sender"] : program["sender"][i].op = "attach" =>
        program["sender"][i].s = None

NewPeer ==
    \A i \in DOMAIN senderQueue : senderQueue[i].op = "incomingTcp" =>
        LET a == senderQueue[i].a
        IN  /\ a \notin known
            /\ \A j \in DOMAIN program["sender"] :
                  program["sender"][j].op = "create" => program["sender"][j].a # a
            /\ \A j \in DOMAIN senderQueue :
                  senderQueue[j].op = "incomingTcp" /\ senderQueue[j].a = a => j = i

KnownPeer == \A a \in known : \E s \in Socket : peerOf[s] = a

Order ==
    /\ ClearFirst /\ NullFirst /\ Ending /\ KnownOps
    /\ Turns => Alone
    /\ Fresh => Unmet /\ NewPeer /\ KnownPeer

\* The rest of a program of which the first k accesses are made.
LEMMA PopsRest ==
  ASSUME Types, NEW t \in Thread, NEW ops \in Seq(Ops), NEW k \in {0, 1}, Pops(t, ops, k)
  PROVE  /\ \A i \in DOMAIN ops : i \in DOMAIN program'[t] /\ program'[t][i] = ops[i]
         /\ k = 1 => \A j \in DOMAIN program[t] : j > 1 =>
               /\ j + Len(ops) - 1 \in DOMAIN program'[t]
               /\ program'[t][j + Len(ops) - 1] = program[t][j]
         /\ \A i \in DOMAIN program'[t] :
               \/ i \in DOMAIN ops /\ program'[t][i] = ops[i]
               \/ \E j \in DOMAIN program[t] :
                     j > 1 /\ k = 1 /\ i = j + Len(ops) - 1 /\ program'[t][i] = program[t][j]
         /\ Len(ops) \in Nat /\ DOMAIN ops = 1 .. Len(ops)
         /\ DOMAIN program[t] = 1 .. Len(program[t]) /\ Len(program[t]) \in Nat
         /\ \A u \in Thread \ {t} : program'[u] = program[u]
<1>. DEFINE n == Len(ops)
            p == program[t]
            q == program'[t]
<1>1. /\ n \in Nat /\ DOMAIN ops = 1 .. n
      /\ Len(p) \in Nat /\ DOMAIN p = 1 .. Len(p) /\ (k = 1 => Len(p) # 0) /\ (k = 0 => Len(p) = 0)
      /\ DOMAIN q = 1 .. n + Len(p) - k
      /\ \A i \in 1 .. n + Len(p) - k : q[i] = IF i <= n THEN ops[i] ELSE p[i - n + k]
      /\ \A u \in Thread \ {t} : program'[u] = program[u]
  BY LenProperties, ElementOfSeq, EmptySeq DEF Types, Pops
<1>. HIDE DEF p, q, n
<1>2. \A i \in DOMAIN ops : i \in DOMAIN q /\ q[i] = ops[i]
  BY <1>1
<1>3. ASSUME k = 1, NEW j \in DOMAIN p, j > 1
      PROVE  j + n - 1 \in DOMAIN q /\ q[j + n - 1] = p[j]
  <2>1. j + n - 1 \in 1 .. n + Len(p) - k /\ ~(j + n - 1 <= n) /\ (j + n - 1) - n + k = j
    BY <1>1, <1>3
  <2>. QED  BY <1>1, <2>1
<1>4. \A i \in DOMAIN q :
         \/ i \in DOMAIN ops /\ q[i] = ops[i]
         \/ \E j \in DOMAIN p : j > 1 /\ k = 1 /\ i = j + n - 1 /\ q[i] = p[j]
  BY PopsOf DEF p, q, n
<1>. QED  BY <1>1, <1>2, <1>3, <1>4 DEF p, q, n

LEMMA ClearStep ==
  ASSUME Types, ClearFirst, NEW t \in Thread, NEW ops \in Seq(Ops), NEW k \in {0, 1},
         Pops(t, ops, k),
         \A i \in DOMAIN ops : Needs(ops[i]) =>
            \E j \in DOMAIN ops : j < i /\ Clears(ops[j], ops[i].a),
         k = 1 /\ program[t][1].op \in {"take", "null"} =>
            \/ sct'[program[t][1].a] = None
            \/ \E j \in DOMAIN ops : Clears(ops[j], program[t][1].a),
         \A a \in Address :
            \/ sct'[a] \in {sct[a], None}
            \/ \A u \in Thread : \A i \in DOMAIN program'[u] :
                  Needs(program'[u][i]) => program'[u][i].a # a
  PROVE  ClearFirst'
<1>. DEFINE n == Len(ops)
            p == program[t]
            q == program'[t]
<1>1. /\ n \in Nat /\ DOMAIN ops = 1 .. n /\ DOMAIN p = 1 .. Len(p) /\ Len(p) \in Nat
      /\ \A i \in DOMAIN ops : i \in DOMAIN q /\ q[i] = ops[i]
      /\ k = 1 => \A j \in DOMAIN p : j > 1 => j + n - 1 \in DOMAIN q /\ q[j + n - 1] = p[j]
      /\ \A u \in Thread \ {t} : program'[u] = program[u]
  BY PopsRest
<1>2. \A i \in DOMAIN q :
         \/ i \in DOMAIN ops /\ q[i] = ops[i]
         \/ \E j \in DOMAIN p : j > 1 /\ k = 1 /\ i = j + n - 1 /\ q[i] = p[j]
  BY PopsRest
<1>3. \A u \in Thread : \A i \in DOMAIN program[u] : program[u][i].a \in Address
  BY ElementOfSeq DEF Types, Ops, OpRecord
<1>4. \A u \in Thread : \A i \in DOMAIN program[u] : Needs(program[u][i]) =>
        \/ sct[program[u][i].a] = None
        \/ \E j \in DOMAIN program[u] : j < i /\ Clears(program[u][j], program[u][i].a)
  BY DEF ClearFirst
<1>. HIDE DEF p, q, n
<1>. SUFFICES ASSUME NEW u \in Thread, NEW i \in DOMAIN program'[u], Needs(program'[u][i]),
                     sct'[program'[u][i].a] # None
              PROVE  \E j \in DOMAIN program'[u] :
                        j < i /\ Clears(program'[u][j], program'[u][i].a)
  BY DEF ClearFirst, Needs, Clears
<1>5. CASE u # t
  <2>1. program'[u] = program[u]
    BY <1>1, <1>5
  <2>2. sct[program[u][i].a] # None
    BY <1>3, <2>1
  <2>. QED  BY <1>4, <2>1, <2>2
<1>6. CASE u = t /\ i \in DOMAIN ops /\ q[i] = ops[i]
  BY <1>1, <1>6 DEF q
<1>7. ASSUME u = t, NEW j \in DOMAIN p, j > 1, k = 1, i = j + n - 1, q[i] = p[j]
      PROVE  \E m \in DOMAIN q : m < i /\ Clears(q[m], q[i].a)
  <2>1. sct[p[j].a] # None
    BY <1>3, <1>7 DEF p, q
  <2>2. PICK m \in DOMAIN p : m < j /\ Clears(p[m], p[j].a)
    BY <1>4, <1>7, <2>1 DEF p, q
  <2>3. CASE m > 1
    <3>1. m + n - 1 \in DOMAIN q /\ q[m + n - 1] = p[m] /\ m + n - 1 < i
      BY <1>1, <1>7, <2>2, <2>3
    <3>. QED  BY <1>7, <2>2, <3>1
  <2>4. CASE m = 1
    <3>1. p[1].op \in {"take", "null"} /\ p[1].a = p[j].a
      BY <2>2, <2>4 DEF Clears
    <3>2. PICK l \in DOMAIN ops : Clears(ops[l], p[1].a)
      BY <1>7, <3>1 DEF p, q
    <3>3. l \in DOMAIN q /\ q[l] = ops[l] /\ l < i
      BY <1>1, <1>7, <3>2
    <3>. QED  BY <1>7, <3>1, <3>2, <3>3
  <2>. QED  BY <1>1, <2>2, <2>3, <2>4
<1>. QED  BY <1>2, <1>5, <1>6, <1>7 DEF q

LEMMA NullStep ==
  ASSUME Types, NullFirst, NEW t \in Thread, NEW ops \in Seq(Ops), NEW k \in {0, 1},
         Pops(t, ops, k),
         \A i \in DOMAIN ops : ops[i].op = "null" =>
            /\ i = 1 /\ sct'[ops[i].a] = ops[i].s
            /\ Removes(ops, ops[i].a, ops[i].s),
         \A a \in Address :
            \/ sct'[a] \in {sct[a], None}
            \/ \A u \in Thread : \A i \in DOMAIN program'[u] :
                  program'[u][i].op = "null" => program'[u][i].a # a
  PROVE  NullFirst'
<1>. DEFINE n == Len(ops)
            p == program[t]
            q == program'[t]
<1>1. /\ n \in Nat /\ DOMAIN ops = 1 .. n
      /\ \A i \in DOMAIN ops : i \in DOMAIN q /\ q[i] = ops[i]
      /\ \A u \in Thread \ {t} : program'[u] = program[u]
  BY PopsRest
<1>2. \A i \in DOMAIN q :
         \/ i \in DOMAIN ops /\ q[i] = ops[i]
         \/ \E j \in DOMAIN p : j > 1 /\ k = 1 /\ i = j + n - 1 /\ q[i] = p[j]
  BY PopsRest
<1>3. \A u \in Thread : \A i \in DOMAIN program[u] : program[u][i].a \in Address
  BY ElementOfSeq DEF Types, Ops, OpRecord
<1>. HIDE DEF p, q, n
<1>. SUFFICES ASSUME NEW u \in Thread, NEW i \in DOMAIN program'[u], program'[u][i].op = "null"
              PROVE  /\ i = 1 /\ sct'[program'[u][i].a] \in {program'[u][i].s, None}
                     /\ Removes(program'[u], program'[u][i].a, program'[u][i].s)
  BY DEF NullFirst, Removes, Null, Drop, SetStatus, Op, OpValue
<1>4. CASE u # t
  <2>1. program'[u] = program[u]
    BY <1>1, <1>4
  <2>2. /\ i = 1 /\ sct[program[u][i].a] \in {program[u][i].s, None}
        /\ Removes(program[u], program[u][i].a, program[u][i].s)
    BY <2>1 DEF NullFirst
  <2>3. program[u][i].a \in Address
    BY <1>3, <2>1
  <2>. QED  BY <2>1, <2>2, <2>3
<1>5. CASE u = t /\ i \in DOMAIN ops /\ q[i] = ops[i]
  <2>1. i = 1 /\ sct'[ops[i].a] = ops[i].s /\ Removes(ops, ops[i].a, ops[i].s)
    BY <1>5 DEF q
  <2>2. Removes(q, ops[i].a, ops[i].s)
    BY <1>1, <2>1 DEF Removes
  <2>. QED  BY <1>5, <2>1, <2>2 DEF q
<1>6. ASSUME u = t, NEW j \in DOMAIN p, j > 1, q[i] = p[j] PROVE FALSE
  BY <1>6 DEF NullFirst, p, q
<1>. QED  BY <1>2, <1>4, <1>5, <1>6 DEF q

LEMMA EndingStep ==
  ASSUME Types, Ending, NEW t \in Thread, NEW ops \in Seq(Ops), NEW k \in {0, 1},
         Pops(t, ops, k), \A i \in DOMAIN ops : Common(ops[i])
  PROVE  Ending'
<1>. USE SenderIsThread
<1>. DEFINE n == Len(ops)
            p == program["sender"]
            q == program'["sender"]
<1>1. CASE t # "sender"
  <2>1. q = p
    BY <1>1, PopsRest
  <2>. QED  BY <2>1 DEF Ending
<1>2. CASE t = "sender"
  <2>1. n \in Nat /\ DOMAIN ops = 1 .. n /\ DOMAIN p = 1 .. Len(p) /\ Len(p) \in Nat
    BY <1>2, PopsRest
  <2>2. \A i \in DOMAIN q :
         \/ i \in DOMAIN ops /\ q[i] = ops[i]
         \/ \E j \in DOMAIN p : j > 1 /\ k = 1 /\ i = j + n - 1 /\ q[i] = p[j]
    BY <1>2, PopsRest
  <2>. HIDE DEF q, p, n
  <2>3. \A i, j \in DOMAIN p : i < j =>
          /\ p[i].op = "create" \/ (p[i].op = "attach" /\ p[i].s # None) =>
                p[j].op \in {"local", "registered", "announce", "connect"}
          /\ p[i].op = "registered" => p[j].op = "connect"
    BY DEF Ending, p
  <2>. SUFFICES ASSUME NEW i \in DOMAIN q, NEW j \in DOMAIN q, i < j
                PROVE  /\ q[i].op = "create" \/ (q[i].op = "attach" /\ q[i].s # None) =>
                             q[j].op \in {"local", "registered", "announce", "connect"}
                       /\ q[i].op = "registered" => q[j].op = "connect"
    BY DEF Ending, q
  <2>4. CASE i \in DOMAIN ops /\ q[i] = ops[i]
    BY <2>4 DEF Common
  <2>5. ASSUME NEW m \in DOMAIN p, i = m + n - 1, q[i] = p[m],
               NEW l \in DOMAIN p, j = l + n - 1, q[j] = p[l]
        PROVE  /\ q[i].op = "create" \/ (q[i].op = "attach" /\ q[i].s # None) =>
                     q[j].op \in {"local", "registered", "announce", "connect"}
               /\ q[i].op = "registered" => q[j].op = "connect"
    BY <2>1, <2>3, <2>5
  <2>6. ASSUME NEW m \in DOMAIN p, m > 1, i = m + n - 1, j \in DOMAIN ops PROVE FALSE
    BY <2>1, <2>6
  <2>. QED  BY <2>2, <2>4, <2>5, <2>6
<1>. QED  BY <1>1, <1>2

LEMMA KnownStep ==
  ASSUME Types, KnownOps, NEW t \in Thread, NEW ops \in Seq(Ops), NEW k \in {0, 1},
         Pops(t, ops, k), known \subseteq known',
         \A i \in DOMAIN ops : ops[i].op \in {"attach", "status", "null"} => ops[i].a \in known',
         \A i \in DOMAIN mainQueue' : mainQueue'[i][1] \in known',
         \A a \in Address \ known' : sct'[a] = sct[a] /\ status'[a] = status[a]
  PROVE  KnownOps'
<1>1. /\ \A u \in Thread \ {t} : program'[u] = program[u]
      /\ \A i \in DOMAIN program'[t] :
           \/ i \in DOMAIN ops /\ program'[t][i] = ops[i]
           \/ \E j \in DOMAIN program[t] : program'[t][i] = program[t][j]
  BY PopsRest
<1>. QED  BY <1>1 DEF KnownOps
\* What follows an access keeps the order.
InOrder(ops) ==
    /\ \A i \in DOMAIN ops : Needs(ops[i]) =>
          \E j \in DOMAIN ops : j < i /\ Clears(ops[j], ops[i].a)
    /\ \A i \in DOMAIN ops : ops[i].op = "null" =>
          i = 1 /\ sct[ops[i].a] = ops[i].s /\ Removes(ops, ops[i].a, ops[i].s)
    /\ \A i \in DOMAIN ops : ops[i].op \in {"attach", "status", "null"} => ops[i].a \in known

LEMMA RemovesInOrder ==
  ASSUME NEW a \in known, NEW ops, DOMAIN ops = {1, 2, 3}, Removes(ops, a, sct[a])
  PROVE  InOrder(ops) /\ \E j \in DOMAIN ops : Clears(ops[j], a)
<1>1. /\ ops[1].op = "null" /\ ops[1].a = a /\ ops[1].s = sct[a]
      /\ ops[2].op = "drop" /\ ops[3].op = "status" /\ ops[3].a = a
  BY DEF Removes, Null, Drop, SetStatus, Op, OpValue
<1>2. \A i \in DOMAIN ops : Needs(ops[i]) => \E j \in DOMAIN ops : j < i /\ Clears(ops[j], ops[i].a)
  <2>1. \A i \in DOMAIN ops : Needs(ops[i]) => i = 3
    BY <1>1 DEF Needs
  <2>2. 1 \in DOMAIN ops /\ 1 < 3 /\ Clears(ops[1], ops[3].a)
    BY <1>1 DEF Clears
  <2>. QED  BY <2>1, <2>2
<1>3. \A i \in DOMAIN ops : ops[i].op = "null" => i = 1
  BY <1>1
<1>4. \A i \in DOMAIN ops : ops[i].op \in {"attach", "status", "null"} => ops[i].a \in known
  BY <1>1
<1>5. 1 \in DOMAIN ops /\ Clears(ops[1], a)
  BY <1>1 DEF Clears
<1>. QED  BY <1>1, <1>2, <1>3, <1>4, <1>5 DEF InOrder

LEMMA FollowsOrder ==
  ASSUME NEW o, NEW ops, Follows(o, ops),
         o.op = "attach" \/ sct[o.a] # None \/ status[o.a] # "NotConnected" => o.a \in known
  PROVE  /\ InOrder(ops)
         /\ o.op = "take" => sct[o.a] = None \/ \E j \in DOMAIN ops : Clears(ops[j], o.a)
         /\ o.op # "take" => \A i \in DOMAIN ops : ops[i].op # "null"
<1>. DEFINE G == /\ InOrder(ops)
                 /\ o.op = "take" => sct[o.a] = None \/ \E j \in DOMAIN ops : Clears(ops[j], o.a)
                 /\ o.op # "take" => \A i \in DOMAIN ops : ops[i].op # "null"
<1>. USE DEF Needs, Op, OpValue
<1>2. ops = <<>> /\ (o.op = "take" => sct[o.a] = None) => G
  BY DEF InOrder
<1>3. /\ o.op = "take" /\ sct[o.a] # None
      /\ ops = <<Null(o.a, sct[o.a]), Drop(o.a, sct[o.a]), SetStatus(o.a, "NotConnected")>>
      => G
  <2>. SUFFICES ASSUME o.op = "take", sct[o.a] # None,
                       ops = <<Null(o.a, sct[o.a]), Drop(o.a, sct[o.a]),
                               SetStatus(o.a, "NotConnected")>>
                PROVE  G
    OBVIOUS
  <2>1. DOMAIN ops = {1, 2, 3} /\ Removes(ops, o.a, sct[o.a])
    BY DEF Removes
  <2>. QED  BY <2>1, RemovesInOrder, Zenon
<1>4. o.op = "attach" /\ ops = <<SetStatus(o.a, "Connected")>> => G
  BY DEF SetStatus, InOrder
<1>5. status[o.a] # "NotConnected" /\ o.op = "confirmable" /\ ops = <<SetStatus(o.a, "Confirmed")>> => G
  BY DEF SetStatus, InOrder
<1>6. /\ o.op # "take"
      /\ \/ ops = <<Take(o.a)>> \/ ops = <<Send(o.a)>> \/ ops = <<Ban(o.a)>>
         \/ ops = <<SetTrust(o.a, Baned)>> \/ ops = <<Write(o.a, sct[o.a])>>
      => G
  BY DEF Take, Send, Ban, SetTrust, Write, InOrder
<1>7. ASSUME NEW v \in Int, o.op # "take",
             ops = <<SetTrust(o.a, v)>> \/ ops = <<SetTrust(o.a, v), Send(o.a)>>
      PROVE  G
  BY <1>7 DEF SetTrust, Send, InOrder
<1>. HIDE DEF G
<1>8. G
  BY <1>2, <1>3, <1>4, <1>5, <1>6, <1>7 DEF Follows
<1>. QED  BY <1>8 DEF G

\* What an access does to the infos, the sockets and the queues.
Effect(o) ==
    /\ UNCHANGED <<known, watched, sock, heard>>
    /\ \/ o.op = "null" /\ sct' = [sct EXCEPT ![o.a] = None]
       \/ o.op = "attach" /\ sct' = [sct EXCEPT ![o.a] = o.s]
       \/ o.op \notin {"null", "attach"} /\ sct' = sct
    /\ \/ /\ o.op = "status" /\ status' = [status EXCEPT ![o.a] = o.v]
          /\ mainQueue' = mainQueue \/ mainQueue' = Append(mainQueue, <<o.a, o.v>>)
       \/ o.op # "status" /\ UNCHANGED <<status, mainQueue>>
    /\ \/ /\ o.op = "drop" /\ sock[o.s] = "deleted" /\ freed' = TRUE
          /\ UNCHANGED <<peerOf, wired, senderQueue>>
       \/ /\ o.op = "drop" /\ sock[o.s] # "deleted" /\ wired' = wired \ {o.s}
          /\ senderQueue' = Append(senderQueue, Op("deleteLater", None, o.s))
          /\ UNCHANGED <<peerOf, freed>>
       \/ /\ o.op = "write" /\ freed' = (freed \/ sock[o.s] = "deleted")
          /\ senderQueue' = IF sock[o.s] = "open" THEN Append(senderQueue, o) ELSE senderQueue
          /\ UNCHANGED <<peerOf, wired>>
       \/ /\ o.op = "attach" /\ o.s # None
          /\ peerOf' = [peerOf EXCEPT ![o.s] = o.a] /\ wired' = wired \cup {o.s}
          /\ UNCHANGED <<freed, senderQueue>>
       \/ /\ o.op \notin {"drop", "write"} /\ (o.op = "attach" => o.s = None)
          /\ UNCHANGED <<peerOf, wired, freed, senderQueue>>

LEMMA AccessEffect ==
  ASSUME Types, NEW t \in Thread, Access(t)
  PROVE  Effect(program[t][1])
<1>. DEFINE o == program[t][1]
<1>1. Head(program[t]) = o
  BY AccessPops
<1>. USE DEF At, Effect, info, sockets, queues
<1>2. CASE DoTake(t)
  BY <1>1, <1>2 DEF DoTake
<1>3. CASE DoNull(t)
  BY <1>1, <1>3 DEF DoNull
<1>4. CASE DoDrop(t)
  BY <1>1, <1>4 DEF DoDrop
<1>5. CASE DoStatus(t)
  BY <1>1, <1>5 DEF DoStatus
<1>6. CASE DoAttach(t)
  BY <1>1, <1>6 DEF DoAttach
<1>7. CASE DoTrust(t)
  BY <1>1, <1>7 DEF DoTrust
<1>8. CASE DoLocal(t)
  BY <1>1, <1>8 DEF DoLocal
<1>9. CASE DoConfirmable(t)
  BY <1>1, <1>9 DEF DoConfirmable
<1>10. CASE DoRemove(t)
  BY <1>1, <1>10 DEF DoRemove
<1>11. CASE DoForceRemove(t)
  BY <1>1, <1>11 DEF DoForceRemove
<1>12. CASE DoBan(t)
  BY <1>1, <1>12 DEF DoBan
<1>13. CASE DoUnBan(t)
  BY <1>1, <1>13 DEF DoUnBan
<1>14. CASE DoSend(t)
  BY <1>1, <1>14 DEF DoSend
<1>15. CASE DoWrite(t)
  BY <1>1, <1>15 DEF DoWrite
<1>16. CASE DoReadTrust(t)
  BY <1>1, <1>16 DEF DoReadTrust
<1>. QED  BY <1>2, <1>3, <1>4, <1>5, <1>6, <1>7, <1>8, <1>9, <1>10, <1>11, <1>12,
          <1>13, <1>14, <1>15, <1>16 DEF Access, InfoAccess, NodeCall

\* The connections that wait in the queue stay those of new peers.
LEMMA NewPeerStep ==
  ASSUME Types, NewPeer, known' = known,
         \A i \in DOMAIN program'["sender"] : program'["sender"][i].op = "create" =>
            \E j \in DOMAIN program["sender"] : program'["sender"][i] = program["sender"][j],
         \/ senderQueue' = senderQueue
         \/ senderQueue # <<>> /\ senderQueue' = Tail(senderQueue)
         \/ \E j \in Jobs : j.op # "incomingTcp" /\ senderQueue' = Append(senderQueue, j)
  PROVE  NewPeer'
<1>1. senderQueue \in Seq(Jobs)
  BY DEF Types
<1>2. \E d \in {0, 1} : \A i \in DOMAIN senderQueue' :
         i \in Int /\ (senderQueue'[i].op = "incomingTcp" =>
            i + d \in DOMAIN senderQueue /\ senderQueue'[i] = senderQueue[i + d])
  <2>1. CASE senderQueue' = senderQueue
    <3>1. 0 \in {0, 1} /\ DOMAIN senderQueue = 1 .. Len(senderQueue) /\ Len(senderQueue) \in Nat
      BY <1>1, LenProperties
    <3>. QED  BY <2>1, <3>1
  <2>2. CASE senderQueue # <<>> /\ senderQueue' = Tail(senderQueue)
    <3>1. 1 \in {0, 1}
      OBVIOUS
    <3>2. \A i \in DOMAIN senderQueue' : i \in Int /\
            i + 1 \in DOMAIN senderQueue /\ senderQueue'[i] = senderQueue[i + 1]
      BY <1>1, <2>2, TailOf
    <3>. QED  BY <3>1, <3>2
  <2>3. ASSUME NEW j \in Jobs, j.op # "incomingTcp", senderQueue' = Append(senderQueue, j)
        PROVE  \A i \in DOMAIN senderQueue' :
                 i \in Int /\ (senderQueue'[i].op = "incomingTcp" =>
                    i + 0 \in DOMAIN senderQueue /\ senderQueue'[i] = senderQueue[i + 0])
    BY <1>1, <2>3, AppendOf
  <2>4. 0 \in {0, 1}
    OBVIOUS
  <2>. QED  BY <2>1, <2>2, <2>3, <2>4
<1>3. PICK d \in {0, 1} : \A i \in DOMAIN senderQueue' :
         i \in Int /\ (senderQueue'[i].op = "incomingTcp" =>
            i + d \in DOMAIN senderQueue /\ senderQueue'[i] = senderQueue[i + d])
  BY <1>2
<1>. SUFFICES ASSUME NEW i \in DOMAIN senderQueue', senderQueue'[i].op = "incomingTcp"
              PROVE  LET a == senderQueue'[i].a
                     IN  /\ a \notin known'
                         /\ \A j \in DOMAIN program'["sender"] :
                               program'["sender"][j].op = "create" => program'["sender"][j].a # a
                         /\ \A j \in DOMAIN senderQueue' :
                               senderQueue'[j].op = "incomingTcp" /\ senderQueue'[j].a = a => j = i
  BY DEF NewPeer
<1>4. i + d \in DOMAIN senderQueue /\ senderQueue'[i] = senderQueue[i + d]
  BY <1>3
<1>5. \A j \in DOMAIN program'["sender"] :
         program'["sender"][j].op = "create" => program'["sender"][j].a # senderQueue'[i].a
  BY <1>4 DEF NewPeer
<1>6. \A j \in DOMAIN senderQueue' :
         senderQueue'[j].op = "incomingTcp" /\ senderQueue'[j].a = senderQueue'[i].a => j = i
  <2>1. \A j \in DOMAIN senderQueue' :
          senderQueue'[j].op = "incomingTcp" /\ senderQueue'[j].a = senderQueue'[i].a
             => j + d = i + d
    BY <1>3, <1>4 DEF NewPeer
  <2>. QED  BY <1>3, <2>1
<1>. QED  BY <1>4, <1>5, <1>6 DEF NewPeer

LEMMA AccessOrder ==
  ASSUME Turns \/ Fresh, Types, Life, Order, NEW t \in Thread, Access(t)
  PROVE  Order'
<1>. USE SenderIsThread
<1>. DEFINE o == program[t][1]
<1>1. /\ program[t] # <<>> /\ o \in Ops /\ o.a \in Address /\ o.s \in Socket \cup {None}
      /\ OpOK(o) /\ 1 \in DOMAIN program[t]
  BY AccessPops
<1>2. PICK ops \in Seq(Ops) : Pops(t, ops, 1) /\ Follows(o, ops)
  BY AccessPops
<1>3. \A i \in DOMAIN ops : Common(ops[i])
  BY <1>1, <1>2, FollowsOps
<1>4. Effect(o)
  BY AccessEffect
<1>15. o.op \in {"attach", "status", "null"} => o.a \in known
  BY <1>1 DEF Order, KnownOps
<1>. HIDE DEF o
<1>5. /\ InOrder(ops)
      /\ o.op = "take" => sct[o.a] = None \/ \E j \in DOMAIN ops : Clears(ops[j], o.a)
      /\ o.op # "take" => \A i \in DOMAIN ops : ops[i].op # "null"
  <2>1. sct[o.a] # None \/ status[o.a] # "NotConnected" => o.a \in known
    BY <1>1 DEF Order, KnownOps
  <2>. QED  BY <1>2, <1>15, <2>1, FollowsOrder
<1>6. \A a \in Address :
         sct'[a] = IF o.op = "null" /\ a = o.a THEN None
                   ELSE IF o.op = "attach" /\ a = o.a THEN o.s ELSE sct[a]
  BY <1>1, <1>4 DEF Effect, Types, FieldTypes
\* a socket that is attached finds nobody who presumes that there is none
<1>7. ASSUME o.op = "attach", o.s # None
      PROVE  \A u \in Thread : \A i \in DOMAIN program'[u] :
                ~ Needs(program'[u][i]) /\ program'[u][i].op # "null"
  <2>1. t = "sender" /\ ~ Fresh
    BY <1>1, <1>7 DEF Types, Order, Unmet, o
  <2>2. \A u \in Thread \ {t} : program[u] = <<>>
    BY <1>1, <2>1 DEF Order, Alone
  <2>8. DOMAIN <<>> = {}
    OBVIOUS
  <2>3. \A u \in Thread \ {t} : DOMAIN program'[u] = {}
    BY <1>2, <2>2, <2>8 DEF Pops
  <2>4. \A i \in DOMAIN ops : ~ Needs(ops[i]) /\ ops[i].op # "null"
    BY <1>2, <1>7 DEF Follows, Needs, SetStatus, OpValue
  <2>9. 1 \in DOMAIN program[t] /\ \A j \in DOMAIN program[t] : j \in Int
    BY <1>1, <1>2, PopsRest
  <2>5. \A j \in DOMAIN program[t] : j > 1 => ~ Needs(program[t][j]) /\ program[t][j].op # "null"
    <3>1. \A j \in DOMAIN program[t] : 1 < j =>
             program[t][j].op \in {"local", "registered", "announce", "connect"}
      BY <1>7, <2>1, <2>9 DEF Order, Ending, o
    <3>. QED  BY <2>9, <3>1 DEF Needs
  <2>6. \A i \in DOMAIN program'[t] :
           \/ i \in DOMAIN ops /\ program'[t][i] = ops[i]
           \/ \E j \in DOMAIN program[t] : j > 1 /\ program'[t][i] = program[t][j]
    BY <1>2, PopsRest
  <2>7. \A i \in DOMAIN program'[t] : ~ Needs(program'[t][i]) /\ program'[t][i].op # "null"
    BY <2>4, <2>5, <2>6 DEF Needs
  <2>. QED  BY <2>3, <2>7
<1>8. ClearFirst'
  <2>1. o.op \in {"take", "null"} =>
           sct'[o.a] = None \/ \E j \in DOMAIN ops : Clears(ops[j], o.a)
    BY <1>1, <1>5, <1>6
  <2>2. \A a \in Address :
           \/ sct'[a] \in {sct[a], None}
           \/ \A u \in Thread : \A i \in DOMAIN program'[u] :
                 Needs(program'[u][i]) => program'[u][i].a # a
    BY <1>6, <1>7
  <2>. QED  BY <1>2, <1>5, <2>1, <2>2, ClearStep DEF Order, o, InOrder
<1>9. NullFirst'
  <2>1. \A a \in Address :
           \/ sct'[a] \in {sct[a], None}
           \/ \A u \in Thread : \A i \in DOMAIN program'[u] :
                 program'[u][i].op = "null" => program'[u][i].a # a
    BY <1>6, <1>7
  <2>2. \A i \in DOMAIN ops : ops[i].op = "null" =>
            /\ i = 1 /\ sct'[ops[i].a] = ops[i].s
            /\ Removes(ops, ops[i].a, ops[i].s)
    <3>1. \A i \in DOMAIN ops : ops[i].a \in Address
      BY ElementOfSeq DEF Ops, OpRecord
    <3>. QED  BY <1>5, <1>6, <3>1 DEF InOrder
  <2>. QED  BY <1>2, <2>1, <2>2, NullStep DEF Order
<1>10. Ending'
  BY <1>2, <1>3, EndingStep DEF Order
<1>11. KnownOps'
  <2>1. known' = known
    BY <1>4 DEF Effect
  <2>3. \A i \in DOMAIN mainQueue' : mainQueue'[i][1] \in known
    <3>1. CASE mainQueue' = mainQueue
      BY <3>1 DEF Order, KnownOps
    <3>2. CASE mainQueue' = Append(mainQueue, <<o.a, o.v>>) /\ o.op = "status"
      <4>. DEFINE e == <<o.a, o.v>>
      <4>1. e \in Address \X Status /\ e[1] = o.a
        BY <1>1, <3>2 DEF OpOK
      <4>. HIDE DEF e
      <4>2. mainQueue \in Seq(Address \X Status) /\ mainQueue' = Append(mainQueue, e)
        BY <3>2 DEF Types, e
      <4>3. \A i \in DOMAIN mainQueue' :
               (i \in DOMAIN mainQueue /\ mainQueue'[i] = mainQueue[i]) \/ mainQueue'[i] = e
        BY <4>1, <4>2, AppendOf
      <4>. QED  BY <1>15, <3>2, <4>1, <4>3 DEF Order, KnownOps
    <3>. QED  BY <1>4, <3>1, <3>2 DEF Effect
  <2>4. \A a \in Address \ known : sct'[a] = sct[a] /\ status'[a] = status[a]
    BY <1>1, <1>4, <1>6, <1>15 DEF Effect, Types, FieldTypes
  <2>. QED  BY <1>2, <1>5, <2>1, <2>3, <2>4, KnownStep DEF Order, InOrder
<1>12. Turns => Alone'
  BY <1>1, <1>2 DEF Order, Alone, Pops
<1>13. ASSUME Fresh PROVE Unmet' /\ NewPeer' /\ KnownPeer'
  <2>1. ~(o.op = "attach" /\ o.s # None)
    BY <1>1, <1>13 DEF Types, Order, Unmet, o
  <2>2. known' = known /\ peerOf' = peerOf
    BY <1>4, <2>1 DEF Effect
  <2>3. \A i \in DOMAIN program'["sender"] :
           \/ Common(program'["sender"][i])
           \/ \E j \in DOMAIN program["sender"] : program'["sender"][i] = program["sender"][j]
    BY <1>2, <1>3, PopsRest
  <2>4. Unmet'
    BY <1>13, <2>3 DEF Order, Unmet, Common
  <2>5. KnownPeer'
    BY <1>13, <2>2 DEF Order, KnownPeer
  <2>6. \/ senderQueue' = senderQueue
        \/ \E j \in Jobs : j.op # "incomingTcp" /\ senderQueue' = Append(senderQueue, j)
    <3>1. o.op = "drop" => Op("deleteLater", None, o.s) \in Jobs
      BY <1>1 DEF Op, OpOK, Jobs, JobRecord, JobOK
    <3>2. Op("deleteLater", None, o.s).op # "incomingTcp"
      BY DEF Op
    <3>3. o.op = "write" => o \in Jobs
      BY <1>1 DEF Ops, OpRecord, OpOK, Jobs, JobRecord, JobOK
    <3>. QED  BY <1>4, <3>1, <3>2, <3>3 DEF Effect
  <2>7. NewPeer'
    BY <1>13, <2>2, <2>3, <2>6, NewPeerStep DEF Order, Common
  <2>. QED  BY <2>4, <2>5, <2>7
<1>. QED  BY <1>8, <1>9, <1>10, <1>11, <1>12, <1>13 DEF Order


\* A step that leaves the programs alone.
LEMMA SameOrder ==
  ASSUME Order, UNCHANGED <<program, known, sct, status>>,
         \A i \in DOMAIN mainQueue' : mainQueue'[i][1] \in known,
         Fresh => NewPeer' /\ KnownPeer'
  PROVE  Order'
<1>1. ClearFirst' /\ NullFirst' /\ Ending' /\ Alone' = Alone /\ Unmet' = Unmet
  BY DEF Order, ClearFirst, NullFirst, Ending, Alone, Unmet
<1>2. KnownOps'
  BY DEF Order, KnownOps
<1>. QED  BY <1>1, <1>2 DEF Order

\* A thread begins what it does in order.
Tidy(ops) ==
    \A i, j \in DOMAIN ops : i < j =>
        /\ ops[i].op = "create" \/ (ops[i].op = "attach" /\ ops[i].s # None) =>
              ops[j].op \in {"local", "registered", "announce", "connect"}
        /\ ops[i].op = "registered" => ops[j].op = "connect"

LEMMA OthersNull ==
  ASSUME NullFirst, NEW t \in Thread, sct' = sct,
         \A i \in DOMAIN program'[t] : program'[t][i].op # "null",
         \A u \in Thread \ {t} : program'[u] = program[u]
  PROVE  NullFirst'
<1>. SUFFICES ASSUME NEW u \in Thread, NEW i \in DOMAIN program'[u], program'[u][i].op = "null"
              PROVE  /\ i = 1 /\ sct'[program'[u][i].a] \in {program'[u][i].s, None}
                     /\ Removes(program'[u], program'[u][i].a, program'[u][i].s)
  BY DEF NullFirst, Removes, Null, Drop, SetStatus, Op, OpValue
<1>1. u # t /\ program'[u] = program[u]
  OBVIOUS
<1>. QED  BY <1>1 DEF NullFirst

LEMMA PopsNone ==
  ASSUME Types, NEW t \in Thread, NEW ops \in Seq(Ops), NEW k \in {0, 1}, Pops(t, ops, k),
         NEW u \in Thread
  PROVE  \A i \in DOMAIN program'[u] :
            i \in DOMAIN ops \/ \E j \in DOMAIN program[u] : program'[u][i] = program[u][j]
<1>1. CASE u = t
  <2>1. \A i \in DOMAIN program'[t] :
           i \in DOMAIN ops \/ \E j \in DOMAIN program[t] : program'[t][i] = program[t][j]
    BY PopsOf
  <2>. QED  BY <1>1, <2>1
<1>2. CASE u # t
  BY <1>2 DEF Pops
<1>. QED  BY <1>1, <1>2

LEMMA Popped ==
  ASSUME Types, NEW t \in Thread, Pops(t, <<>>, 1), NEW u \in Thread, NEW i \in DOMAIN program'[u]
  PROVE  \E j \in DOMAIN program[u] : program'[u][i] = program[u][j]
<1>1. <<>> \in Seq(Ops) /\ DOMAIN <<>> = {} /\ 1 \in {0, 1}
  OBVIOUS
<1>. QED  BY <1>1, PopsNone

LEMMA StartOrder ==
  ASSUME Types, Order, NEW t \in Thread, MayStart(t), NEW ops \in Seq(Ops), Start(t, ops),
         UNCHANGED <<known, sct, status>>,
         \A i \in DOMAIN mainQueue' : mainQueue'[i][1] \in known,
         InOrder(ops), \A i \in DOMAIN ops : ops[i].op # "null",
         t = "sender" => Tidy(ops),
         Fresh => Unmet' /\ NewPeer' /\ KnownPeer'
  PROVE  Order'
<1>. USE SenderIsThread
<1>1. program[t] = <<>>
  BY MayStartIdle
<1>2. program'[t] = ops /\ \A u \in Thread \ {t} : program'[u] = program[u]
  BY DEF Start, Types
<1>3. ClearFirst'
  BY <1>2 DEF Order, ClearFirst, InOrder, Needs, Clears
<1>4. NullFirst'
  BY <1>2, OthersNull DEF Order
<1>5. Ending'
  <2>1. CASE t = "sender"
    BY <1>2, <2>1 DEF Ending, Tidy
  <2>2. CASE t # "sender"
    BY <1>2, <2>2 DEF Order, Ending
  <2>. QED  BY <2>1, <2>2
<1>6. KnownOps'
  BY <1>2 DEF Order, KnownOps, InOrder
<1>7. Turns => Alone'
  BY <1>2 DEF Turns, MayStart, Idle, Alone
<1>. QED  BY <1>3, <1>4, <1>5, <1>6, <1>7 DEF Order

\* A thread makes an access that concerns no socket of an info.
LEMMA PopOrder ==
  ASSUME Types, Order, NEW t \in Thread, Pops(t, <<>>, 1),
         program[t][1].op \notin {"take", "null"},
         UNCHANGED <<known, sct, status, mainQueue, peerOf, senderQueue>>
  PROVE  Order'
<1>. USE SenderIsThread
<1>1. <<>> \in Seq(Ops) /\ DOMAIN <<>> = {} /\ 1 \in {0, 1}
  OBVIOUS
<1>2. \A u \in Thread : \A i \in DOMAIN program'[u] :
         \E j \in DOMAIN program[u] : program'[u][i] = program[u][j]
  BY Popped
<1>3. ClearFirst'
  BY <1>1, ClearStep DEF Order
<1>4. NullFirst'
  BY <1>1, NullStep DEF Order
<1>5. Ending'
  BY <1>1, EndingStep DEF Order
<1>6. KnownOps'
  BY <1>1, KnownStep DEF Order, KnownOps
<1>7. Turns => Alone'
  <2>1. program[t] # <<>> /\ \A u \in Thread \ {t} : program'[u] = program[u]
    BY DEF Pops
  <2>. QED  BY <2>1 DEF Order, Alone
<1>8. Fresh => Unmet' /\ NewPeer' /\ KnownPeer'
  BY <1>2 DEF Order, Unmet, NewPeer, KnownPeer
<1>. QED  BY <1>3, <1>4, <1>5, <1>6, <1>7, <1>8 DEF Order

LEMMA RegisterOrder ==
  ASSUME Turns \/ Fresh, Types, Life, Hearing, Order, Register
  PROVE  Order'
<1>. DEFINE o == program["sender"][1]
            p == program["sender"]
<1>. USE SenderIsThread
<1>1. /\ p # <<>> /\ p \in Seq(Ops) /\ 1 \in DOMAIN p /\ o \in Ops /\ Head(p) = o
      /\ o.a \in Address /\ o.s \in Socket \cup {None} /\ OpOK(o)
  <2>1. p # <<>>
    BY DEF Register, DoCreate, DoAnnounce, DoRegistered, DoConnect, At
  <2>2. p \in Seq(Ops) /\ 1 \in DOMAIN p /\ o \in Ops /\ Head(p) = o
    BY <2>1, TailOf DEF Types
  <2>. QED  BY <2>1, <2>2 DEF Ops, OpRecord
<1>2. <<>> \in Seq(Ops) /\ DOMAIN <<>> = {} /\ 1 \in {0, 1}
  OBVIOUS
<1>3. Continue("sender", <<>>) => Pops("sender", <<>>, 1)
  BY <1>1, <1>2, ContinuePops
<1>4. CASE DoCreate
  <2>1. o.op = "create" /\ o.s \in Socket /\ Pops("sender", <<>>, 1)
    BY <1>1, <1>3, <1>4 DEF DoCreate, At, OpOK
  <2>2. o.a \notin known /\ peerOf[o.s] = None
    BY <1>1, <2>1 DEF Hearing, Creating, Life, AttachedOnce, Attaches
  <2>3. /\ known' = known \cup {o.a}
        /\ sct' = [sct EXCEPT ![o.a] = o.s]
        /\ \A a \in Address : a # o.a => status'[a] = status[a]
        /\ peerOf' = [peerOf EXCEPT ![o.s] = o.a]
        /\ UNCHANGED <<senderQueue, mainQueue>>
    BY <1>1, <1>4 DEF DoCreate, queues, Types, FieldTypes
  <2>. HIDE DEF o
  <2>4. \A u \in Thread : \A i \in DOMAIN program'[u] :
           \E j \in DOMAIN program[u] : program'[u][i] = program[u][j]
    BY <2>1, Popped
  <2>5. \A u \in Thread : \A i \in DOMAIN program'[u] :
           Needs(program'[u][i]) \/ program'[u][i].op = "null" => program'[u][i].a # o.a
    BY <2>2, <2>4 DEF Order, KnownOps, Needs
  <2>6. \A a \in Address : a # o.a => sct'[a] = sct[a]
    BY <1>1, <2>3 DEF Types, FieldTypes
  <2>7. ClearFirst'
    BY <1>2, <2>1, <2>5, <2>6, ClearStep DEF Order, o
  <2>8. NullFirst'
    BY <1>2, <2>1, <2>5, <2>6, NullStep DEF Order
  <2>9. Ending'
    BY <1>2, <2>1, EndingStep DEF Order
  <2>10. KnownOps'
    BY <1>2, <2>1, <2>3, <2>6, KnownStep DEF Order, KnownOps
  <2>11. Turns => Alone'
    <3>1. program["sender"] # <<>> /\ \A u \in Thread \ {"sender"} : program'[u] = program[u]
      BY <2>1 DEF Pops
    <3>. QED  BY <3>1 DEF Order, Alone
  <2>12. ASSUME Fresh PROVE Unmet' /\ NewPeer' /\ KnownPeer'
    <3>1. Unmet'
      BY <2>4, <2>12 DEF Order, Unmet
    <3>2. NewPeer'
      BY <1>1, <2>1, <2>3, <2>4, <2>12 DEF Order, NewPeer, o
    <3>3. KnownPeer'
      <4>1. peerOf'[o.s] = o.a
        BY <2>1, <2>3 DEF Types, FieldTypes
      <4>2. ASSUME NEW a \in known PROVE \E s \in Socket : peerOf'[s] = a
        <5>1. PICK s \in Socket : peerOf[s] = a
          BY <2>12 DEF Order, KnownPeer
        <5>2. a \in Address
          BY DEF Types, FieldTypes
        <5>3. s # o.s
          BY <2>2, <5>1, <5>2, NoneApart
        <5>. QED  BY <2>3, <5>1, <5>3 DEF Types, FieldTypes
      <4>. QED  BY <2>1, <2>3, <4>1, <4>2 DEF KnownPeer
    <3>. QED  BY <3>1, <3>2, <3>3
  <2>. QED  BY <2>7, <2>8, <2>9, <2>10, <2>11, <2>12 DEF Order
<1>5. CASE DoAnnounce \/ DoConnect
  <2>1. /\ o.op \in {"announce", "connect"} /\ Continue("sender", <<>>)
        /\ UNCHANGED <<known, sct, status, mainQueue, peerOf, senderQueue>>
    BY <1>1, <1>5 DEF DoAnnounce, DoConnect, At, info, sockets, queues
  <2>. QED  BY <1>3, <2>1, PopOrder
<1>6. CASE DoRegistered
  <2>1. /\ o.op = "registered"
        /\ Continue("sender", <<>>) \/ Start("sender", <<>>)
        /\ UNCHANGED <<known, sct, status, mainQueue, peerOf, senderQueue>>
    BY <1>1, <1>6 DEF DoRegistered, At, info, sockets, queues
  <2>2. CASE Continue("sender", <<>>)
    BY <1>3, <2>1, <2>2, PopOrder
  <2>3. CASE Start("sender", <<>>)
    <3>1. program'["sender"] = <<>> /\ \A u \in Thread \ {"sender"} : program'[u] = program[u]
      BY <2>3 DEF Start, Types
    <3>2. ClearFirst'
      BY <1>2, <2>1, <3>1 DEF Order, ClearFirst, Needs, Clears
    <3>8. NullFirst'
      BY <1>2, <2>1, <3>1, OthersNull DEF Order
    <3>3. Ending' /\ Unmet'
      BY <1>2, <3>1 DEF Ending, Unmet
    <3>4. KnownOps'
      BY <1>2, <2>1, <3>1 DEF Order, KnownOps
    <3>5. Alone => Alone'
      BY <3>1 DEF Alone
    <3>6. NewPeer => NewPeer'
      BY <1>2, <2>1, <3>1 DEF NewPeer
    <3>7. KnownPeer => KnownPeer'
      BY <2>1 DEF KnownPeer
    <3>. QED  BY <3>2, <3>3, <3>4, <3>5, <3>6, <3>7, <3>8 DEF Order
  <2>. QED  BY <2>1, <2>2, <2>3
<1>. QED  BY <1>4, <1>5, <1>6 DEF Register

\* A job that registers a socket begins.
Registration(a, s, b, ops) ==
    \/ ops = <<>>
    \/ a \notin known /\ ops = <<Create(a, s, b), Announce(a)>>
    \/ a \notin known /\ ops = <<Create(a, s, b), Announce(a), Op("connect", a, s)>>
    \/ /\ a \in known
       /\ ops = <<Take(a), Attach(a, s), SetLocal(a, b), Registered(a, s)>>
    \/ /\ a \in known
       /\ ops = <<Take(a), Attach(a, s), SetLocal(a, b), Registered(a, s), Op("connect", a, s)>>

LEMMA RegistrationInOrder ==
  ASSUME NEW a \in Address, NEW s \in Socket, NEW b, NEW ops,
         Registration(a, s, b, ops)
  PROVE  /\ InOrder(ops) /\ Tidy(ops) /\ \A i \in DOMAIN ops : ops[i].op # "null"
         /\ \A i \in DOMAIN ops : ops[i].op = "attach" => a \in known
         /\ \A i \in DOMAIN ops : ops[i].op = "create" => ops[i].a = a
<1>. DEFINE G == /\ InOrder(ops) /\ Tidy(ops) /\ \A i \in DOMAIN ops : ops[i].op # "null"
                 /\ \A i \in DOMAIN ops : ops[i].op = "attach" => a \in known
                 /\ \A i \in DOMAIN ops : ops[i].op = "create" => ops[i].a = a
<1>1. /\ Create(a, s, b).op = "create" /\ Create(a, s, b).a = a
      /\ Announce(a).op = "announce" /\ Op("connect", a, s).op = "connect"
      /\ Take(a).op = "take" /\ Take(a).a = a /\ SetLocal(a, b).op = "local"
      /\ Attach(a, s).op = "attach" /\ Attach(a, s).a = a
      /\ Registered(a, s).op = "registered"
  BY DEF Create, Announce, Take, Attach, SetLocal, Registered, Op, OpValue
<1>2. ASSUME DOMAIN ops \in SUBSET {1, 2, 3},
             1 \in DOMAIN ops => ops[1].op = "create" /\ ops[1].a = a,
             2 \in DOMAIN ops => ops[2].op = "announce", 3 \in DOMAIN ops => ops[3].op = "connect"
      PROVE  G
  <2>1. InOrder(ops)
    BY <1>2 DEF InOrder, Needs
  <2>2. Tidy(ops)
    BY <1>2 DEF Tidy
  <2>. QED  BY <1>2, <2>1, <2>2
<1>3. ASSUME a \in known, {1, 2, 3, 4} \subseteq DOMAIN ops, DOMAIN ops \subseteq {1, 2, 3, 4, 5},
             ops[1].op = "take", ops[1].a = a, ops[2].op = "attach", ops[2].a = a,
             ops[3].op = "local", ops[4].op = "registered",
             5 \in DOMAIN ops => ops[5].op = "connect"
      PROVE  G
  <2>1. InOrder(ops)
    <3>1. \A i \in DOMAIN ops : Needs(ops[i]) \/ ops[i].op \in {"attach", "status", "null"} => i = 2
      BY <1>3 DEF Needs
    <3>2. 1 \in DOMAIN ops /\ 1 < 2 /\ Clears(ops[1], ops[2].a)
      BY <1>3 DEF Clears
    <3>. QED  BY <1>3, <3>1, <3>2 DEF InOrder
  <2>2. Tidy(ops)
    BY <1>3 DEF Tidy
  <2>. QED  BY <1>3, <2>1, <2>2
<1>4. ASSUME ops = <<>> PROVE G
  BY <1>4 DEF InOrder, Tidy
<1>5. ASSUME ops = <<Create(a, s, b), Announce(a)>> PROVE G
  <2>1. DOMAIN ops = {1, 2} /\ ops[1] = Create(a, s, b) /\ ops[2] = Announce(a)
    BY <1>5
  <2>. HIDE DEF G
  <2>2. /\ DOMAIN ops \in SUBSET {1, 2, 3} /\ 3 \notin DOMAIN ops
        /\ ops[1].op = "create" /\ ops[1].a = a /\ ops[2].op = "announce"
    BY <1>1, <2>1
  <2>. QED  BY <1>2, <2>2
<1>6. ASSUME ops = <<Create(a, s, b), Announce(a), Op("connect", a, s)>> PROVE G
  <2>1. DOMAIN ops = {1, 2, 3} /\ ops[1] = Create(a, s, b) /\ ops[2] = Announce(a)
        /\ ops[3] = Op("connect", a, s)
    BY <1>6
  <2>. HIDE DEF G
  <2>2. /\ DOMAIN ops \in SUBSET {1, 2, 3} /\ ops[3].op = "connect"
        /\ ops[1].op = "create" /\ ops[1].a = a /\ ops[2].op = "announce"
    BY <1>1, <2>1
  <2>. QED  BY <1>2, <2>2
<1>7. ASSUME a \in known, ops = <<Take(a), Attach(a, s), SetLocal(a, b), Registered(a, s)>>
      PROVE  G
  <2>1. DOMAIN ops = {1, 2, 3, 4} /\ ops[1] = Take(a) /\ ops[2] = Attach(a, s)
        /\ ops[3] = SetLocal(a, b) /\ ops[4] = Registered(a, s)
    BY <1>7
  <2>. HIDE DEF G
  <2>2. 5 \notin DOMAIN ops /\ {1, 2, 3, 4} \subseteq DOMAIN ops
        /\ DOMAIN ops \subseteq {1, 2, 3, 4, 5}
        /\ ops[1].op = "take" /\ ops[1].a = a /\ ops[2].op = "attach" /\ ops[2].a = a
        /\ ops[3].op = "local" /\ ops[4].op = "registered"
    BY <1>1, <2>1
  <2>. QED  BY <1>3, <1>7, <2>2
<1>8. ASSUME a \in known,
             ops = <<Take(a), Attach(a, s), SetLocal(a, b), Registered(a, s),
                     Op("connect", a, s)>>
      PROVE  G
  <2>1. DOMAIN ops = {1, 2, 3, 4, 5} /\ ops[1] = Take(a) /\ ops[2] = Attach(a, s)
        /\ ops[3] = SetLocal(a, b) /\ ops[4] = Registered(a, s) /\ ops[5] = Op("connect", a, s)
    BY <1>8
  <2>. HIDE DEF G
  <2>2. /\ {1, 2, 3, 4} \subseteq DOMAIN ops /\ DOMAIN ops \subseteq {1, 2, 3, 4, 5}
        /\ ops[1].op = "take" /\ ops[1].a = a /\ ops[2].op = "attach" /\ ops[2].a = a
        /\ ops[3].op = "local" /\ ops[4].op = "registered" /\ ops[5].op = "connect"
    BY <1>1, <2>1
  <2>. QED  BY <1>3, <1>8, <2>2
<1>. HIDE DEF G
<1>9. G
  BY <1>4, <1>5, <1>6, <1>7, <1>8 DEF Registration
<1>. QED  BY <1>9 DEF G

LEMMA TakeSocketOrder ==
  ASSUME Types, Order, NEW a \in Address, NEW s \in Socket, NEW b, NEW ops \in Seq(Ops),
         MayStart("sender"), Start("sender", ops),
         Registration(a, s, b, ops),
         UNCHANGED <<known, sct, status, mainQueue, peerOf>>,
         senderQueue # <<>>, senderQueue' = Tail(senderQueue),
         Fresh => Head(senderQueue).op = "incomingTcp" /\ Head(senderQueue).a = a
  PROVE  Order'
<1>. USE SenderIsThread
<1>1. /\ InOrder(ops) /\ Tidy(ops) /\ \A i \in DOMAIN ops : ops[i].op # "null"
      /\ \A i \in DOMAIN ops : ops[i].op = "attach" => a \in known
      /\ \A i \in DOMAIN ops : ops[i].op = "create" => ops[i].a = a
  BY RegistrationInOrder
<1>2. program'["sender"] = ops
  BY DEF Start, Types
<1>3. /\ 1 \in DOMAIN senderQueue /\ Head(senderQueue) = senderQueue[1]
      /\ \A i \in DOMAIN senderQueue' :
            i \in Int /\ i + 1 \in DOMAIN senderQueue /\ senderQueue'[i] = senderQueue[i + 1] /\ i # 0
  BY TailOf DEF Types
<1>4. ASSUME Fresh PROVE Unmet' /\ NewPeer' /\ KnownPeer'
  <2>1. a \notin known
    BY <1>3, <1>4 DEF Order, NewPeer
  <2>2. Unmet'
    BY <1>1, <1>2, <2>1 DEF Unmet
  <2>3. KnownPeer'
    BY <1>4 DEF Order, KnownPeer
  <2>4. ASSUME NEW i \in DOMAIN senderQueue', senderQueue'[i].op = "incomingTcp"
        PROVE  senderQueue'[i].a # a /\ senderQueue'[i].a \notin known
    <3>1. i + 1 # 1
      BY <1>3
    <3>. QED  BY <1>3, <1>4, <2>4, <3>1 DEF Order, NewPeer
  <2>5. ASSUME NEW i \in DOMAIN senderQueue', senderQueue'[i].op = "incomingTcp",
               NEW j \in DOMAIN senderQueue', senderQueue'[j].op = "incomingTcp",
               senderQueue'[i].a = senderQueue'[j].a
        PROVE  i = j
    <3>1. i + 1 = j + 1
      BY <1>3, <1>4, <2>5 DEF Order, NewPeer
    <3>. QED  BY <1>3, <3>1
  <2>6. NewPeer'
    BY <1>1, <1>2, <2>4, <2>5 DEF NewPeer
  <2>. QED  BY <2>2, <2>3, <2>6
<1>5. \A i \in DOMAIN mainQueue' : mainQueue'[i][1] \in known
  BY DEF Order, KnownOps
<1>. QED  BY <1>1, <1>4, <1>5, StartOrder

\* The jobs of addNode and incomingTcp: job j takes the socket s.
TakesSocket(j, s, b, ops) ==
    /\ sock[s] = "unused" /\ Registration(j.a, s, b, ops) /\ Start("sender", ops)
    /\ sock' = [sock EXCEPT ![s] = IF ops = <<>> THEN "deleted"
                                   ELSE IF j.op = "addNode" THEN "created" ELSE "open"]
    /\ ops # <<>> => ~(ConnectionsCount >= MaxConnections)
    /\ j.op = "incomingTcp" =>
          \/ ops = <<>>
          \/ ops = <<Create(j.a, s, b), Announce(j.a)>>
          \/ ops = <<Take(j.a), Attach(j.a, s), SetLocal(j.a, b), Registered(j.a, s)>>

LEMMA TakeSocketJobs ==
  ASSUME Types, AddNodeJob \/ IncomingTcpJob
  PROVE  LET j == senderQueue[1]
         IN  /\ MayStart("sender") /\ program["sender"] = <<>>
             /\ senderQueue # <<>> /\ Head(senderQueue) = j /\ senderQueue' = Tail(senderQueue)
             /\ UNCHANGED <<known, sct, status, trust, isLocal, watched, mainQueue, peerOf, wired,
                            freed, heard>>
             /\ j.a \in Address
             /\ \/ j.op = "addNode" /\ j.a \in Local
                \/ j.op = "incomingTcp" /\ j.a \in Remote
             /\ \E s \in Socket, b \in BOOLEAN, ops \in Seq(Ops) : TakesSocket(j, s, b, ops)
<1>. DEFINE j == senderQueue[1]
<1>. USE SenderIsThread
<1>1. senderQueue # <<>> /\ senderQueue' = Tail(senderQueue) /\ MayStart("sender")
      /\ UNCHANGED <<known, sct, status, trust, isLocal, watched, mainQueue, peerOf, wired,
                     freed, heard>>
  BY DEF Job, AddNodeJob, IncomingTcpJob, info
<1>2. j \in Jobs /\ Head(senderQueue) = j /\ program["sender"] = <<>>
  BY <1>1, TailOf, MayStartIdle DEF Types
<1>3. j \in JobRecord /\ JobOK(j)
  BY <1>2 DEF Jobs
<1>4. \A s \in Socket, b \in BOOLEAN :
        /\ RegisterSocket(j.a, s, b) # <<>> => ~(ConnectionsCount >= MaxConnections)
  BY DEF RegisterSocket
<1>. DEFINE G == \E s \in Socket, b \in BOOLEAN, ops \in Seq(Ops) : TakesSocket(j, s, b, ops)
            F == \/ j.op = "addNode" /\ j.a \in Local
                 \/ j.op = "incomingTcp" /\ j.a \in Remote
<1>5. ASSUME AddNodeJob PROVE G /\ F /\ j.a \in Address
  <2>1. j.op = "addNode" /\ j.a \in Local /\ j.a \in Address
    BY <1>2, <1>3, <1>5 DEF AddNodeJob, Job, JobOK, Address
  <2>. DEFINE steps(s) == RegisterSocket(j.a, s, TRUE)
              c(s) == Op("connect", j.a, s)
  <2>2. PICK s \in NextSocket :
          /\ sock' = [sock EXCEPT ![s] = IF steps(s) = <<>> THEN "deleted" ELSE "created"]
          /\ Start("sender", IF steps(s) = <<>> THEN <<>> ELSE steps(s) \o <<c(s)>>)
    BY <1>2, <1>5 DEF AddNodeJob
  <2>3. s \in Socket /\ sock[s] = "unused" /\ c(s) \in Ops
    BY <2>1, OpsOf DEF NextSocket
  <2>4. /\ steps(s) \in Seq(Ops)
        /\ \/ steps(s) = <<>>
           \/ /\ j.a \notin known
              /\ steps(s) = <<Create(j.a, s, TRUE), Announce(j.a)>>
           \/ /\ j.a \in known
              /\ steps(s) = <<Take(j.a), Attach(j.a, s), SetLocal(j.a, TRUE), Registered(j.a, s)>>
    BY <2>1, <2>3, RegisterSocketSteps, RegisterSocketIs
  <2>9. steps(s) # <<>> => ~(ConnectionsCount >= MaxConnections)
    BY <1>4, <2>3
  <2>10. TRUE \in BOOLEAN
    OBVIOUS
  <2>. HIDE DEF steps
  <2>5. CASE steps(s) = <<>>
    <3>1. <<>> \in Seq(Ops)
      BY EmptySeq
    <3>2. TakesSocket(j, s, TRUE, <<>>)
      BY <2>1, <2>2, <2>3, <2>5 DEF Registration, TakesSocket
    <3>. QED  BY <2>1, <2>3, <2>10, <3>1, <3>2
  <2>6. CASE steps(s) # <<>>
    <3>. DEFINE ops == steps(s) \o <<c(s)>>
    <3>. HIDE DEF c
    <3>1. ops \in Seq(Ops)
      <4>1. <<c(s)>> \in Seq(Ops)
        BY <2>3, TupleOf
      <4>. QED  BY <2>4, <4>1, ConcatProperties
    <3>2. \/ /\ j.a \notin known
             /\ ops = <<Create(j.a, s, TRUE), Announce(j.a), c(s)>>
          \/ /\ j.a \in known
             /\ ops = <<Take(j.a), Attach(j.a, s), SetLocal(j.a, TRUE), Registered(j.a, s), c(s)>>
      <4>1. CASE steps(s) = <<Create(j.a, s, TRUE), Announce(j.a)>> /\ j.a \notin known
        BY <4>1, ConcatOne
      <4>2. CASE /\ steps(s) = <<Take(j.a), Attach(j.a, s), SetLocal(j.a, TRUE),
                                 Registered(j.a, s)>>
                 /\ j.a \in known
        <5>1. \A v, w, x, y, z : <<v, w, x, y>> \o <<z>> = <<v, w, x, y, z>>
          BY ConcatOne
        <5>. QED  BY <4>2, <5>1
      <4>. QED  BY <2>4, <2>6, <4>1, <4>2
    <3>3. sock' = [sock EXCEPT ![s] = "created"] /\ Start("sender", ops)
      BY <2>2, <2>6
    <3>4. ops # <<>>
      BY <3>2
    <3>. HIDE DEF ops
    <3>5. Registration(j.a, s, TRUE, ops)
      BY <3>2 DEF Registration, c
    <3>6. sock' = [sock EXCEPT ![s] = IF ops = <<>> THEN "deleted"
                                      ELSE IF j.op = "addNode" THEN "created" ELSE "open"]
      BY <2>1, <3>3, <3>4
    <3>7. j.op # "incomingTcp"
      BY <2>1
    <3>8. TakesSocket(j, s, TRUE, ops)
      BY <2>3, <2>6, <2>9, <3>3, <3>5, <3>6, <3>7 DEF TakesSocket
    <3>. QED  BY <2>1, <2>3, <2>10, <3>1, <3>8
  <2>. QED  BY <2>5, <2>6
<1>6. ASSUME IncomingTcpJob PROVE G /\ F /\ j.a \in Address
  <2>1. j.op = "incomingTcp" /\ j.a \in Remote /\ j.a \in Address
    BY <1>2, <1>3, <1>6 DEF IncomingTcpJob, Job, JobOK, Address
  <2>. DEFINE steps(s) == IF IsBanned(j.a) THEN <<>> ELSE RegisterSocket(j.a, s, FALSE)
  <2>2. PICK s \in NextSocket :
          /\ sock' = [sock EXCEPT ![s] = IF steps(s) = <<>> THEN "deleted" ELSE "open"]
          /\ Start("sender", steps(s))
    BY <1>2, <1>6 DEF IncomingTcpJob
  <2>3. s \in Socket /\ sock[s] = "unused" /\ FALSE \in BOOLEAN
    BY DEF NextSocket
  <2>4. /\ steps(s) \in Seq(Ops)
        /\ \/ steps(s) = <<>>
           \/ /\ j.a \notin known
              /\ steps(s) = <<Create(j.a, s, FALSE), Announce(j.a)>>
           \/ /\ j.a \in known
              /\ steps(s) = <<Take(j.a), Attach(j.a, s), SetLocal(j.a, FALSE), Registered(j.a, s)>>
    BY <2>1, <2>3, RegisterSocketSteps, RegisterSocketIs, EmptySeq
  <2>5. steps(s) # <<>> => ~(ConnectionsCount >= MaxConnections)
    BY <1>4, <2>3
  <2>. DEFINE ops == steps(s)
  <2>. HIDE DEF steps
  <2>6. /\ Start("sender", ops) /\ ops \in Seq(Ops)
        /\ ops # <<>> => ~(ConnectionsCount >= MaxConnections)
        /\ sock' = [sock EXCEPT ![s] = IF ops = <<>> THEN "deleted"
                                       ELSE IF j.op = "addNode" THEN "created" ELSE "open"]
    BY <2>1, <2>2, <2>4, <2>5
  <2>7. Registration(j.a, s, FALSE, ops)
    BY <2>4 DEF Registration
  <2>8. \/ ops = <<>>
        \/ ops = <<Create(j.a, s, FALSE), Announce(j.a)>>
        \/ ops = <<Take(j.a), Attach(j.a, s), SetLocal(j.a, FALSE), Registered(j.a, s)>>
    BY <2>4
  <2>. HIDE DEF ops
  <2>9. TakesSocket(j, s, FALSE, ops)
    BY <2>3, <2>6, <2>7, <2>8 DEF TakesSocket
  <2>. QED  BY <2>1, <2>3, <2>6, <2>9
<1>. QED  BY <1>1, <1>2, <1>5, <1>6

\* A thread begins something that neither takes nor gives a socket.
LEMMA PlainOrder ==
  ASSUME Types, Order, NEW t \in Thread, MayStart(t), NEW ops \in Seq(Ops), Start(t, ops),
         \A i \in DOMAIN ops :
            /\ Common(ops[i]) /\ ~ Needs(ops[i]) /\ ops[i].op \notin {"attach", "null"}
            /\ ops[i].op = "status" => ops[i].a \in known,
         UNCHANGED <<known, sct, status, peerOf>>,
         \A i \in DOMAIN mainQueue' : mainQueue'[i][1] \in known,
         \/ senderQueue' = senderQueue
         \/ senderQueue # <<>> /\ senderQueue' = Tail(senderQueue)
         \/ \E j \in Jobs : j.op # "incomingTcp" /\ senderQueue' = Append(senderQueue, j)
  PROVE  Order'
<1>. USE SenderIsThread
<1>1. InOrder(ops) /\ Tidy(ops)
  BY DEF InOrder, Tidy, Common
<1>2. program'[t] = ops /\ \A u \in Thread \ {t} : program'[u] = program[u]
  BY DEF Start, Types
<1>3. ASSUME NEW i \in DOMAIN program'["sender"], program'["sender"][i].op \in {"create", "attach"}
      PROVE  i \in DOMAIN program["sender"] /\ program'["sender"][i] = program["sender"][i]
  BY <1>2, <1>3 DEF Common
<1>4. ASSUME Fresh PROVE Unmet' /\ NewPeer' /\ KnownPeer'
  <2>1. Unmet'
    BY <1>3, <1>4 DEF Order, Unmet
  <2>2. NewPeer'
    BY <1>3, <1>4, NewPeerStep DEF Order
  <2>3. KnownPeer'
    BY <1>4 DEF Order, KnownPeer
  <2>. QED  BY <2>1, <2>2, <2>3
<1>. QED  BY <1>1, <1>4, StartOrder

\* A step that leaves the programs alone.
LEMMA QueueOrder ==
  ASSUME Types, Order, UNCHANGED <<program, known, sct, status, peerOf, mainQueue>>,
         \/ senderQueue' = senderQueue
         \/ senderQueue # <<>> /\ senderQueue' = Tail(senderQueue)
         \/ \E j \in Jobs : j.op # "incomingTcp" /\ senderQueue' = Append(senderQueue, j)
  PROVE  Order'
<1>1. \A i \in DOMAIN mainQueue' : mainQueue'[i][1] \in known
  BY DEF Order, KnownOps
<1>2. ASSUME Fresh PROVE NewPeer' /\ KnownPeer'
  <2>1. NewPeer'
    BY <1>2, NewPeerStep DEF Order
  <2>. QED  BY <1>2, <2>1 DEF Order, KnownPeer
<1>. QED  BY <1>1, <1>2, SameOrder

LEMMA SenderOrder ==
  ASSUME Types, Life, Hearing, Order, Sender
  PROVE  Order'
<1>. USE SenderIsThread
<1>. DEFINE j == senderQueue[1]
<1>1. senderQueue # <<>> /\ \A i \in DOMAIN mainQueue : mainQueue[i][1] \in known
  BY DEF Sender, Job, AddNodeJob, IncomingTcpJob, WriteJob, DisconnectedJob, DeleteJob,
         Order, KnownOps
<1>2. j \in Jobs /\ Head(senderQueue) = j /\ j \in JobRecord /\ JobOK(j)
  BY <1>1, TailOf DEF Types, Jobs
<1>3. UNCHANGED <<known, sct, status, mainQueue, peerOf>>
  BY DEF Sender, AddNodeJob, IncomingTcpJob, WriteJob, DisconnectedJob, DeleteJob, info, sockets
<1>4. CASE AddNodeJob \/ IncomingTcpJob
  <2>1. /\ MayStart("sender") /\ senderQueue' = Tail(senderQueue) /\ j.a \in Address
        /\ \/ j.op = "addNode" /\ j.a \in Local
           \/ j.op = "incomingTcp" /\ j.a \in Remote
        /\ \E s \in Socket, b \in BOOLEAN, ops \in Seq(Ops) : TakesSocket(j, s, b, ops)
    BY <1>4, TakeSocketJobs
  <2>2. PICK s \in Socket, b \in BOOLEAN, ops \in Seq(Ops) : TakesSocket(j, s, b, ops)
    BY <2>1
  <2>3. Registration(j.a, s, b, ops) /\ Start("sender", ops)
    BY <2>2 DEF TakesSocket
  <2>4. Fresh => Head(senderQueue).op = "incomingTcp" /\ Head(senderQueue).a = j.a
    BY <1>2, <2>1 DEF Fresh
  <2>. QED  BY <1>1, <1>3, <2>1, <2>3, <2>4, TakeSocketOrder
<1>5. CASE WriteJob
  <2>1. program' = program /\ senderQueue' = Tail(senderQueue)
    BY <1>5 DEF WriteJob
  <2>. QED  BY <1>1, <1>3, <2>1, QueueOrder
<1>6. CASE DisconnectedJob
  <2>. DEFINE ops == <<Take(j.a)>>
  <2>1. j.a \in Address /\ MayStart("sender") /\ senderQueue' = Tail(senderQueue)
    BY <1>2, <1>6 DEF DisconnectedJob, Job, JobOK
  <2>2. Start("sender", ops)
    BY <1>2, <1>6 DEF DisconnectedJob, RemoveSocket
  <2>3. ops \in Seq(Ops)
    BY <2>1, OpsOf, TupleOf
  <2>4. \A i \in DOMAIN ops :
            /\ Common(ops[i]) /\ ~ Needs(ops[i]) /\ ops[i].op \notin {"attach", "null"}
            /\ ops[i].op = "status" => ops[i].a \in known
    BY DEF Common, Needs, Take, Op
  <2>. HIDE DEF ops, j
  <2>. QED  BY <1>1, <1>3, <2>1, <2>2, <2>3, <2>4, PlainOrder
<1>7. CASE DeleteJob
  <2>1. CASE senderQueue' = Tail(senderQueue)
    BY <1>1, <1>3, <1>7, <2>1, QueueOrder DEF DeleteJob
  <2>2. CASE senderQueue' = Append(Tail(senderQueue), Op("delete", None, j.s))
    <3>. DEFINE d == Op("delete", None, j.s)
    <3>1. d \in Jobs /\ d.op = "delete"
      BY <1>2, <1>7 DEF DeleteJob, Job, Jobs, JobRecord, JobOK, Op
    <3>. HIDE DEF d, j
    <3>2. /\ Tail(senderQueue) \in Seq(Jobs)
          /\ \A i \in DOMAIN senderQueue' :
                i \in Int /\ (senderQueue'[i].op = "incomingTcp" =>
                   i + 1 \in DOMAIN senderQueue /\ senderQueue'[i] = senderQueue[i + 1])
      <4>1. /\ Tail(senderQueue) \in Seq(Jobs) /\ Len(senderQueue) \in Nat \ {0}
            /\ DOMAIN senderQueue = 1 .. Len(senderQueue)
            /\ DOMAIN Tail(senderQueue) = 1 .. Len(senderQueue) - 1
            /\ \A i \in 1 .. Len(senderQueue) - 1 : Tail(senderQueue)[i] = senderQueue[i + 1]
        BY <1>1, TailOf DEF Types
      <4>. DEFINE r == Tail(senderQueue)
      <4>. HIDE DEF r
      <4>8. r \in Seq(Jobs) /\ d \in Jobs
        BY <3>1, <4>1 DEF r
      <4>2. /\ Len(r) \in Nat /\ DOMAIN r = 1 .. Len(r) /\ DOMAIN Append(r, d) = 1 .. Len(r) + 1
            /\ \A i \in 1 .. Len(r) + 1 : Append(r, d)[i] = IF i <= Len(r) THEN r[i] ELSE d
        BY <4>8, AppendOf
      <4>3. senderQueue' = Append(r, d)
        BY <2>2 DEF r, d
      <4>4. Len(r) = Len(senderQueue) - 1
        BY <1>1, HeadTailProperties DEF Types, r
      <4>5. \A i \in 1 .. Len(senderQueue) - 1 : r[i] = senderQueue[i + 1]
        BY <4>1 DEF r
      <4>6. ASSUME NEW i \in DOMAIN senderQueue', senderQueue'[i].op = "incomingTcp"
            PROVE  i + 1 \in DOMAIN senderQueue /\ senderQueue'[i] = senderQueue[i + 1]
        <5>1. i <= Len(r)
          BY <3>1, <4>2, <4>3, <4>6
        <5>2. i \in 1 .. Len(senderQueue) - 1 /\ senderQueue'[i] = r[i]
          <6>1. i \in 1 .. Len(r) + 1 /\ senderQueue'[i] = Append(r, d)[i]
            BY <4>2, <4>3
          <6>2. senderQueue'[i] = r[i]
            BY <4>2, <5>1, <6>1
          <6>. QED  BY <4>2, <4>4, <5>1, <6>1, <6>2
        <5>3. i + 1 \in DOMAIN senderQueue
          BY <4>1, <5>2
        <5>. QED  BY <4>5, <5>2, <5>3
      <4>7. \A i \in DOMAIN senderQueue' : i \in Int
        BY <4>2, <4>3
      <4>. QED  BY <4>1, <4>6, <4>7
    <3>3. program' = program
      BY <1>7 DEF DeleteJob
    <3>4. ASSUME Fresh PROVE NewPeer' /\ KnownPeer'
      <4>1. KnownPeer'
        BY <1>3, <3>4 DEF Order, KnownPeer
      <4>2. ASSUME NEW i \in DOMAIN senderQueue', senderQueue'[i].op = "incomingTcp",
                   NEW k \in DOMAIN senderQueue', senderQueue'[k].op = "incomingTcp",
                   senderQueue'[i].a = senderQueue'[k].a
            PROVE  i = k
        <5>1. i + 1 = k + 1
          BY <3>2, <3>4, <4>2 DEF Order, NewPeer
        <5>. QED  BY <3>2, <5>1
      <4>3. NewPeer'
        BY <1>3, <3>2, <3>3, <3>4, <4>2 DEF Order, NewPeer
      <4>. QED  BY <4>1, <4>3
    <3>. QED  BY <1>1, <1>3, <3>3, <3>4, SameOrder
  <2>. QED  BY <1>2, <1>7, <2>1, <2>2 DEF DeleteJob
<1>. QED  BY <1>4, <1>5, <1>6, <1>7 DEF Sender

LEMMA SocketOrder ==
  ASSUME Types, Life, Hearing, Order, NEW s \in Socket,
         SocketConnects(s) \/ ConnectFails(s) \/ PeerCloses(s)
  PROVE  Order'
<1>. USE SenderIsThread
<1>1. /\ MayStart("sender") /\ program["sender"] = <<>>
      /\ UNCHANGED <<known, sct, status, mainQueue, peerOf>>
      /\ \A i \in DOMAIN mainQueue : mainQueue[i][1] \in known
  BY MayStartIdle DEF SocketConnects, ConnectFails, PeerCloses, info, queues, Order, KnownOps
<1>2. s \in wired => peerOf[s] \in known /\ peerOf[s] \in Address
  BY DEF Hearing, WiredKnown, Types, FieldTypes
<1>3. CASE SocketConnects(s)
  <2>1. PICK ops \in {<<>>, <<SetStatus(peerOf[s], "Connected")>>} :
          Start("sender", ops) /\ (ops = <<>> \/ s \in wired)
    BY <1>3 DEF SocketConnects
  <2>2. ops \in Seq(Ops)
    <3>1. CASE s \in wired
      <4>1. SetStatus(peerOf[s], "Connected") \in Ops
        BY <1>2, <3>1, OpsOf DEF Status
      <4>. QED  BY <2>1, <4>1, TupleOf
    <3>. QED  BY <2>1, <3>1, EmptySeq
  <2>3. \A i \in DOMAIN ops :
            /\ Common(ops[i]) /\ ~ Needs(ops[i]) /\ ops[i].op \notin {"attach", "null"}
            /\ ops[i].op = "status" => ops[i].a \in known
    BY <1>2, <2>1 DEF Common, Needs, SetStatus, OpValue
  <2>4. senderQueue' = senderQueue
    BY <1>3 DEF SocketConnects, queues
  <2>. QED  BY <1>1, <2>1, <2>2, <2>3, <2>4, PlainOrder
<1>4. CASE ConnectFails(s)
  <2>1. program' = program /\ senderQueue' = senderQueue
    BY <1>4 DEF ConnectFails, queues
  <2>. QED  BY <1>1, <2>1, QueueOrder
<1>5. CASE PeerCloses(s)
  <2>. DEFINE j == Op("disconnected", peerOf[s], None)
  <2>1. program' = program
    BY <1>5 DEF PeerCloses
  <2>2. CASE senderQueue' = senderQueue
    BY <1>1, <2>1, <2>2, QueueOrder
  <2>3. CASE s \in wired /\ senderQueue' = Append(senderQueue, j)
    <3>1. j \in Jobs /\ j.op # "incomingTcp"
      BY <1>2, <2>3 DEF Op, Jobs, JobRecord, JobOK
    <3>. HIDE DEF j
    <3>. QED  BY <1>1, <2>1, <2>3, <3>1, QueueOrder
  <2>. QED  BY <1>5, <2>2, <2>3 DEF PeerCloses
<1>. QED  BY <1>3, <1>4, <1>5

LEMMA MainOrder ==
  ASSUME Types, Life, Order, Main
  PROVE  Order'
<1>. USE SenderIsThread
<1>1. /\ MayStart("main") /\ UNCHANGED <<known, sct, status, peerOf, senderQueue>>
      /\ \A i \in DOMAIN mainQueue : mainQueue[i][1] \in known
  BY DEF Main, HandleNodeStatusChanged, CheckConfirmendOfNode, ForceTimer, info, sockets,
         Order, KnownOps
<1>2. CASE HandleNodeStatusChanged
  <2>. DEFINE a == mainQueue[1][1]
  <2>1. /\ a \in Address /\ Head(mainQueue) = mainQueue[1] /\ 1 \in DOMAIN mainQueue
        /\ \A i \in DOMAIN mainQueue' :
              \E j \in DOMAIN mainQueue : mainQueue'[i] = mainQueue[j]
    <3>1. /\ Len(mainQueue) \in Nat \ {0} /\ DOMAIN mainQueue = 1 .. Len(mainQueue)
          /\ Head(mainQueue) = mainQueue[1] /\ mainQueue[1] \in Address \X Status
          /\ DOMAIN mainQueue' = 1 .. Len(mainQueue) - 1
          /\ \A i \in 1 .. Len(mainQueue) - 1 : mainQueue'[i] = mainQueue[i + 1]
      BY <1>2, TailOf DEF HandleNodeStatusChanged, Types
    <3>. QED  BY <3>1
  <2>2. a \in known /\ \A i \in DOMAIN mainQueue' : mainQueue'[i][1] \in known
    BY <1>1, <2>1
  <2>3. PICK ops \in {<<>>, Reset(a)} : Start("main", ops)
    BY <1>2, <2>1 DEF HandleNodeStatusChanged
  <2>. HIDE DEF a
  <2>4. CASE ops = <<>>
    <3>1. ops \in Seq(Ops) /\ DOMAIN ops = {}
      BY <2>4
    <3>. QED  BY <1>1, <2>2, <2>3, <3>1, PlainOrder
  <2>5. CASE ops = Reset(a)
    <3>1. /\ ops = <<Take(a), Attach(a, None), SetTrust(a, DefaultTrust),
                     SetStatus(a, "NotConnected"), SetLocal(a, FALSE)>>
          /\ ops \in Seq(Ops) /\ \A i \in DOMAIN ops : Common(ops[i])
      BY <2>1, <2>5, ResetSteps
    <3>2. /\ DOMAIN ops = {1, 2, 3, 4, 5}
          /\ ops[1].op = "take" /\ ops[1].a = a /\ ops[2].op = "attach" /\ ops[2].a = a
          /\ ops[3].op = "trust" /\ ops[4].op = "status" /\ ops[4].a = a /\ ops[5].op = "local"
      BY <3>1 DEF Take, Attach, SetTrust, SetStatus, SetLocal, Op, OpValue
    <3>3. InOrder(ops)
      <4>1. \A i \in DOMAIN ops :
               Needs(ops[i]) \/ ops[i].op \in {"attach", "status", "null"} => i \in {2, 4}
        BY <3>2 DEF Needs
      <4>2. 1 \in DOMAIN ops /\ 1 < 2 /\ 1 < 4 /\ Clears(ops[1], ops[2].a) /\ Clears(ops[1], ops[4].a)
        BY <3>2 DEF Clears
      <4>. QED  BY <2>2, <3>2, <4>1, <4>2 DEF InOrder
    <3>4. \A i \in DOMAIN ops : ops[i].op # "null"
      BY <3>2
    <3>5. program'["sender"] = program["sender"]
      BY <2>3 DEF Start, Types
    <3>6. Fresh => Unmet' /\ NewPeer' /\ KnownPeer'
      BY <1>1, <3>5 DEF Order, Unmet, NewPeer, KnownPeer
    <3>7. "main" # "sender"
      OBVIOUS
    <3>. QED  BY <1>1, <2>2, <2>3, <3>1, <3>3, <3>4, <3>6, <3>7, StartOrder
  <2>. QED  BY <2>4, <2>5
<1>3. ASSUME NEW a \in Address, CheckConfirmendOfNode(a) PROVE Order'
  <2>1. PICK ops \in {<<>>, <<Remove(a)>>} : Start("main", ops)
    BY <1>3 DEF CheckConfirmendOfNode
  <2>2. ops \in Seq(Ops) /\ \A i \in DOMAIN ops : Common(ops[i])
    BY <2>1, OpsOf, CommonOf, OneStep
  <2>3. \A i \in DOMAIN ops : ops[i].op = "remove"
    BY <2>1 DEF Remove, Op
  <2>4. mainQueue' = mainQueue
    BY <1>3 DEF CheckConfirmendOfNode
  <2>. QED  BY <1>1, <2>1, <2>2, <2>3, <2>4, PlainOrder DEF Needs
<1>4. ASSUME NEW a \in Address, ForceTimer(a) PROVE Order'
  <2>. DEFINE ops == <<ForceRemove(a)>>
  <2>1. Start("main", ops) /\ mainQueue' = mainQueue
    BY <1>4 DEF ForceTimer
  <2>2. ops \in Seq(Ops) /\ \A i \in DOMAIN ops : Common(ops[i])
    BY OpsOf, CommonOf, OneStep
  <2>3. \A i \in DOMAIN ops : ops[i].op = "force"
    BY DEF ForceRemove, Op
  <2>. HIDE DEF ops
  <2>. QED  BY <1>1, <2>1, <2>2, <2>3, PlainOrder DEF Needs
<1>. QED  BY <1>2, <1>3, <1>4 DEF Main

LEMMA EnvironmentOrder ==
  ASSUME Types, Life, Hearing, Order, Environment
  PROVE  Order'
<1>. USE SenderIsThread
<1>1. /\ UNCHANGED <<known, sct, status, mainQueue, peerOf>> /\ MayStart("main")
      /\ \A i \in DOMAIN mainQueue : mainQueue[i][1] \in known
  BY DEF Environment, Call, AddNode, IncomingConnection, info, sockets, queues, Order, KnownOps
<1>2. ASSUME NEW a \in Address, NEW op \in UserCall, Call(op, a) PROVE Order'
  <2>. DEFINE ops == <<Op(op, a, None)>>
  <2>1. Start("main", ops) /\ senderQueue' = senderQueue
    BY <1>2 DEF Call, queues
  <2>2. op \in {"remove", "ban", "unBan"}
    BY ConstantsAssumption
  <2>3. Op(op, a, None) \in Ops
    BY <2>2, OpsOf DEF Remove, Ban, UnBan
  <2>4. ops \in Seq(Ops) /\ \A i \in DOMAIN ops : Common(ops[i])
    BY <2>2, <2>3 DEF Common, Op
  <2>5. \A i \in DOMAIN ops : ops[i].op \in {"remove", "ban", "unBan"}
    BY <2>2 DEF Op
  <2>. HIDE DEF ops
  <2>. QED  BY <1>1, <2>1, <2>4, <2>5, PlainOrder DEF Needs
<1>3. ASSUME NEW a \in Local, AddNode(a) PROVE Order'
  <2>. DEFINE j == Op("addNode", a, None)
  <2>1. j \in Jobs /\ j.op # "incomingTcp"
    BY DEF Op, Jobs, JobRecord, JobOK, Address
  <2>2. program' = program /\ senderQueue' = Append(senderQueue, j)
    BY <1>3 DEF AddNode
  <2>. HIDE DEF j
  <2>. QED  BY <1>1, <2>1, <2>2, QueueOrder
<1>4. ASSUME NEW a \in Remote, IncomingConnection(a) PROVE Order'
  <2>. DEFINE j == Op("incomingTcp", a, None)
  <2>1. j \in Jobs /\ j.op = "incomingTcp" /\ j.a = a
    BY DEF Op, Jobs, JobRecord, JobOK, Address
  <2>2. /\ program' = program /\ senderQueue' = Append(senderQueue, j)
        /\ \A i \in DOMAIN senderQueue : senderQueue[i] # j
        /\ \A i \in DOMAIN program["sender"] : program["sender"][i].a # a
        /\ FreshPeers => \A s \in Socket : peerOf[s] # a
    BY <1>4 DEF IncomingConnection
  <2>3. \A i \in DOMAIN senderQueue : senderQueue[i].op = "incomingTcp" => senderQueue[i].a # a
    <3>. SUFFICES ASSUME NEW i \in DOMAIN senderQueue, senderQueue[i].op = "incomingTcp",
                         senderQueue[i].a = a
                  PROVE  senderQueue[i] = j
      BY <2>2
    <3>1. senderQueue[i] \in Jobs
      BY ElementOfSeq DEF Types
    <3>. QED  BY <3>1 DEF Jobs, JobRecord, JobOK, Op
  <2>. HIDE DEF j
  <2>4. /\ DOMAIN senderQueue = 1 .. Len(senderQueue) /\ Len(senderQueue) \in Nat
        /\ DOMAIN senderQueue' = 1 .. Len(senderQueue) + 1
        /\ \A i \in 1 .. Len(senderQueue) + 1 :
              senderQueue'[i] = IF i <= Len(senderQueue) THEN senderQueue[i] ELSE j
    BY <2>1, <2>2, AppendOf DEF Types
  <2>5. ASSUME Fresh PROVE NewPeer' /\ KnownPeer'
    <3>1. KnownPeer'
      BY <1>1, <2>5 DEF Order, KnownPeer
    <3>2. a \notin known
      BY <2>2, <2>5 DEF Order, KnownPeer, Fresh
    <3>3. \A i \in DOMAIN senderQueue' :
             \/ i \in DOMAIN senderQueue /\ senderQueue'[i] = senderQueue[i]
             \/ i = Len(senderQueue) + 1 /\ senderQueue'[i] = j
      BY <2>4
    <3>4. NewPeer
      BY <2>5 DEF Order
    <3>5. ASSUME NEW i \in DOMAIN senderQueue', senderQueue'[i].op = "incomingTcp",
                 NEW k \in DOMAIN senderQueue', senderQueue'[k].op = "incomingTcp",
                 senderQueue'[i].a = senderQueue'[k].a
          PROVE  i = k
      BY <2>1, <2>3, <3>3, <3>4, <3>5 DEF NewPeer
    <3>6. ASSUME NEW i \in DOMAIN senderQueue', senderQueue'[i].op = "incomingTcp"
          PROVE  /\ senderQueue'[i].a \notin known
                 /\ \A k \in DOMAIN program["sender"] :
                       program["sender"][k].op = "create" => program["sender"][k].a # senderQueue'[i].a
      BY <2>1, <2>2, <3>2, <3>3, <3>4, <3>6 DEF NewPeer
    <3>7. NewPeer'
      BY <1>1, <2>2, <3>5, <3>6 DEF NewPeer
    <3>. QED  BY <3>1, <3>7
  <2>. QED  BY <1>1, <2>2, <2>5, SameOrder
<1>. QED  BY <1>2, <1>3, <1>4 DEF Environment

LEMMA PackageOrder ==
  ASSUME Types, Order, Package
  PROVE  Order'
<1>1. PICK t \in Worker, a \in Address,
           kind \in PackageKind :
         NewWork(t, a, kind)
  BY DEF Package
<1>2. PICK ops \in ParsePackage(a, kind) : Start(t, ops)
  BY <1>1 DEF NewWork
<1>3. ops \in Seq(Ops) /\ \A i \in DOMAIN ops : Common(ops[i])
  BY <1>2, PackageSteps
<1>4. \A i \in DOMAIN ops :
         ops[i].op \in {"confirmable", "send", "remove", "readTrust", "requestTrust"}
  <2>1. \/ ops = <<Confirmable(a)>> \/ ops = <<Remove(a), Confirmable(a)>>
        \/ ops = <<Send(a), Confirmable(a)>>
        \/ \E p \in Penalty : \/ ops = <<ReadTrust(a, p, FALSE)>>
                              \/ ops = <<ReadTrust(a, p, TRUE)>>
    BY <1>2, PackageSteps
  <2>. QED  BY <2>1 DEF Confirmable, Send, Remove, ReadTrust, Op, OpValue
<1>5. /\ t \in Thread /\ MayStart(t)
      /\ UNCHANGED <<known, sct, status, mainQueue, peerOf, senderQueue>>
      /\ \A i \in DOMAIN mainQueue : mainQueue[i][1] \in known
  BY <1>1, SenderIsThread DEF NewWork, info, sockets, queues, Order, KnownOps
<1>. QED  BY <1>2, <1>3, <1>4, <1>5, PlainOrder DEF Needs

LEMMA OrderInit == Init => Order
<1>. SUFFICES ASSUME Init PROVE Order
  OBVIOUS
<1>1. /\ DOMAIN mainQueue = {} /\ DOMAIN senderQueue = {}
      /\ \A t \in Thread : program[t] = <<>> /\ DOMAIN program[t] = {}
  BY DEF Init
<1>2. ClearFirst /\ NullFirst /\ Ending /\ KnownOps /\ Alone
  BY <1>1, SenderIsThread DEF Init, ClearFirst, NullFirst, Ending, KnownOps, Alone
<1>3. Unmet /\ NewPeer /\ KnownPeer
  BY <1>1, SenderIsThread DEF Init, Unmet, NewPeer, KnownPeer
<1>. QED  BY <1>2, <1>3 DEF Order

LEMMA OrderNext == (Turns \/ Fresh) /\ Inv /\ Hearing /\ Order /\ [Next]_vars => Order'
<1>. SUFFICES ASSUME Turns \/ Fresh, Types, Life, Hearing, Order, [Next]_vars PROVE Order'
  BY DEF Inv
<1>1. ASSUME NEW t \in Thread, Access(t) PROVE Order'
  BY <1>1, AccessOrder
<1>2. CASE UNCHANGED vars
  BY <1>2, QueueOrder DEF vars
<1>. QED  BY <1>1, <1>2, RegisterOrder, SenderOrder, SocketOrder, MainOrder,
          EnvironmentOrder, PackageOrder DEF Next, SocketEvent

(***************************************************************************)
(* Every socket belongs to somebody.                                       *)
(***************************************************************************)

\* The socket that connectToHost is called for is as the job made it.
Connecting ==
    \A i \in DOMAIN program["sender"] : program["sender"][i].op = "connect" =>
        /\ sock[program["sender"][i].s] = "created"
        /\ \A j \in DOMAIN program["sender"] : program["sender"][j].op = "connect" => j = i

Kept(s) ==
    \/ sock[s] \in {"unused", "deleted"}
    \/ \E a \in Address : sct[a] = s
    \/ InProgram(s)
    \/ Deleting(s)

LEMMA KeptStep ==
  ASSUME NoLostSocket,
         \A s \in Socket :
            /\ sock[s] = "unused" => sock'[s] = "unused" \/ Kept(s)'
            /\ sock[s] = "deleted" => sock'[s] = "deleted"
            /\ \A a \in Address : sct[a] = s => sct'[a] = s \/ Kept(s)'
            /\ InProgram(s) => Kept(s)'
            /\ Deleting(s) => Kept(s)'
  PROVE  NoLostSocket'
<1>. SUFFICES ASSUME NEW s \in Socket PROVE Kept(s)'
  BY DEF NoLostSocket, Kept
<1>1. Kept(s)
  BY DEF NoLostSocket, Kept
<1>. QED  BY <1>1 DEF Kept

LEMMA StartKeepsProgram ==
  ASSUME Types, NEW t \in Thread, NEW ops, program[t] = <<>>, Start(t, ops), NEW s,
         InProgram(s)
  PROVE  InProgram(s)'
<1>1. DOMAIN <<>> = {} /\ \A u \in Thread \ {t} : program'[u] = program[u]
  BY DEF Start, Types
<1>. QED  BY <1>1 DEF InProgram

LEMMA QueueKeepsDeletion ==
  ASSUME Types, NEW s, Deleting(s),
         \/ senderQueue' = senderQueue
         \/ \E j \in Jobs : senderQueue' = Append(senderQueue, j)
         \/ /\ senderQueue # <<>> /\ senderQueue' = Tail(senderQueue)
            /\ Head(senderQueue).op \notin {"delete", "deleteLater"}
  PROVE  Deleting(s)'
<1>1. senderQueue \in Seq(Jobs)
  BY DEF Types
<1>2. PICK i \in DOMAIN senderQueue :
         senderQueue[i].s = s /\ senderQueue[i].op \in {"delete", "deleteLater"}
  BY DEF Deleting
<1>3. CASE senderQueue' = senderQueue
  BY <1>2, <1>3 DEF Deleting
<1>4. ASSUME NEW j \in Jobs, senderQueue' = Append(senderQueue, j) PROVE Deleting(s)'
  <2>1. i \in DOMAIN senderQueue' /\ senderQueue'[i] = senderQueue[i]
    BY <1>1, <1>4, AppendOf
  <2>. QED  BY <1>2, <2>1 DEF Deleting
<1>5. CASE /\ senderQueue # <<>> /\ senderQueue' = Tail(senderQueue)
           /\ Head(senderQueue).op \notin {"delete", "deleteLater"}
  <2>1. i # 1
    BY <1>1, <1>2, <1>5, TailOf
  <2>2. /\ Len(senderQueue) \in Nat \ {0} /\ DOMAIN senderQueue = 1 .. Len(senderQueue)
        /\ DOMAIN senderQueue' = 1 .. Len(senderQueue) - 1
        /\ \A m \in 1 .. Len(senderQueue) - 1 : senderQueue'[m] = senderQueue[m + 1]
    BY <1>1, <1>5, TailOf
  <2>5. i \in 1 .. Len(senderQueue)
    BY <2>2
  <2>3. i - 1 \in 1 .. Len(senderQueue) - 1 /\ (i - 1) + 1 = i
    <3>1. \A n \in Nat : \A m \in 1 .. n : m # 1 => m - 1 \in 1 .. n - 1 /\ (m - 1) + 1 = m
      OBVIOUS
    <3>. QED  BY <2>1, <2>2, <2>5, <3>1
  <2>4. senderQueue'[i - 1] = senderQueue[i]
    BY <2>2, <2>3
  <2>. QED  BY <1>2, <2>2, <2>3, <2>4 DEF Deleting
<1>. QED  BY <1>3, <1>4, <1>5

\* A step that begins nothing, or something in an idle thread, and gives no socket away.
LEMMA EasyKept ==
  ASSUME Types, NoLostSocket, sct' = sct,
         \A s \in Socket : /\ sock[s] = "unused" => sock'[s] = "unused"
                           /\ sock[s] = "deleted" => sock'[s] = "deleted",
         \/ program' = program
         \/ \E t \in Thread, ops \in Seq(Ops) : program[t] = <<>> /\ Start(t, ops),
         \/ senderQueue' = senderQueue
         \/ \E j \in Jobs : senderQueue' = Append(senderQueue, j)
         \/ /\ senderQueue # <<>> /\ senderQueue' = Tail(senderQueue)
            /\ Head(senderQueue).op \notin {"delete", "deleteLater"}
  PROVE  NoLostSocket'
<1>1. ASSUME NEW s, InProgram(s) PROVE InProgram(s)'
  <2>1. CASE program' = program
    BY <1>1, <2>1 DEF InProgram
  <2>. QED  BY <1>1, <2>1, StartKeepsProgram
<1>2. ASSUME NEW s, Deleting(s) PROVE Deleting(s)'
  BY <1>2, QueueKeepsDeletion
<1>. QED  BY <1>1, <1>2, KeptStep DEF Kept

LEMMA ConnectingPopped ==
  ASSUME Types, Connecting, NEW t \in Thread, NEW ops \in Seq(Ops), NEW k \in {0, 1},
         Pops(t, ops, k), \A i \in DOMAIN ops : ops[i].op # "connect",
         \A s \in Socket : sock[s] = "created" => sock'[s] = "created"
  PROVE  Connecting'
<1>. USE SenderIsThread
<1>. DEFINE q == program'["sender"]
            p == program["sender"]
            n == Len(ops)
<1>1. \A i \in DOMAIN q : q[i].op = "connect" =>
         \E j \in DOMAIN p : q[i] = p[j] /\ (t # "sender" => i = j) /\ (t = "sender" => i = j + n - 1)
  <2>1. CASE t = "sender"
    <3>1. \A i \in DOMAIN q :
             \/ i \in DOMAIN ops /\ q[i] = ops[i]
             \/ \E j \in DOMAIN p : j > 1 /\ k = 1 /\ i = j + n - 1 /\ q[i] = p[j]
      BY <2>1, PopsRest
    <3>. HIDE DEF q, p
    <3>. QED  BY <2>1, <3>1
  <2>2. CASE t # "sender"
    <3>1. q = p
      BY <2>2 DEF Pops
    <3>. QED  BY <2>2, <3>1
  <2>. QED  BY <2>1, <2>2
<1>2. \A j \in DOMAIN p : p[j].op = "connect" =>
         /\ sock[p[j].s] = "created" /\ p[j].s \in Socket
         /\ \A i \in DOMAIN p : p[i].op = "connect" => i = j
  <2>1. \A j \in DOMAIN p : p[j] \in Ops
    BY ElementOfSeq DEF Types
  <2>. QED  BY <2>1 DEF Connecting, Ops, OpOK
<1>. HIDE DEF q, p, n
<1>3. ASSUME NEW i \in DOMAIN q, q[i].op = "connect" PROVE sock'[q[i].s] = "created"
  BY <1>1, <1>2, <1>3
<1>4. ASSUME NEW i \in DOMAIN q, q[i].op = "connect", NEW j \in DOMAIN q, q[j].op = "connect"
      PROVE  i = j
  <2>1. PICK l \in DOMAIN p :
           q[i] = p[l] /\ (t # "sender" => i = l) /\ (t = "sender" => i = l + n - 1)
    BY <1>1, <1>4
  <2>2. PICK m \in DOMAIN p :
           q[j] = p[m] /\ (t # "sender" => j = m) /\ (t = "sender" => j = m + n - 1)
    BY <1>1, <1>4
  <2>3. l = m
    BY <1>2, <1>4, <2>1, <2>2
  <2>. QED  BY <2>1, <2>2, <2>3
<1>. QED  BY <1>3, <1>4 DEF Connecting, q

LEMMA AccessKept ==
  ASSUME Types, Life, Order, Connecting, NoLostSocket, NEW t \in Thread, Access(t)
  PROVE  NoLostSocket' /\ Connecting'
<1>. USE SenderIsThread
<1>. DEFINE o == program[t][1]
            n(ops) == Len(ops)
<1>1. /\ program[t] # <<>> /\ o \in Ops /\ o.a \in Address /\ o.s \in Socket \cup {None}
      /\ OpOK(o) /\ 1 \in DOMAIN program[t]
  BY AccessPops
<1>2. PICK ops \in Seq(Ops) : Pops(t, ops, 1) /\ Follows(o, ops)
  BY AccessPops
<1>3. Effect(o)
  BY AccessEffect
<1>4. /\ 1 \in {0, 1} /\ \A j \in DOMAIN program[t] : j \in Int /\ j >= 1
      /\ \A j \in DOMAIN program[t] : j > 1 =>
            \E i \in DOMAIN program'[t] : program'[t][i] = program[t][j]
      /\ \A u \in Thread \ {t} : program'[u] = program[u]
  <2>1. 1 \in {0, 1}
    OBVIOUS
  <2>2. /\ DOMAIN program[t] = 1 .. Len(program[t]) /\ Len(program[t]) \in Nat
        /\ \A j \in DOMAIN program[t] : j > 1 =>
              /\ j + Len(ops) - 1 \in DOMAIN program'[t]
              /\ program'[t][j + Len(ops) - 1] = program[t][j]
        /\ \A u \in Thread \ {t} : program'[u] = program[u]
    BY <1>2, <2>1, PopsRest
  <2>. QED  BY <2>1, <2>2
<1>5. Needs(o) => sct[o.a] = None
  BY <1>1, <1>4 DEF Order, ClearFirst
<1>6. o.op = "null" =>
         /\ sct[o.a] \in {o.s, None}
         /\ 2 \in DOMAIN program[t] /\ program[t][2] = Drop(o.a, o.s)
  BY <1>1 DEF Order, NullFirst, Removes
<1>7. \A a \in Address :
         sct'[a] = IF o.op = "null" /\ a = o.a THEN None
                   ELSE IF o.op = "attach" /\ a = o.a THEN o.s ELSE sct[a]
  BY <1>1, <1>3 DEF Effect, Types, FieldTypes
<1>8. o.op # "create"
  BY <1>2 DEF Follows
<1>9. /\ sock' = sock
      /\ \/ senderQueue' = senderQueue
         \/ \E j \in Jobs : senderQueue' = Append(senderQueue, j)
      /\ o.op = "drop" =>
            \/ sock[o.s] = "deleted"
            \/ Op("deleteLater", None, o.s) \in Jobs
               /\ senderQueue' = Append(senderQueue, Op("deleteLater", None, o.s))
  <2>1. o.op = "drop" => Op("deleteLater", None, o.s) \in Jobs
    BY <1>1 DEF Op, OpOK, Jobs, JobRecord, JobOK
  <2>2. o.op = "write" => o \in Jobs
    BY <1>1 DEF Ops, OpRecord, OpOK, Jobs, JobRecord, JobOK
  <2>. QED  BY <1>3, <2>1, <2>2 DEF Effect
<1>. HIDE DEF o
<1>10. ASSUME NEW s \in Socket, NEW a \in Address, sct[a] = s PROVE sct'[a] = s \/ Kept(s)'
  <2>1. CASE o.op = "null" /\ a = o.a
    <3>1. o.s = s
      BY <1>6, <1>10, <2>1, NoneApart
    <3>2. PICK i \in DOMAIN program'[t] : program'[t][i] = Drop(o.a, s)
      BY <1>4, <1>6, <2>1, <3>1
    <3>3. Drop(o.a, s).op = "drop" /\ Drop(o.a, s).s = s
      BY DEF Drop, Op
    <3>. QED  BY <3>2, <3>3 DEF Kept, InProgram
  <2>2. CASE o.op = "attach" /\ a = o.a
    BY <1>5, <1>10, <2>2, NoneApart DEF Needs
  <2>. QED  BY <1>7, <1>10, <2>1, <2>2
<1>11. ASSUME NEW s \in Socket, InProgram(s) PROVE Kept(s)'
  <2>11. PICK u \in Thread : \E i \in DOMAIN program[u] :
           program[u][i].s = s /\ program[u][i].op \in {"attach", "create", "drop"}
    BY <1>11 DEF InProgram
  <2>1. PICK i \in DOMAIN program[u] :
           program[u][i].s = s /\ program[u][i].op \in {"attach", "create", "drop"}
    BY <2>11
  <2>2. CASE u # t
    BY <1>4, <2>1, <2>2 DEF Kept, InProgram
  <2>3. CASE u = t /\ i > 1
    BY <1>4, <2>1, <2>3 DEF Kept, InProgram
  <2>4. CASE u = t /\ i = 1
    <3>1. o.s = s /\ o.op \in {"attach", "drop"}
      BY <1>8, <2>1, <2>4 DEF o
    <3>2. CASE o.op = "attach"
      BY <1>1, <1>7, <3>1, <3>2 DEF Kept
    <3>3. CASE o.op = "drop" /\ sock[s] = "deleted"
      BY <1>9, <3>3 DEF Kept
    <3>4. CASE /\ o.op = "drop" /\ Op("deleteLater", None, o.s) \in Jobs
               /\ senderQueue' = Append(senderQueue, Op("deleteLater", None, o.s))
      <4>. DEFINE j == Op("deleteLater", None, o.s)
      <4>1. j \in Jobs /\ j.s = s /\ j.op = "deleteLater" /\ senderQueue' = Append(senderQueue, j)
        BY <3>1, <3>4 DEF Op
      <4>. HIDE DEF j
      <4>2. senderQueue \in Seq(Jobs)
        BY DEF Types
      <4>3. Len(senderQueue) + 1 \in DOMAIN senderQueue' /\ senderQueue'[Len(senderQueue) + 1] = j
        BY <4>1, <4>2, AppendOf
      <4>. QED  BY <4>1, <4>3 DEF Kept, Deleting
    <3>. QED  BY <1>9, <3>1, <3>2, <3>3, <3>4
  <2>. QED  BY <1>4, <2>1, <2>2, <2>3, <2>4
<1>12. ASSUME NEW s \in Socket, Deleting(s) PROVE Kept(s)'
  BY <1>9, <1>12, QueueKeepsDeletion DEF Kept
<1>13. NoLostSocket'
  BY <1>9, <1>10, <1>11, <1>12, KeptStep
<1>14. Connecting'
  <2>1. \A i \in DOMAIN ops : ops[i].op # "connect"
    BY <1>1, <1>2, FollowsOps DEF Common, o
  <2>. QED  BY <1>2, <1>4, <1>9, <2>1, ConnectingPopped
<1>. QED  BY <1>13, <1>14

LEMMA RegisterKept ==
  ASSUME Types, Life, Hearing, Order, Connecting, NoLostSocket, Register
  PROVE  NoLostSocket' /\ Connecting'
<1>. DEFINE o == program["sender"][1]
            p == program["sender"]
<1>. USE SenderIsThread
<1>1. /\ p # <<>> /\ p \in Seq(Ops) /\ 1 \in DOMAIN p /\ o \in Ops /\ Head(p) = o
      /\ o.a \in Address /\ o.s \in Socket \cup {None} /\ OpOK(o)
  <2>1. p # <<>>
    BY DEF Register, DoCreate, DoAnnounce, DoRegistered, DoConnect, At
  <2>2. p \in Seq(Ops) /\ 1 \in DOMAIN p /\ o \in Ops /\ Head(p) = o
    BY <2>1, TailOf DEF Types
  <2>. QED  BY <2>1, <2>2 DEF Ops, OpRecord
<1>2. <<>> \in Seq(Ops) /\ DOMAIN <<>> = {} /\ 1 \in {0, 1}
  OBVIOUS
<1>3. ASSUME Continue("sender", <<>>)
      PROVE  /\ \A j \in DOMAIN p : j \in Int /\ j >= 1
             /\ \A i \in DOMAIN p : i > 1 =>
                  \E m \in DOMAIN program'["sender"] : program'["sender"][m] = p[i]
             /\ \A i \in DOMAIN program'["sender"] :
                  \E m \in DOMAIN p : i = m - 1 /\ m > 1 /\ program'["sender"][i] = p[m]
             /\ \A u \in Thread \ {"sender"} : program'[u] = program[u]
  <2>1. program'["sender"] = <<>> \o Tail(p) /\ \A u \in Thread \ {"sender"} : program'[u] = program[u]
    BY <1>3 DEF Continue, Types
  <2>2. /\ Tail(p) \in Seq(Ops) /\ Len(p) \in Nat \ {0} /\ DOMAIN p = 1 .. Len(p)
        /\ DOMAIN Tail(p) = 1 .. Len(p) - 1
        /\ \A i \in 1 .. Len(p) - 1 : Tail(p)[i] = p[i + 1]
    BY <1>1, TailOf
  <2>3. program'["sender"] = Tail(p)
    BY <2>1, <2>2, ConcatProperties
  <2>. DEFINE q == program'["sender"]
  <2>. HIDE DEF q, p
  <2>4. /\ DOMAIN q = 1 .. Len(p) - 1 /\ \A i \in 1 .. Len(p) - 1 : q[i] = p[i + 1]
    BY <2>2, <2>3 DEF q
  <2>5. \A i \in DOMAIN p : i > 1 => i - 1 \in DOMAIN q /\ q[i - 1] = p[i]
    BY <2>2, <2>4
  <2>6. \A i \in DOMAIN q : i + 1 \in DOMAIN p /\ i = (i + 1) - 1 /\ i + 1 > 1 /\ q[i] = p[i + 1]
    BY <2>2, <2>4
  <2>7. \A j \in DOMAIN p : j \in Int /\ j >= 1
    BY <2>2
  <2>. QED  BY <2>1, <2>5, <2>6, <2>7 DEF q
<1>4. senderQueue' = senderQueue
  BY DEF Register, DoCreate, DoAnnounce, DoRegistered, DoConnect, queues
<1>5. ASSUME NEW s \in Socket, Deleting(s) PROVE Kept(s)'
  BY <1>4, <1>5 DEF Kept, Deleting
\* a socket in the program, but not in the access at its head, stays there
<1>6. ASSUME Continue("sender", <<>>), NEW s \in Socket, InProgram(s),
             o.op \in {"attach", "create", "drop"} => o.s # s
      PROVE  Kept(s)'
  <2>11. PICK u \in Thread : \E i \in DOMAIN program[u] :
           program[u][i].s = s /\ program[u][i].op \in {"attach", "create", "drop"}
    BY <1>6 DEF InProgram
  <2>1. PICK i \in DOMAIN program[u] :
           program[u][i].s = s /\ program[u][i].op \in {"attach", "create", "drop"}
    BY <2>11
  <2>2. CASE u # "sender"
    BY <1>3, <1>6, <2>1, <2>2 DEF Kept, InProgram
  <2>3. CASE u = "sender"
    <3>1. i > 1
      BY <1>3, <1>6, <2>1, <2>3
    <3>. QED  BY <1>3, <1>6, <2>1, <2>3, <3>1 DEF Kept, InProgram
  <2>. QED  BY <2>2, <2>3
<1>7. ASSUME Continue("sender", <<>>),
             \A s \in Socket : sock[s] = "created" =>
                sock'[s] = "created" \/ (o.op = "connect" /\ o.s = s)
      PROVE  Connecting'
  <2>1. \A i \in DOMAIN p : p[i] \in Ops
    BY ElementOfSeq DEF Types
  <2>2. \A i \in DOMAIN p : p[i].op = "connect" =>
           /\ sock[p[i].s] = "created" /\ p[i].s \in Socket
           /\ \A j \in DOMAIN p : p[j].op = "connect" => j = i
    BY <2>1 DEF Connecting, Ops, OpOK
  <2>3. ASSUME NEW i \in DOMAIN program'["sender"], program'["sender"][i].op = "connect"
        PROVE  /\ sock'[program'["sender"][i].s] = "created"
               /\ \A j \in DOMAIN program'["sender"] : program'["sender"][j].op = "connect" => j = i
    <3>1. PICK m \in DOMAIN p : i = m - 1 /\ m > 1 /\ program'["sender"][i] = p[m]
      BY <1>3, <1>7
    <3>2. o.op # "connect"
      BY <1>1, <2>2, <2>3, <3>1
    <3>3. \A j \in DOMAIN program'["sender"] : program'["sender"][j].op = "connect" => j = i
      <4>1. \A j \in DOMAIN program'["sender"] :
               \E l \in DOMAIN p : j = l - 1 /\ program'["sender"][j] = p[l]
        BY <1>3, <1>7
      <4>2. \A l \in DOMAIN p : p[l].op = "connect" => l = m
        BY <2>2, <2>3, <3>1
      <4>. QED  BY <3>1, <4>1, <4>2
    <3>. QED  BY <1>7, <2>2, <2>3, <3>1, <3>2, <3>3
  <2>. QED  BY <2>3 DEF Connecting
<1>8. CASE DoCreate
  <2>1. o.op = "create" /\ o.s \in Socket /\ Continue("sender", <<>>)
    BY <1>1, <1>8 DEF DoCreate, At, OpOK
  <2>2. sct[o.a] = None
    BY <1>1, <2>1 DEF Hearing, Creating, Order, KnownOps
  <2>3. sct' = [sct EXCEPT ![o.a] = o.s] /\ sock' = sock
    BY <1>1, <1>8 DEF DoCreate
  <2>. HIDE DEF o
  <2>4. \A a \in Address : sct'[a] = IF a = o.a THEN o.s ELSE sct[a]
    BY <2>3 DEF Types, FieldTypes
  <2>5. ASSUME NEW s \in Socket, InProgram(s) PROVE Kept(s)'
    <3>1. CASE s = o.s
      BY <1>1, <2>4, <3>1 DEF Kept
    <3>. QED  BY <1>6, <2>1, <2>5, <3>1
  <2>6. ASSUME NEW s \in Socket, NEW a \in Address, sct[a] = s PROVE sct'[a] = s
    BY <2>2, <2>4, <2>6, NoneApart
  <2>7. NoLostSocket'
    BY <1>5, <2>3, <2>5, <2>6, KeptStep
  <2>. QED  BY <1>7, <2>1, <2>3, <2>7
<1>9. CASE DoAnnounce
  <2>1. o.op = "announce" /\ Continue("sender", <<>>) /\ sct' = sct /\ sock' = sock
    BY <1>1, <1>9 DEF DoAnnounce, At, sockets
  <2>2. NoLostSocket'
    BY <1>5, <1>6, <2>1, KeptStep
  <2>. QED  BY <1>7, <2>1, <2>2
<1>10. CASE DoConnect
  <2>1. o.op = "connect" /\ Continue("sender", <<>>) /\ sct' = sct
        /\ sock' = [sock EXCEPT ![o.s] = "connecting"] /\ o.s \in Socket
    BY <1>1, <1>10 DEF DoConnect, At, info, OpOK
  <2>2. sock[o.s] = "created"
    BY <1>1, <2>1 DEF Connecting
  <2>. HIDE DEF o
  <2>3. \A s \in Socket : sock'[s] = IF s = o.s THEN "connecting" ELSE sock[s]
    BY <2>1 DEF Types, FieldTypes
  <2>4. \A s \in Socket : /\ sock[s] = "unused" => sock'[s] = "unused"
                          /\ sock[s] = "deleted" => sock'[s] = "deleted"
                          /\ sock[s] = "created" =>
                                sock'[s] = "created" \/ (o.op = "connect" /\ o.s = s)
    BY <2>1, <2>2, <2>3
  <2>5. NoLostSocket'
    BY <1>5, <1>6, <2>1, <2>4, KeptStep
  <2>. QED  BY <1>7, <2>1, <2>4, <2>5
<1>11. CASE DoRegistered
  <2>1. o.op = "registered" /\ sct' = sct /\ o.s \in Socket
    BY <1>1, <1>11 DEF DoRegistered, At, info, OpOK
  <2>2. CASE sct[o.a] # None
    <3>1. Continue("sender", <<>>) /\ sock' = sock
      BY <1>1, <1>11, <2>2 DEF DoRegistered
    <3>2. NoLostSocket'
      BY <1>5, <1>6, <2>1, <3>1, KeptStep
    <3>. QED  BY <1>7, <3>1, <3>2
  <2>3. CASE sct[o.a] = None
    <3>1. sock' = [sock EXCEPT ![o.s] = "deleted"] /\ Start("sender", <<>>)
      BY <1>1, <1>11, <2>3 DEF DoRegistered
    <3>2. program'["sender"] = <<>> /\ \A u \in Thread \ {"sender"} : program'[u] = program[u]
      BY <3>1 DEF Start, Types
    <3>3. \A i \in DOMAIN p : p[i].op \in {"registered", "connect"}
      <4>1. \A i \in DOMAIN p : i \in Int /\ i >= 1
        BY <1>1, LenProperties
      <4>2. \A i \in DOMAIN p : 1 < i => p[i].op = "connect"
        BY <1>1, <2>1 DEF Order, Ending
      <4>. QED  BY <1>1, <2>1, <4>1, <4>2
    <3>4. ASSUME NEW s \in Socket, InProgram(s) PROVE Kept(s)'
      <4>11. PICK u \in Thread : \E i \in DOMAIN program[u] :
               program[u][i].s = s /\ program[u][i].op \in {"attach", "create", "drop"}
        BY <3>4 DEF InProgram
      <4>1. PICK i \in DOMAIN program[u] :
               program[u][i].s = s /\ program[u][i].op \in {"attach", "create", "drop"}
        BY <4>11
      <4>2. u # "sender"
        BY <3>3, <4>1
      <4>. QED  BY <3>2, <4>1, <4>2 DEF Kept, InProgram
    <3>5. \A s \in Socket : /\ sock[s] = "unused" => sock'[s] = "unused" \/ Kept(s)'
                            /\ sock[s] = "deleted" => sock'[s] = "deleted"
      BY <2>1, <3>1 DEF Types, FieldTypes, Kept
    <3>6. NoLostSocket'
      BY <1>5, <2>1, <3>4, <3>5, KeptStep
    <3>7. Connecting'
      BY <1>2, <3>2 DEF Connecting
    <3>. QED  BY <3>6, <3>7
  <2>. QED  BY <2>2, <2>3
<1>. QED  BY <1>8, <1>9, <1>10, <1>11 DEF Register

LEMMA TailShifts ==
  ASSUME NEW S, NEW s \in Seq(S), s # <<>>, NEW i \in DOMAIN s, i # 1
  PROVE  i - 1 \in DOMAIN Tail(s) /\ Tail(s)[i - 1] = s[i]
<1>1. /\ Len(s) \in Nat \ {0} /\ DOMAIN s = 1 .. Len(s) /\ DOMAIN Tail(s) = 1 .. Len(s) - 1
      /\ \A m \in 1 .. Len(s) - 1 : Tail(s)[m] = s[m + 1]
  BY TailOf
<1>2. i - 1 \in 1 .. Len(s) - 1 /\ (i - 1) + 1 = i
  <2>1. \A n \in Nat : \A m \in 1 .. n : m # 1 => m - 1 \in 1 .. n - 1 /\ (m - 1) + 1 = m
    OBVIOUS
  <2>. QED  BY <1>1, <2>1
<1>. QED  BY <1>1, <1>2

\* A step that does not end a program, or begins one without connectToHost.
LEMMA ConnectingStays ==
  ASSUME Types, Connecting,
         \/ program' = program
         \/ \E t \in Thread, ops \in Seq(Ops) :
               /\ program[t] = <<>> /\ Start(t, ops)
               /\ \A i \in DOMAIN ops : ops[i].op # "connect",
         \A s \in Socket : sock[s] = "created" => sock'[s] = "created"
  PROVE  Connecting'
<1>1. \A i \in DOMAIN program["sender"] : program["sender"][i] \in Ops
  BY ElementOfSeq, SenderIsThread DEF Types
<1>2. ASSUME NEW i \in DOMAIN program'["sender"], program'["sender"][i].op = "connect"
      PROVE  program'["sender"] = program["sender"]
  BY <1>2, SenderIsThread DEF Start, Types
<1>. QED  BY <1>1, <1>2 DEF Connecting, Ops, OpOK

\* The socket of a registration is in the program of the job, or deleted.
LEMMA TakeSocketKept ==
  ASSUME Types, Life, NoLostSocket, program["sender"] = <<>>, sct' = sct,
         senderQueue # <<>>, senderQueue' = Tail(senderQueue),
         NEW j, Head(senderQueue) = j, j.op \in {"addNode", "incomingTcp"},
         NEW s \in Socket, NEW b \in BOOLEAN, NEW ops \in Seq(Ops), TakesSocket(j, s, b, ops)
  PROVE  NoLostSocket' /\ Connecting'
<1>. USE SenderIsThread
<1>1. program'["sender"] = ops /\ \A u \in Thread \ {"sender"} : program'[u] = program[u]
  BY DEF TakesSocket, Start, Types
<1>2. \A x \in Socket : sock'[x] = IF x # s THEN sock[x]
                                   ELSE IF ops = <<>> THEN "deleted"
                                   ELSE IF j.op = "addNode" THEN "created" ELSE "open"
  BY DEF TakesSocket, Types, FieldTypes
<1>3. \/ ops = <<>>
      \/ ops = <<Create(j.a, s, b), Announce(j.a)>>
      \/ ops = <<Create(j.a, s, b), Announce(j.a), Op("connect", j.a, s)>>
      \/ ops = <<Take(j.a), Attach(j.a, s), SetLocal(j.a, b), Registered(j.a, s)>>
      \/ ops = <<Take(j.a), Attach(j.a, s), SetLocal(j.a, b), Registered(j.a, s),
                 Op("connect", j.a, s)>>
  BY DEF TakesSocket, Registration
<1>4. ops # <<>> => \E i \in DOMAIN ops : ops[i].s = s /\ ops[i].op \in {"attach", "create"}
  <2>1. Create(j.a, s, b).s = s /\ Create(j.a, s, b).op = "create"
        /\ Attach(j.a, s).s = s /\ Attach(j.a, s).op = "attach"
    BY DEF Create, Attach, Op
  <2>2. CASE ops = <<Create(j.a, s, b), Announce(j.a)>>
             \/ ops = <<Create(j.a, s, b), Announce(j.a), Op("connect", j.a, s)>>
    <3>1. 1 \in DOMAIN ops /\ ops[1] = Create(j.a, s, b)
      BY <2>2
    <3>. QED  BY <2>1, <3>1
  <2>3. CASE ops = <<Take(j.a), Attach(j.a, s), SetLocal(j.a, b), Registered(j.a, s)>>
             \/ ops = <<Take(j.a), Attach(j.a, s), SetLocal(j.a, b), Registered(j.a, s),
                        Op("connect", j.a, s)>>
    <3>1. 2 \in DOMAIN ops /\ ops[2] = Attach(j.a, s)
      BY <2>3
    <3>. QED  BY <2>1, <3>1
  <2>. QED  BY <1>3, <2>2, <2>3
<1>5. Kept(s)'
  <2>1. CASE ops = <<>>
    BY <1>2, <2>1 DEF Kept
  <2>2. CASE ops # <<>>
    BY <1>1, <1>4, <2>2 DEF Kept, InProgram
  <2>. QED  BY <2>1, <2>2
<1>6. \A x : InProgram(x) => InProgram(x)'
  BY StartKeepsProgram DEF TakesSocket
<1>7. \A x : Deleting(x) => Deleting(x)'
  BY QueueKeepsDeletion
<1>8. NoLostSocket'
  BY <1>2, <1>5, <1>6, <1>7, KeptStep DEF Kept, TakesSocket
<1>9. Connecting'
  <2>1. \A i \in DOMAIN ops : ops[i].op = "connect" =>
           i = Len(ops) /\ ops[i].s = s
    <3>. USE DEF Create, Announce, Take, Attach, SetLocal, Registered, Op, OpValue
    <3>1. CASE ops = <<Create(j.a, s, b), Announce(j.a), Op("connect", j.a, s)>>
      BY <3>1
    <3>2. CASE ops = <<Take(j.a), Attach(j.a, s), SetLocal(j.a, b), Registered(j.a, s),
                       Op("connect", j.a, s)>>
      BY <3>2
    <3>3. CASE \/ ops = <<>>
               \/ ops = <<Create(j.a, s, b), Announce(j.a)>>
               \/ ops = <<Take(j.a), Attach(j.a, s), SetLocal(j.a, b), Registered(j.a, s)>>
      BY <3>3
    <3>. HIDE DEF Create, Announce, Take, Attach, SetLocal, Registered, Op, OpValue
    <3>. QED  BY <1>3, <3>1, <3>2, <3>3
  <2>2. j.op = "incomingTcp" => \A i \in DOMAIN ops : ops[i].op # "connect"
    <3>1. j.op = "incomingTcp" =>
             \/ ops = <<>>
             \/ ops = <<Create(j.a, s, b), Announce(j.a)>>
             \/ ops = <<Take(j.a), Attach(j.a, s), SetLocal(j.a, b), Registered(j.a, s)>>
      BY DEF TakesSocket
    <3>. QED  BY <3>1 DEF Create, Announce, Take, Attach, SetLocal, Registered, Op, OpValue
  <2>3. (\E i \in DOMAIN ops : TRUE) => ops # <<>>
    OBVIOUS
  <2>4. ASSUME NEW i \in DOMAIN ops, ops[i].op = "connect"
        PROVE  sock'[ops[i].s] = "created" /\ \A k \in DOMAIN ops : ops[k].op = "connect" => k = i
    <3>1. j.op = "addNode" /\ ops # <<>> /\ ops[i].s = s /\ i = Len(ops)
      BY <2>1, <2>2, <2>3, <2>4
    <3>2. sock'[s] = "created"
      BY <1>2, <3>1
    <3>. QED  BY <2>1, <3>1, <3>2
  <2>. QED  BY <1>1, <2>4 DEF Connecting
<1>. QED  BY <1>8, <1>9

LEMMA SenderKept ==
  ASSUME Types, Life, Connecting, NoLostSocket, Sender
  PROVE  NoLostSocket' /\ Connecting'
<1>. USE SenderIsThread
<1>. DEFINE j == senderQueue[1]
<1>1. senderQueue # <<>>
  BY DEF Sender, Job, AddNodeJob, IncomingTcpJob, WriteJob, DisconnectedJob, DeleteJob
<1>2. j \in Jobs /\ Head(senderQueue) = j /\ j \in JobRecord /\ JobOK(j)
  BY <1>1, TailOf DEF Types, Jobs
<1>3. sct' = sct
  BY DEF Sender, AddNodeJob, IncomingTcpJob, WriteJob, DisconnectedJob, DeleteJob, info
<1>4. CASE AddNodeJob \/ IncomingTcpJob
  <2>1. /\ program["sender"] = <<>> /\ senderQueue' = Tail(senderQueue)
        /\ j.op \in {"addNode", "incomingTcp"}
        /\ \E s \in Socket, b \in BOOLEAN, ops \in Seq(Ops) : TakesSocket(j, s, b, ops)
    BY <1>4, TakeSocketJobs
  <2>2. PICK s \in Socket, b \in BOOLEAN, ops \in Seq(Ops) : TakesSocket(j, s, b, ops)
    BY <2>1
  <2>. HIDE DEF j
  <2>. QED  BY <1>1, <1>2, <1>3, <2>1, <2>2, TakeSocketKept
<1>5. CASE WriteJob
  <2>1. program' = program /\ senderQueue' = Tail(senderQueue) /\ sock' = sock /\ j.op = "write"
    BY <1>2, <1>5 DEF WriteJob, Job
  <2>2. NoLostSocket'
    BY <1>1, <1>2, <1>3, <2>1, EasyKept
  <2>. QED  BY <2>1, <2>2, ConnectingStays
<1>6. CASE DisconnectedJob
  <2>. DEFINE ops == <<Take(j.a)>>
  <2>1. j.a \in Address /\ program["sender"] = <<>> /\ senderQueue' = Tail(senderQueue)
        /\ j.op = "disconnected" /\ sock' = sock
    BY <1>2, <1>6, MayStartIdle DEF DisconnectedJob, Job, JobOK, sockets
  <2>2. Start("sender", ops)
    BY <1>2, <1>6 DEF DisconnectedJob, RemoveSocket
  <2>3. ops \in Seq(Ops)
    BY <2>1, OpsOf, TupleOf
  <2>4. \A i \in DOMAIN ops : ops[i].op # "connect"
    BY DEF Take, Op
  <2>. HIDE DEF ops, j
  <2>5. NoLostSocket'
    BY <1>1, <1>2, <1>3, <2>1, <2>2, <2>3, EasyKept
  <2>. QED  BY <2>1, <2>2, <2>3, <2>4, <2>5, ConnectingStays
<1>7. CASE DeleteJob
  <2>1. program["sender"] = <<>> /\ program' = program /\ j.op \in {"delete", "deleteLater"}
        /\ j.s \in Socket /\ DOMAIN program'["sender"] = {}
    BY <1>2, <1>7, MayStartIdle DEF DeleteJob, Job, JobOK
  <2>2. Connecting'
    BY <2>1 DEF Connecting
  <2>3. \A s : InProgram(s) => InProgram(s)'
    BY <2>1 DEF InProgram
  <2>4. CASE senderQueue' = Tail(senderQueue) /\ sock' = [sock EXCEPT ![j.s] = "deleted"]
    <3>1. \A x \in Socket : sock'[x] = IF x = j.s THEN "deleted" ELSE sock[x]
      BY <2>1, <2>4 DEF Types, FieldTypes
    <3>2. ASSUME NEW s \in Socket, Deleting(s) PROVE Kept(s)'
      <4>1. CASE s = j.s
        BY <3>1, <4>1 DEF Kept
      <4>2. CASE s # j.s
        <5>1. PICK i \in DOMAIN senderQueue :
                 senderQueue[i].s = s /\ senderQueue[i].op \in {"delete", "deleteLater"}
          BY <3>2 DEF Deleting
        <5>2. i # 1
          BY <4>2, <5>1
        <5>3. i - 1 \in DOMAIN senderQueue' /\ senderQueue'[i - 1] = senderQueue[i]
          BY <1>1, <2>4, <5>2, TailShifts DEF Types
        <5>. QED  BY <5>1, <5>3 DEF Kept, Deleting
      <4>. QED  BY <4>1, <4>2
    <3>3. NoLostSocket'
      BY <1>3, <2>3, <3>1, <3>2, KeptStep DEF Kept
    <3>. QED  BY <2>2, <3>3
  <2>5. CASE senderQueue' = Append(Tail(senderQueue), Op("delete", None, j.s)) /\ sock' = sock
    <3>. DEFINE d == Op("delete", None, j.s)
                r == Tail(senderQueue)
    <3>1. d \in Jobs /\ d.op = "delete" /\ d.s = j.s
      BY <1>2, <2>1 DEF Jobs, JobRecord, JobOK, Op
    <3>2. r \in Seq(Jobs)
      BY <1>1, TailOf DEF Types
    <3>. HIDE DEF d, r
    <3>3. /\ Len(r) \in Nat /\ DOMAIN r = 1 .. Len(r) /\ DOMAIN senderQueue' = 1 .. Len(r) + 1
          /\ \A i \in 1 .. Len(r) + 1 : senderQueue'[i] = IF i <= Len(r) THEN r[i] ELSE d
      BY <2>5, <3>1, <3>2, AppendOf DEF d, r
    <3>4. ASSUME NEW s \in Socket, Deleting(s) PROVE Deleting(s)'
      <4>1. CASE s = j.s
        <5>1. Len(r) + 1 \in DOMAIN senderQueue' /\ senderQueue'[Len(r) + 1] = d
          BY <3>3
        <5>. QED  BY <3>1, <4>1, <5>1 DEF Deleting
      <4>2. CASE s # j.s
        <5>1. PICK i \in DOMAIN senderQueue :
                 senderQueue[i].s = s /\ senderQueue[i].op \in {"delete", "deleteLater"}
          BY <3>4 DEF Deleting
        <5>2. i # 1
          BY <4>2, <5>1
        <5>3. i - 1 \in DOMAIN r /\ r[i - 1] = senderQueue[i]
          BY <1>1, <5>2, TailShifts DEF Types, r
        <5>4. i - 1 \in DOMAIN senderQueue' /\ senderQueue'[i - 1] = r[i - 1]
          BY <3>3, <5>3
        <5>. QED  BY <5>1, <5>3, <5>4 DEF Deleting
      <4>. QED  BY <4>1, <4>2
    <3>5. NoLostSocket'
      BY <1>3, <2>3, <2>5, <3>4, KeptStep DEF Kept
    <3>. QED  BY <2>2, <3>5
  <2>. QED  BY <1>2, <1>7, <2>4, <2>5 DEF DeleteJob
<1>. QED  BY <1>4, <1>5, <1>6, <1>7 DEF Sender

\* A step of the sockets, the main thread, the environment or the workers.
LEMMA RestKept ==
  ASSUME Types, Connecting, NoLostSocket, sct' = sct,
         \A s \in Socket : /\ sock[s] = "unused" => sock'[s] = "unused"
                           /\ sock[s] = "deleted" => sock'[s] = "deleted"
                           /\ sock[s] = "created" => sock'[s] = "created",
         \/ program' = program
         \/ \E t \in Thread, ops \in Seq(Ops) :
               /\ program[t] = <<>> /\ Start(t, ops)
               /\ \A i \in DOMAIN ops : Common(ops[i]),
         \/ senderQueue' = senderQueue
         \/ \E j \in Jobs : senderQueue' = Append(senderQueue, j)
  PROVE  NoLostSocket' /\ Connecting'
<1>1. NoLostSocket'
  BY EasyKept
<1>2. Connecting'
  BY ConnectingStays DEF Common
<1>. QED  BY <1>1, <1>2

LEMMA SocketKept ==
  ASSUME Types, Life, Hearing, Connecting, NoLostSocket, NEW s \in Socket,
         SocketConnects(s) \/ ConnectFails(s) \/ PeerCloses(s)
  PROVE  NoLostSocket' /\ Connecting'
<1>. USE SenderIsThread
<1>1. program["sender"] = <<>> /\ sct' = sct
  BY MayStartIdle DEF SocketConnects, ConnectFails, PeerCloses, info
<1>2. s \in wired => peerOf[s] \in Address
  BY DEF Hearing, WiredKnown, Types, FieldTypes
<1>3. \A x \in Socket : /\ sock[x] = "unused" => sock'[x] = "unused"
                        /\ sock[x] = "deleted" => sock'[x] = "deleted"
                        /\ sock[x] = "created" => sock'[x] = "created"
  BY DEF SocketConnects, ConnectFails, PeerCloses, Types, FieldTypes
<1>4. CASE SocketConnects(s)
  <2>1. PICK ops \in {<<>>, <<SetStatus(peerOf[s], "Connected")>>} :
          Start("sender", ops) /\ (ops = <<>> \/ s \in wired)
    BY <1>4 DEF SocketConnects
  <2>2. ops \in Seq(Ops)
    <3>1. CASE s \in wired
      <4>1. SetStatus(peerOf[s], "Connected") \in Ops
        BY <1>2, <3>1, OpsOf DEF Status
      <4>. QED  BY <2>1, <4>1, TupleOf
    <3>. QED  BY <2>1, <3>1, EmptySeq
  <2>3. \A i \in DOMAIN ops : Common(ops[i])
    BY <2>1 DEF Common, SetStatus, OpValue
  <2>4. senderQueue' = senderQueue
    BY <1>4 DEF SocketConnects, queues
  <2>. QED  BY <1>1, <1>3, <2>1, <2>2, <2>3, <2>4, RestKept
<1>5. CASE ConnectFails(s)
  BY <1>1, <1>3, <1>5, RestKept DEF ConnectFails, queues
<1>6. CASE PeerCloses(s)
  <2>. DEFINE j == Op("disconnected", peerOf[s], None)
  <2>1. /\ program' = program
        /\ \/ senderQueue' = senderQueue
           \/ s \in wired /\ senderQueue' = Append(senderQueue, j)
    BY <1>6 DEF PeerCloses
  <2>2. s \in wired => j \in Jobs
    BY <1>2 DEF Op, Jobs, JobRecord, JobOK
  <2>. HIDE DEF j
  <2>. QED  BY <1>1, <1>3, <2>1, <2>2, RestKept
<1>. QED  BY <1>4, <1>5, <1>6

\* What the main thread and the workers begin.
LEMMA MainBegins ==
  ASSUME Types, Main \/ Package \/ (\E a \in Address, op \in UserCall : Call(op, a))
  PROVE  /\ UNCHANGED <<known, sct, status, trust, isLocal, watched, sockets, senderQueue>>
         /\ \E t \in Thread \ {"sender"}, ops \in Seq(Ops) :
               /\ MayStart(t) /\ Start(t, ops)
               /\ \/ Main /\ \E a \in Address : ops = Reset(a)
                  \/ \A i \in DOMAIN ops :
                        ops[i].op \in {"remove", "force", "ban", "unBan", "confirmable", "send",
                                       "readTrust", "requestTrust"}
               /\ \A i \in DOMAIN ops : Common(ops[i]) /\ ops[i].s = None
<1>. USE SenderIsThread
<1>1. "main" \in Thread \ {"sender"} /\ \A t \in Worker : t \in Thread \ {"sender"}
  BY ConstantsAssumption
<1>. DEFINE Rest == UNCHANGED <<known, sct, status, trust, isLocal, watched, sockets, senderQueue>>
            Plain == {"remove", "force", "ban", "unBan", "confirmable", "send", "readTrust",
                      "requestTrust"}
            Begins == \E t \in Thread \ {"sender"}, ops \in Seq(Ops) :
               /\ MayStart(t) /\ Start(t, ops)
               /\ \/ Main /\ \E a \in Address : ops = Reset(a)
                  \/ \A i \in DOMAIN ops : ops[i].op \in Plain
               /\ \A i \in DOMAIN ops : Common(ops[i]) /\ ops[i].s = None
<1>2. Rest
  BY DEF Main, HandleNodeStatusChanged, CheckConfirmendOfNode, ForceTimer, Package, NewWork, Call,
         info, queues
<1>3. ASSUME NEW t \in Thread \ {"sender"}, NEW ops \in Seq(Ops), MayStart(t), Start(t, ops),
             \A i \in DOMAIN ops : ops[i].op \in Plain /\ ops[i].s = None
      PROVE  Begins
  <2>1. \A i \in DOMAIN ops : Common(ops[i])
    BY <1>3 DEF Common
  <2>. QED  BY <1>3, <2>1
<1>4. ASSUME HandleNodeStatusChanged PROVE Begins
  <2>. DEFINE a == mainQueue[1][1]
  <2>1. a \in Address /\ Head(mainQueue) = mainQueue[1] /\ MayStart("main")
    BY <1>4, TailOf DEF HandleNodeStatusChanged, Types
  <2>2. PICK ops \in {<<>>, Reset(a)} : Start("main", ops)
    BY <1>4, <2>1 DEF HandleNodeStatusChanged
  <2>. HIDE DEF a
  <2>3. CASE ops = <<>>
    <3>1. ops \in Seq(Ops) /\ DOMAIN ops = {}
      BY <2>3
    <3>. QED  BY <1>1, <1>3, <2>1, <2>2, <3>1
  <2>4. CASE ops = Reset(a)
    <3>1. /\ ops \in Seq(Ops) /\ \A i \in DOMAIN ops : Common(ops[i])
          /\ ops = <<Take(a), Attach(a, None), SetTrust(a, DefaultTrust),
                     SetStatus(a, "NotConnected"), SetLocal(a, FALSE)>>
      BY <2>1, <2>4, ResetSteps
    <3>2. \A i \in DOMAIN ops : ops[i].s = None
      BY <3>1 DEF Take, Attach, SetTrust, SetStatus, SetLocal, Op, OpValue
    <3>3. Main
      BY <1>4 DEF Main
    <3>. QED  BY <1>1, <2>1, <2>2, <2>4, <3>1, <3>2, <3>3
  <2>. QED  BY <2>2, <2>3, <2>4
<1>5. ASSUME NEW a \in Address, CheckConfirmendOfNode(a) PROVE Begins
  <2>1. PICK ops \in {<<>>, <<Remove(a)>>} : Start("main", ops)
    BY <1>5 DEF CheckConfirmendOfNode
  <2>2. ops \in Seq(Ops)
    BY <2>1, OpsOf, CommonOf, OneStep
  <2>3. \A i \in DOMAIN ops : ops[i].op \in Plain /\ ops[i].s = None
    BY <2>1 DEF Remove, Op
  <2>4. MayStart("main")
    BY <1>5 DEF CheckConfirmendOfNode
  <2>. QED  BY <1>1, <1>3, <2>1, <2>2, <2>3, <2>4
<1>6. ASSUME NEW a \in Address, ForceTimer(a) PROVE Begins
  <2>. DEFINE ops == <<ForceRemove(a)>>
  <2>1. Start("main", ops) /\ MayStart("main")
    BY <1>6 DEF ForceTimer
  <2>2. ops \in Seq(Ops)
    BY OpsOf, CommonOf, OneStep
  <2>3. \A i \in DOMAIN ops : ops[i].op \in Plain /\ ops[i].s = None
    BY DEF ForceRemove, Op
  <2>. HIDE DEF ops
  <2>. QED  BY <1>1, <1>3, <2>1, <2>2, <2>3
<1>7. ASSUME NEW a \in Address, NEW op \in UserCall, Call(op, a) PROVE Begins
  <2>. DEFINE ops == <<Op(op, a, None)>>
  <2>1. Start("main", ops) /\ MayStart("main")
    BY <1>7 DEF Call
  <2>2. op \in {"remove", "ban", "unBan"}
    BY ConstantsAssumption
  <2>3. Op(op, a, None) \in Ops
    BY <2>2, OpsOf DEF Remove, Ban, UnBan
  <2>4. ops \in Seq(Ops) /\ \A i \in DOMAIN ops : ops[i].op \in Plain /\ ops[i].s = None
    BY <2>2, <2>3 DEF Op
  <2>. HIDE DEF ops
  <2>. QED  BY <1>1, <1>3, <2>1, <2>4
<1>8. ASSUME Package PROVE Begins
  <2>1. PICK t \in Worker, a \in Address,
             kind \in PackageKind :
           NewWork(t, a, kind)
    BY <1>8 DEF Package
  <2>2. PICK ops \in ParsePackage(a, kind) : Start(t, ops)
    BY <2>1 DEF NewWork
  <2>3. /\ ops \in Seq(Ops)
        /\ \/ ops = <<Confirmable(a)>> \/ ops = <<Remove(a), Confirmable(a)>>
           \/ ops = <<Send(a), Confirmable(a)>>
           \/ \E p \in Penalty : \/ ops = <<ReadTrust(a, p, FALSE)>>
                                 \/ ops = <<ReadTrust(a, p, TRUE)>>
    BY <2>2, PackageSteps
  <2>4. \A i \in DOMAIN ops : ops[i].op \in Plain /\ ops[i].s = None
    BY <2>3 DEF Confirmable, Send, Remove, ReadTrust, Op, OpValue
  <2>5. MayStart(t) /\ t \in Thread \ {"sender"}
    BY <1>1, <2>1 DEF NewWork
  <2>. QED  BY <1>3, <2>2, <2>3, <2>4, <2>5
<1>9. Begins
  BY <1>4, <1>5, <1>6, <1>7, <1>8 DEF Main
<1>. QED  BY <1>2, <1>9

LEMMA OthersKept ==
  ASSUME Types, Connecting, NoLostSocket, Main \/ Environment \/ Package
  PROVE  NoLostSocket' /\ Connecting'
<1>1. CASE Main \/ Package \/ (\E a \in Address, op \in UserCall : Call(op, a))
  <2>1. UNCHANGED <<sct, sock, senderQueue>>
        /\ \E t \in Thread \ {"sender"}, ops \in Seq(Ops) :
              MayStart(t) /\ Start(t, ops) /\ \A i \in DOMAIN ops : Common(ops[i])
    BY <1>1, MainBegins DEF sockets
  <2>2. \E t \in Thread, ops \in Seq(Ops) :
           program[t] = <<>> /\ Start(t, ops) /\ \A i \in DOMAIN ops : Common(ops[i])
    BY <2>1, MayStartIdle
  <2>. QED  BY <2>1, <2>2, RestKept
<1>2. CASE (\E a \in Local : AddNode(a)) \/ (\E a \in Remote : IncomingConnection(a))
  <2>1. UNCHANGED <<sct, sock, program>>
    BY <1>2 DEF AddNode, IncomingConnection, info, sockets
  <2>2. \A a \in Local : Op("addNode", a, None) \in Jobs
    BY DEF Op, Jobs, JobRecord, JobOK, Address
  <2>3. \A a \in Remote : Op("incomingTcp", a, None) \in Jobs
    BY DEF Op, Jobs, JobRecord, JobOK, Address
  <2>4. \E j \in Jobs : senderQueue' = Append(senderQueue, j)
    BY <1>2, <2>2, <2>3 DEF AddNode, IncomingConnection
  <2>. QED  BY <2>1, <2>4, RestKept
<1>. QED  BY <1>1, <1>2 DEF Environment

LEMMA KeptInit == Init => NoLostSocket /\ Connecting
<1>. SUFFICES ASSUME Init PROVE NoLostSocket /\ Connecting
  OBVIOUS
<1>1. \A t \in Thread : DOMAIN program[t] = {}
  BY DEF Init
<1>2. \A s \in Socket : sock[s] = "unused"
  BY DEF Init
<1>. QED  BY <1>1, <1>2, SenderIsThread DEF NoLostSocket, Connecting

LEMMA KeptNext ==
  Inv /\ Hearing /\ Order /\ Connecting /\ NoLostSocket /\ [Next]_vars
    => NoLostSocket' /\ Connecting'
<1>. SUFFICES ASSUME Types, Life, Hearing, Order, Connecting, NoLostSocket, [Next]_vars
              PROVE  NoLostSocket' /\ Connecting'
  BY DEF Inv
<1>1. CASE UNCHANGED vars
  BY <1>1, RestKept DEF vars
<1>. QED  BY <1>1, AccessKept, RegisterKept, SenderKept, SocketKept, OthersKept
          DEF Next, SocketEvent

\* No socket is forgotten, for any number of peers, sockets and threads: when
\* calls do not overlap, and also when they do but every info gets one socket in
\* its life.  Otherwise a thread that has read the old socket in removeSocket may
\* clear _sct after setSct of registerSocket has put a new one there.
THEOREM SocketsKept == Turns \/ Fresh => (Spec => []NoLostSocket)
<1>. SUFFICES ASSUME Turns \/ Fresh PROVE Spec => []NoLostSocket
  OBVIOUS
<1>. DEFINE K == Hearing /\ Order /\ NoLostSocket /\ Connecting
<1>1. Init => K
  BY HearingInit, OrderInit, KeptInit
<1>2. K /\ Inv /\ [Next]_vars => K'
  BY HearingNext, OrderNext, KeptNext
<1>3. K => NoLostSocket
  OBVIOUS
<1>. HIDE DEF K
<1>. QED  BY <1>1, <1>2, <1>3, InvHolds, PTL DEF Spec

(***************************************************************************)
(* The connection limit, for peers that connect once.  The job of          *)
(* incomingTcp counts the connections before it adds one; what happens in  *)
(* between makes them fewer, because nobody else gives an info a socket,   *)
(* and an info that has one is connected already.                          *)
(***************************************************************************)
Linked == \A a \in known : sct[a] # None => status[a] # "NotConnected"

Room ==
    \A i \in DOMAIN program["sender"] :
        /\ program["sender"][i].op # "connect"
        /\ program["sender"][i].op = "create" =>
              /\ sock[program["sender"][i].s] = "open"
              /\ ConnectionsCount < MaxConnections

Limited == Linked /\ Room /\ ConnectionLimit

LEMMA CountIs ==
  ASSUME Types
  PROVE  /\ ConnectionsCount \in Nat
         /\ IsFiniteSet({a \in known : IsConnected(a)})
<1>1. IsFiniteSet(Address) /\ {a \in known : IsConnected(a)} \subseteq Address
  BY ConstantsAssumption DEF Types, FieldTypes
<1>. QED  BY <1>1, FS_Subset, FS_CardinalityType DEF ConnectionsCount

LEMMA CountStep ==
  ASSUME Types, NEW A \in SUBSET Address, NEW x,
         {a \in known : IsConnected(a)}' \subseteq {a \in known : IsConnected(a)} \cup A,
         A = {} \/ A = {x}
  PROVE  /\ ConnectionsCount' \in Nat
         /\ A = {} => ConnectionsCount' <= ConnectionsCount
         /\ ConnectionsCount' <= ConnectionsCount + 1
<1>. DEFINE C == {a \in known : IsConnected(a)}
            D == {a \in known : IsConnected(a)}'
<1>1. IsFiniteSet(C) /\ ConnectionsCount = Cardinality(C) /\ ConnectionsCount' = Cardinality(D)
  BY CountIs DEF ConnectionsCount
<1>2. D \subseteq C \cup A
  OBVIOUS
<1>. HIDE DEF C, D
<1>3. IsFiniteSet(C \cup {x}) /\ Cardinality(C \cup {x}) <= Cardinality(C) + 1 /\ Cardinality(C) \in Nat
  <2>1. Cardinality(C) \in Nat
    BY <1>1, FS_CardinalityType
  <2>2. /\ IsFiniteSet(C \cup {x})
        /\ Cardinality(C \cup {x}) = IF x \in C THEN Cardinality(C) ELSE Cardinality(C) + 1
    BY <1>1, FS_AddElement
  <2>. QED  BY <2>1, <2>2
<1>4. IsFiniteSet(D) /\ Cardinality(D) \in Nat
  <2>1. D \subseteq C \cup {x}
    BY <1>2
  <2>. QED  BY <1>3, <2>1, FS_Subset, FS_CardinalityType
<1>5. CASE A = {}
  <2>1. D \subseteq C
    BY <1>2, <1>5
  <2>2. Cardinality(D) <= Cardinality(C)
    BY <1>1, <2>1, FS_Subset
  <2>. QED  BY <1>1, <1>3, <1>4, <2>2
<1>6. CASE A = {x}
  <2>1. D \subseteq C \cup {x} /\ A # {}
    BY <1>2, <1>6
  <2>2. Cardinality(D) <= Cardinality(C \cup {x}) /\ Cardinality(C \cup {x}) \in Nat
    BY <1>3, <2>1, FS_Subset, FS_CardinalityType
  <2>. QED  BY <1>1, <1>3, <1>4, <2>1, <2>2
<1>. QED  BY <1>5, <1>6

\* A step by which no info is connected that was not.
LEMMA LimitStep ==
  ASSUME Types, Limited, known' = known,
         \A a \in known : sct'[a] # None =>
            sct[a] # None /\ (status[a] # "NotConnected" => status'[a] # "NotConnected"),
         \A i \in DOMAIN program'["sender"] : program'["sender"][i].op \in {"create", "connect"} =>
            sock' = sock /\ \E j \in DOMAIN program["sender"] :
                               program'["sender"][i] = program["sender"][j]
  PROVE  Limited'
<1>1. Linked'
  BY DEF Limited, Linked
<1>2. ConnectionsCount' <= ConnectionsCount /\ ConnectionsCount' \in Nat /\ ConnectionsCount \in Nat
  <2>1. {a \in known : IsConnected(a)}' \subseteq {a \in known : IsConnected(a)} \cup {}
    BY DEF IsConnected, Limited, Linked
  <2>2. {} \in SUBSET Address
    OBVIOUS
  <2>. QED  BY <2>1, <2>2, CountStep, CountIs
<1>3. MaxConnections \in Nat
  BY ConstantsAssumption
<1>4. ConnectionLimit'
  BY <1>2, <1>3 DEF Limited, ConnectionLimit
<1>5. Room'
  <2>. SUFFICES ASSUME NEW i \in DOMAIN program'["sender"],
                       program'["sender"][i].op \in {"create", "connect"}
                PROVE  /\ program'["sender"][i].op # "connect"
                       /\ sock'[program'["sender"][i].s] = "open"
                       /\ ConnectionsCount' < MaxConnections
    BY DEF Room
  <2>1. PICK j \in DOMAIN program["sender"] : program'["sender"][i] = program["sender"][j]
    OBVIOUS
  <2>2. sock' = sock /\ program["sender"][j].op # "connect" /\ sock[program["sender"][j].s] = "open"
        /\ ConnectionsCount < MaxConnections
    BY <2>1 DEF Limited, Room
  <2>. QED  BY <1>2, <1>3, <2>1, <2>2
<1>. QED  BY <1>1, <1>4, <1>5 DEF Limited

LEMMA AccessLimited ==
  ASSUME Fresh, Types, Order, Limited, NEW t \in Thread, Access(t)
  PROVE  Limited'
<1>. USE SenderIsThread
<1>. DEFINE o == program[t][1]
<1>1. o \in Ops /\ o.a \in Address /\ 1 \in DOMAIN program[t]
  BY AccessPops
<1>2. PICK ops \in Seq(Ops) : Pops(t, ops, 1) /\ Follows(o, ops)
  BY AccessPops
<1>3. Effect(o)
  BY AccessEffect
<1>4. Needs(o) => sct[o.a] = None
  <2>1. \A j \in DOMAIN program[t] : j \in Int /\ j >= 1
    BY LenProperties DEF Types
  <2>. QED  BY <1>1, <2>1 DEF Order, ClearFirst
<1>5. o.op = "attach" => o.s = None
  <2>1. o.op = "attach" /\ o.s # None => t = "sender"
    BY <1>1 DEF Types
  <2>. QED  BY <1>1, <2>1 DEF Order, Unmet
<1>6. \A i \in DOMAIN ops : ops[i].op \notin {"create", "connect"}
  BY <1>1, <1>2, FollowsOps DEF Common
<1>7. \A i \in DOMAIN program'["sender"] : program'["sender"][i].op \in {"create", "connect"} =>
         \E j \in DOMAIN program["sender"] : program'["sender"][i] = program["sender"][j]
  <2>1. CASE t = "sender"
    <3>1. 1 \in {0, 1}
      OBVIOUS
    <3>. QED  BY <1>2, <1>6, <2>1, <3>1, PopsRest
  <2>2. CASE t # "sender"
    BY <1>2, <2>2 DEF Pops
  <2>. QED  BY <2>1, <2>2
<1>. HIDE DEF o
<1>8. \A a \in known : sct'[a] # None =>
         sct[a] # None /\ (status[a] # "NotConnected" => status'[a] # "NotConnected")
  <2>1. known \subseteq Address
    BY DEF Types, FieldTypes
  <2>. QED  BY <1>1, <1>3, <1>4, <1>5, <2>1 DEF Effect, Needs, Types, FieldTypes
<1>. QED  BY <1>3, <1>7, <1>8, LimitStep DEF Effect

LEMMA RegisterLimited ==
  ASSUME Fresh, Types, Life, Hearing, Order, Limited, Register
  PROVE  Limited'
<1>. USE SenderIsThread
<1>. DEFINE p == program["sender"]
            q == program'["sender"]
            o == p[1]
<1>1. p # <<>> /\ p \in Seq(Ops) /\ 1 \in DOMAIN p /\ Head(p) = o /\ o \in Ops /\ OpOK(o)
      /\ o.a \in Address
  <2>1. p # <<>>
    BY DEF Register, DoCreate, DoAnnounce, DoRegistered, DoConnect, At
  <2>. QED  BY <2>1, TailOf DEF Types, Ops, OpRecord
<1>2. o.op # "connect" /\ (o.op = "create" => /\ sock[o.s] = "open"
                                              /\ ConnectionsCount < MaxConnections)
  BY <1>1 DEF Limited, Room
<1>3. ASSUME Continue("sender", <<>>)
      PROVE  \A i \in DOMAIN q : i + 1 \in DOMAIN p /\ 1 < i + 1 /\ q[i] = p[i + 1]
  <2>1. q = <<>> \o Tail(p)
    BY <1>3 DEF Continue, Types
  <2>2. /\ Tail(p) \in Seq(Ops) /\ Len(p) \in Nat \ {0} /\ DOMAIN p = 1 .. Len(p)
        /\ DOMAIN Tail(p) = 1 .. Len(p) - 1
        /\ \A i \in 1 .. Len(p) - 1 : Tail(p)[i] = p[i + 1]
    BY <1>1, TailOf
  <2>3. q = Tail(p)
    BY <2>1, <2>2, ConcatProperties
  <2>. HIDE DEF q, p
  <2>4. /\ DOMAIN q = 1 .. Len(p) - 1 /\ \A i \in 1 .. Len(p) - 1 : q[i] = p[i + 1]
    BY <2>2, <2>3
  <2>. QED  BY <2>2, <2>4
<1>4. CASE DoCreate
  <2>1. /\ o.op = "create" /\ Continue("sender", <<>>) /\ o.s \in Socket
        /\ known' = known \cup {o.a} /\ sct' = [sct EXCEPT ![o.a] = o.s]
        /\ status' = [status EXCEPT ![o.a] = IF sock[o.s] = "open" THEN "Connected"
                                             ELSE "NotConnected"]
    BY <1>1, <1>4 DEF DoCreate, At, OpOK
  <2>2. \A i \in DOMAIN p : 1 < i => p[i].op \notin {"create", "connect"}
    <3>1. \A i \in DOMAIN p : 1 < i => p[i].op # "create"
      BY <1>1, <2>1 DEF Order, Ending
    <3>. QED  BY <3>1 DEF Limited, Room
  <2>. HIDE DEF o, p, q
  <2>3. /\ \A a \in Address : sct'[a] = IF a = o.a THEN o.s ELSE sct[a]
        /\ \A a \in Address : status'[a] = IF a = o.a THEN "Connected" ELSE status[a]
    BY <1>1, <1>2, <2>1 DEF Types, FieldTypes
  <2>4. known \subseteq Address
    BY DEF Types, FieldTypes
  <2>5. Linked'
    BY <1>1, <2>1, <2>3, <2>4 DEF Limited, Linked
  <2>6. {a \in known : IsConnected(a)}' \subseteq {a \in known : IsConnected(a)} \cup {o.a}
    BY <2>1, <2>3, <2>4 DEF IsConnected
  <2>7. ConnectionsCount' \in Nat /\ ConnectionsCount' <= ConnectionsCount + 1
    <3>1. {o.a} \in SUBSET Address
      BY <1>1
    <3>. QED  BY <2>6, <3>1, CountStep
  <2>8. ConnectionLimit'
    BY <1>2, <2>1, <2>7, CountIs, ConstantsAssumption DEF ConnectionLimit
  <2>9. Room'
    BY <1>3, <2>1, <2>2 DEF Room, q
  <2>. QED  BY <2>5, <2>8, <2>9 DEF Limited
<1>5. CASE DoAnnounce \/ DoRegistered
  <2>1. UNCHANGED <<known, sct, status>>
    BY <1>5 DEF DoAnnounce, DoRegistered, info
  <2>2. \/ Continue("sender", <<>>) /\ sock' = sock
        \/ Start("sender", <<>>)
    BY <1>1, <1>5 DEF DoAnnounce, DoRegistered, sockets
  <2>3. CASE Continue("sender", <<>>) /\ sock' = sock
    BY <1>3, <2>1, <2>3, LimitStep
  <2>4. CASE Start("sender", <<>>)
    <3>1. q = <<>> /\ DOMAIN <<>> = {}
      BY <2>4 DEF Start, Types
    <3>. QED  BY <2>1, <3>1, LimitStep
  <2>. QED  BY <2>2, <2>3, <2>4
<1>6. ~ DoConnect
  BY <1>1, <1>2 DEF DoConnect, At
<1>. QED  BY <1>4, <1>5, <1>6 DEF Register

LEMMA SenderLimited ==
  ASSUME Fresh, Types, Limited, Sender \/ SocketEvent
  PROVE  Limited'
<1>. USE SenderIsThread
<1>. DEFINE j == senderQueue[1]
            q == program'["sender"]
<1>1. /\ UNCHANGED <<known, sct, status>> /\ program["sender"] = <<>>
      /\ DOMAIN program["sender"] = {}
  <2>1. /\ UNCHANGED <<known, sct, status>> /\ MayStart("sender")
    BY DEF Sender, AddNodeJob, IncomingTcpJob, WriteJob, DisconnectedJob, DeleteJob, Job,
           SocketEvent, SocketConnects, ConnectFails, PeerCloses, info
  <2>2. program["sender"] = <<>> /\ DOMAIN <<>> = {}
    BY <2>1, MayStartIdle
  <2>. QED  BY <2>1, <2>2
<1>2. ASSUME \A i \in DOMAIN q : q[i].op \notin {"create", "connect"} PROVE Limited'
  BY <1>1, <1>2, LimitStep
<1>3. CASE AddNodeJob \/ IncomingTcpJob
  <2>1. /\ \/ j.op = "addNode" /\ j.a \in Local
           \/ j.op = "incomingTcp"
        /\ \E s \in Socket, b \in BOOLEAN, ops \in Seq(Ops) : TakesSocket(j, s, b, ops)
    BY <1>3, TakeSocketJobs
  <2>2. PICK s \in Socket, b \in BOOLEAN, ops \in Seq(Ops) : TakesSocket(j, s, b, ops)
    BY <2>1
  <2>3. j.op = "incomingTcp"
    BY <2>1 DEF Fresh
  <2>. HIDE DEF j
  <2>4. /\ q = ops /\ (ops # <<>> => ~(ConnectionsCount >= MaxConnections))
        /\ \/ ops = <<>>
           \/ ops = <<Create(j.a, s, b), Announce(j.a)>>
           \/ ops = <<Take(j.a), Attach(j.a, s), SetLocal(j.a, b), Registered(j.a, s)>>
    BY <2>2, <2>3 DEF TakesSocket, Start, Types
  <2>5. ops # <<>> => sock'[s] = "open"
    BY <2>2, <2>3 DEF TakesSocket, Types, FieldTypes
  <2>6. CASE ops = <<Create(j.a, s, b), Announce(j.a)>>
    <3>1. ConnectionsCount < MaxConnections
      BY <2>4, <2>6, CountIs, ConstantsAssumption
    <3>2. ConnectionsCount' = ConnectionsCount
      BY <1>1 DEF ConnectionsCount, IsConnected
    <3>3. \A i \in DOMAIN q : q[i].op # "connect" /\ (q[i].op = "create" => q[i].s = s)
      BY <2>4, <2>6 DEF Create, Announce, Op
    <3>4. Room'
      BY <2>5, <2>6, <3>1, <3>2, <3>3 DEF Room
    <3>5. Linked' /\ ConnectionLimit'
      BY <1>1, <3>2 DEF Limited, Linked, ConnectionLimit
    <3>. QED  BY <3>4, <3>5 DEF Limited
  <2>7. CASE ops # <<Create(j.a, s, b), Announce(j.a)>>
    <3>1. \A i \in DOMAIN q : q[i].op \notin {"create", "connect"}
      BY <2>4, <2>7 DEF Take, Attach, SetLocal, Registered, Op, OpValue
    <3>. QED  BY <1>2, <3>1
  <2>. QED  BY <2>6, <2>7
<1>4. CASE WriteJob \/ DeleteJob
  <2>1. program' = program
    BY <1>4 DEF WriteJob, DeleteJob
  <2>. QED  BY <1>1, <1>2, <2>1
<1>5. CASE DisconnectedJob
  <2>1. q = <<Take(Head(senderQueue).a)>>
    BY <1>5 DEF DisconnectedJob, RemoveSocket, Start, Types
  <2>2. \A i \in DOMAIN q : q[i].op \notin {"create", "connect"}
    BY <2>1 DEF Take, Op
  <2>. QED  BY <1>2, <2>2
<1>6. CASE SocketEvent
  <2>1. \/ program' = program
        \/ Start("sender", <<>>)
        \/ \E a : Start("sender", <<SetStatus(a, "Connected")>>)
    BY <1>6 DEF SocketEvent, SocketConnects, ConnectFails, PeerCloses
  <2>2. program' = program => DOMAIN q = {}
    BY <1>1
  <2>3. ASSUME NEW ops, Start("sender", ops) PROVE q = ops
    BY <2>3 DEF Start, Types
  <2>4. \A i \in DOMAIN q : q[i].op \notin {"create", "connect"}
    <3>1. CASE program' = program
      BY <2>2, <3>1
    <3>2. CASE Start("sender", <<>>)
      BY <2>3, <3>2
    <3>3. ASSUME NEW a, Start("sender", <<SetStatus(a, "Connected")>>)
          PROVE  \A i \in DOMAIN q : q[i].op \notin {"create", "connect"}
      BY <2>3, <3>3 DEF SetStatus, OpValue
    <3>. QED  BY <2>1, <3>1, <3>2, <3>3
  <2>. QED  BY <1>2, <2>4
<1>. QED  BY <1>3, <1>4, <1>5, <1>6 DEF Sender

LEMMA OthersLimited ==
  ASSUME Types, Limited, Main \/ Environment \/ Package
  PROVE  Limited'
<1>1. UNCHANGED <<known, sct, status, sock>> /\ program'["sender"] = program["sender"]
  <2>1. CASE Main \/ Package \/ (\E a \in Address, op \in UserCall : Call(op, a))
    <3>1. UNCHANGED <<known, sct, status, sock>>
          /\ \E t \in Thread \ {"sender"} : \E ops : Start(t, ops)
      BY <2>1, MainBegins DEF sockets
    <3>. QED  BY <3>1, SenderIsThread DEF Start, Types
  <2>2. CASE (\E a \in Local : AddNode(a)) \/ (\E a \in Remote : IncomingConnection(a))
    BY <2>2 DEF AddNode, IncomingConnection, info, sockets
  <2>. QED  BY <2>1, <2>2 DEF Environment
<1>. QED  BY <1>1, LimitStep

LEMMA LimitedInit == Init => Limited
<1>. SUFFICES ASSUME Init PROVE Limited
  OBVIOUS
<1>1. DOMAIN program["sender"] = {}
  BY SenderIsThread DEF Init
<1>2. {a \in known : IsConnected(a)} = {}
  BY DEF Init
<1>3. ConnectionsCount = 0 /\ MaxConnections \in Nat
  BY <1>2, FS_EmptySet, ConstantsAssumption DEF ConnectionsCount
<1>. QED  BY <1>1, <1>3 DEF Limited, Linked, Room, ConnectionLimit, Init

LEMMA LimitedNext == Fresh /\ Inv /\ Hearing /\ Order /\ Limited /\ [Next]_vars => Limited'
<1>. SUFFICES ASSUME Fresh, Types, Life, Hearing, Order, Limited, [Next]_vars PROVE Limited'
  BY DEF Inv
<1>1. CASE UNCHANGED vars
  BY <1>1, LimitStep DEF vars
<1>. QED  BY <1>1, AccessLimited, RegisterLimited, SenderLimited, OthersLimited DEF Next

\* A server has never more connections than maxPendingConnections() allows,
\* whatever the threads do between the count and the new entry, when its peers
\* connect once.
THEOREM LimitHolds == Fresh => (Spec => []ConnectionLimit)
<1>. SUFFICES ASSUME Fresh PROVE Spec => []ConnectionLimit
  OBVIOUS
<1>. DEFINE K == Hearing /\ Order /\ Limited
<1>1. Init => K
  BY HearingInit, OrderInit, LimitedInit
<1>2. K /\ Inv /\ [Next]_vars => K'
  BY HearingNext, OrderNext, LimitedNext
<1>3. K => ConnectionLimit
  BY DEF Limited
<1>. HIDE DEF K
<1>. QED  BY <1>1, <1>2, <1>3, InvHolds, PTL DEF Spec

(***************************************************************************)
(* Calls in turns.  Only one thread has a program, so nothing comes        *)
(* between the look at a field and its use.                                *)
(***************************************************************************)
DeletionOf(j, s) == j.op \in {"delete", "deleteLater"} /\ j.s = s

\* A socket is dropped when it is not deleted, and nobody has asked for that.
Droppable ==
    \A t \in Thread : \A i \in DOMAIN program[t] : program[t][i].op = "drop" =>
        sock[program[t][i].s] # "deleted" /\ ~ Deleting(program[t][i].s)

\* sendPackage gets the socket that the info has.
Writable ==
    \A t \in Thread : \A i \in DOMAIN program[t] : program[t][i].op = "write" =>
        i = 1 /\ sct[program[t][i].a] = program[t][i].s

\* What is to be written comes before the deletion.
WrittenFirst ==
    \A i \in DOMAIN senderQueue : senderQueue[i].op = "write" =>
        /\ sock[senderQueue[i].s] # "deleted"
        /\ \A j \in DOMAIN senderQueue : j < i => ~ DeletionOf(senderQueue[j], senderQueue[i].s)

\* The socket of a registration is not taken away before its end.
Successful ==
    \A i \in DOMAIN program["sender"] : program["sender"][i].op = "registered" =>
        \/ \E j \in DOMAIN program["sender"] :
              j < i /\ program["sender"][j] = Attach(program["sender"][i].a, program["sender"][i].s)
        \/ /\ sct[program["sender"][i].a] # None
           /\ \A j \in DOMAIN program["sender"] :
                 program["sender"][j].op \in {"status", "local", "registered", "announce", "connect"}

Unfreed == ~ freed /\ Droppable /\ Writable /\ WrittenFirst /\ Successful

\* Thread t is the only one with a program; it makes an access and goes on with ops.
Turn(t, ops) ==
    /\ \A u \in Thread \ {t} : DOMAIN program[u] = {} /\ DOMAIN program'[u] = {}
    /\ \A i \in DOMAIN ops : i \in DOMAIN program'[t] /\ program'[t][i] = ops[i]
    /\ \A j \in DOMAIN program[t] : j \in Int /\ j >= 1
    /\ \A j \in DOMAIN program[t] : j > 1 =>
          /\ j + Len(ops) - 1 \in DOMAIN program'[t]
          /\ program'[t][j + Len(ops) - 1] = program[t][j]
    /\ \A i \in DOMAIN program'[t] :
          \/ i \in DOMAIN ops /\ program'[t][i] = ops[i]
          \/ \E j \in DOMAIN program[t] :
                j > 1 /\ i = j + Len(ops) - 1 /\ program'[t][i] = program[t][j]
    /\ Len(ops) \in Nat /\ DOMAIN ops = 1 .. Len(ops)

LEMMA AccessTurn ==
  ASSUME Turns, Types, Order, NEW t \in Thread, NEW ops \in Seq(Ops), Pops(t, ops, 1)
  PROVE  Turn(t, ops)
<1>1. 1 \in {0, 1} /\ program[t] # <<>> /\ DOMAIN <<>> = {}
  BY DEF Pops
<1>2. \A u \in Thread \ {t} : program[u] = <<>> /\ program'[u] = program[u]
  BY <1>1 DEF Order, Alone, Pops
<1>3. \A u \in Thread \ {t} : DOMAIN program[u] = {} /\ DOMAIN program'[u] = {}
  BY <1>1, <1>2
<1>4. \A j \in DOMAIN program[t] : j \in Int /\ j >= 1
  BY LenProperties DEF Types
<1>5. /\ \A i \in DOMAIN ops : i \in DOMAIN program'[t] /\ program'[t][i] = ops[i]
      /\ \A j \in DOMAIN program[t] : j > 1 =>
            /\ j + Len(ops) - 1 \in DOMAIN program'[t]
            /\ program'[t][j + Len(ops) - 1] = program[t][j]
      /\ \A i \in DOMAIN program'[t] :
            \/ i \in DOMAIN ops /\ program'[t][i] = ops[i]
            \/ \E j \in DOMAIN program[t] :
                  j > 1 /\ i = j + Len(ops) - 1 /\ program'[t][i] = program[t][j]
      /\ Len(ops) \in Nat /\ DOMAIN ops = 1 .. Len(ops)
  BY <1>1, PopsRest
<1>. QED  BY <1>3, <1>4, <1>5 DEF Turn

\* The accesses before another one in a program stay before it.
LEMMA SuccessfulStep ==
  ASSUME Types, Successful, NEW t \in Thread, NEW ops, Turn(t, ops),
         \A i \in DOMAIN ops : ops[i].op \notin {"registered"},
         t = "sender" =>
            \/ /\ program[t][1].op \in {"status", "local", "registered", "announce", "connect"}
               /\ \A i \in DOMAIN ops : ops[i].op \in {"status", "local", "registered", "announce", "connect"}
            \/ program[t][1].op \notin
                  {"status", "local", "registered", "announce", "connect", "attach"},
         program[t][1].op # "attach", 1 \in DOMAIN program[t],
         \A a \in Address : sct[a] # None =>
            sct'[a] # None \/ program[t][1].op \notin {"status", "local", "registered", "announce", "connect"}
  PROVE  Successful'
<1>. USE SenderIsThread
<1>1. CASE t # "sender"
  BY <1>1 DEF Turn, Successful
<1>2. CASE t = "sender"
  <2>. DEFINE p == program["sender"]
              q == program'["sender"]
              n == Len(ops)
  <2>1. /\ \A i \in DOMAIN ops : i \in DOMAIN q /\ q[i] = ops[i]
        /\ \A j \in DOMAIN p : j \in Int /\ j >= 1
        /\ \A j \in DOMAIN p : j > 1 => j + n - 1 \in DOMAIN q /\ q[j + n - 1] = p[j]
        /\ \A i \in DOMAIN q : \/ i \in DOMAIN ops /\ q[i] = ops[i]
                               \/ \E j \in DOMAIN p : j > 1 /\ i = j + n - 1 /\ q[i] = p[j]
        /\ n \in Nat
    BY <1>2 DEF Turn
  <2>2. \A i \in DOMAIN p : p[i] \in Ops /\ p[i].a \in Address
    <3>1. p \in Seq(Ops)
      BY DEF Types
    <3>. HIDE DEF p
    <3>. QED  BY <3>1, ElementOfSeq DEF Ops, OpRecord
  <2>. HIDE DEF p, q, n
  <2>. SUFFICES ASSUME NEW i \in DOMAIN q, q[i].op = "registered"
                PROVE  \/ \E j \in DOMAIN q : j < i /\ q[j] = Attach(q[i].a, q[i].s)
                       \/ /\ sct'[q[i].a] # None
                          /\ \A j \in DOMAIN q : q[j].op \in {"status", "local", "registered", "announce", "connect"}
    BY DEF Successful, q, Attach, Op
  <2>3. PICK m \in DOMAIN p : m > 1 /\ i = m + n - 1 /\ q[i] = p[m]
    BY <2>1
  <2>4. \/ \E j \in DOMAIN p : j < m /\ p[j] = Attach(p[m].a, p[m].s)
        \/ /\ sct[p[m].a] # None
           /\ \A j \in DOMAIN p : p[j].op \in {"status", "local", "registered", "announce", "connect"}
    BY <2>3 DEF Successful, p
  <2>5. ASSUME NEW j \in DOMAIN p, j < m, p[j] = Attach(p[m].a, p[m].s)
        PROVE  \E l \in DOMAIN q : l < i /\ q[l] = Attach(q[i].a, q[i].s)
    <3>1. p[j].op = "attach"
      BY <2>5 DEF Attach, Op
    <3>2. j > 1
      BY <1>2, <2>1, <3>1 DEF p
    <3>3. j + n - 1 \in DOMAIN q /\ q[j + n - 1] = p[j] /\ j + n - 1 < i
      BY <2>1, <2>3, <2>5, <3>2
    <3>. QED  BY <2>3, <2>5, <3>3
  <2>6. ASSUME sct[p[m].a] # None,
               \A j \in DOMAIN p : p[j].op \in {"status", "local", "registered", "announce", "connect"}
        PROVE  /\ sct'[q[i].a] # None
               /\ \A j \in DOMAIN q : q[j].op \in {"status", "local", "registered", "announce", "connect"}
    <3>1. p[1].op \in {"status", "local", "registered", "announce", "connect"}
      BY <1>2, <2>6 DEF p
    <3>2. \A j \in DOMAIN ops : ops[j].op \in {"status", "local", "registered", "announce", "connect"}
      BY <1>2, <3>1 DEF p
    <3>3. sct'[p[m].a] # None
      BY <1>2, <2>2, <2>6, <3>1 DEF p
    <3>. QED  BY <2>1, <2>3, <2>6, <3>2, <3>3
  <2>. QED  BY <2>4, <2>5, <2>6
<1>. QED  BY <1>1, <1>2

\* What was posted to the sender thread is still to be done in the same order.
LEMMA WrittenFirstStep ==
  ASSUME Types, WrittenFirst,
         \A s \in Socket : sock'[s] = "deleted" =>
            \/ sock[s] = "deleted"
            \/ \A i \in DOMAIN senderQueue' : senderQueue'[i].op = "write" => senderQueue'[i].s # s,
         \/ senderQueue' = senderQueue
         \/ senderQueue # <<>> /\ senderQueue' = Tail(senderQueue)
         \/ \E j \in Jobs :
               /\ senderQueue' = Append(senderQueue, j)
               /\ j.op = "write" => sock'[j.s] # "deleted" /\ ~ Deleting(j.s)
  PROVE  WrittenFirst'
<1>1. senderQueue \in Seq(Jobs)
  BY DEF Types
<1>2. CASE senderQueue' = senderQueue \/ (senderQueue # <<>> /\ senderQueue' = Tail(senderQueue))
  <2>1. PICK d \in {0, 1} : \A i \in DOMAIN senderQueue' :
           i \in Int /\ i + d \in DOMAIN senderQueue /\ senderQueue'[i] = senderQueue[i + d]
    <3>1. CASE senderQueue' = senderQueue
      <4>1. 0 \in {0, 1} /\ DOMAIN senderQueue = 1 .. Len(senderQueue) /\ Len(senderQueue) \in Nat
        BY <1>1, LenProperties
      <4>. QED  BY <3>1, <4>1
    <3>2. CASE senderQueue # <<>> /\ senderQueue' = Tail(senderQueue)
      <4>1. 1 \in {0, 1}
        OBVIOUS
      <4>2. \A i \in DOMAIN senderQueue' : i \in Int /\
              i + 1 \in DOMAIN senderQueue /\ senderQueue'[i] = senderQueue[i + 1]
        BY <1>1, <3>2, TailOf
      <4>. QED  BY <4>1, <4>2
    <3>. QED  BY <1>2, <3>1, <3>2
  <2>. SUFFICES ASSUME NEW i \in DOMAIN senderQueue', senderQueue'[i].op = "write"
                PROVE  /\ sock'[senderQueue'[i].s] # "deleted"
                       /\ \A j \in DOMAIN senderQueue' :
                             j < i => ~ DeletionOf(senderQueue'[j], senderQueue'[i].s)
    BY DEF WrittenFirst, DeletionOf
  <2>2. i + d \in DOMAIN senderQueue /\ senderQueue'[i] = senderQueue[i + d]
    BY <2>1
  <2>3. senderQueue[i + d].s \in Socket
    <3>1. senderQueue[i + d] \in Jobs
      BY <1>1, <2>2, ElementOfSeq
    <3>. QED  BY <2>2, <3>1 DEF Jobs, JobOK
  <2>4. \A j \in DOMAIN senderQueue' : j < i => j + d < i + d
    BY <2>1
  <2>. QED  BY <2>1, <2>2, <2>3, <2>4 DEF WrittenFirst
<1>3. ASSUME NEW j \in Jobs, senderQueue' = Append(senderQueue, j),
             j.op = "write" => sock'[j.s] # "deleted" /\ ~ Deleting(j.s)
      PROVE  WrittenFirst'
  <2>1. /\ Len(senderQueue) \in Nat /\ DOMAIN senderQueue = 1 .. Len(senderQueue)
        /\ DOMAIN senderQueue' = 1 .. Len(senderQueue) + 1
        /\ \A i \in DOMAIN senderQueue : senderQueue'[i] = senderQueue[i]
        /\ senderQueue'[Len(senderQueue) + 1] = j
    BY <1>1, <1>3, AppendOf
  <2>2. \A i \in DOMAIN senderQueue' : i \in DOMAIN senderQueue \/ i = Len(senderQueue) + 1
    <3>1. \A n \in Nat : \A i \in 1 .. n + 1 : i \in 1 .. n \/ i = n + 1
      OBVIOUS
    <3>. QED  BY <2>1, <3>1
  <2>5. \A i, m \in DOMAIN senderQueue' : m < i => m \in DOMAIN senderQueue
    <3>1. \A n \in Nat : \A i, m \in 1 .. n + 1 : m < i => m \in 1 .. n
      OBVIOUS
    <3>. QED  BY <2>1, <3>1
  <2>. SUFFICES ASSUME NEW i \in DOMAIN senderQueue', senderQueue'[i].op = "write"
                PROVE  /\ sock'[senderQueue'[i].s] # "deleted"
                       /\ \A m \in DOMAIN senderQueue' :
                             m < i => ~ DeletionOf(senderQueue'[m], senderQueue'[i].s)
    BY DEF WrittenFirst, DeletionOf
  <2>3. CASE i \in DOMAIN senderQueue
    <3>1. senderQueue[i] \in Jobs
      BY <1>1, <2>3, ElementOfSeq
    <3>2. senderQueue[i].s \in Socket /\ senderQueue'[i] = senderQueue[i]
      BY <2>1, <2>3, <3>1 DEF Jobs, JobOK
    <3>. QED  BY <2>1, <2>3, <2>5, <3>2 DEF WrittenFirst
  <2>4. CASE i = Len(senderQueue) + 1
    BY <1>3, <2>1, <2>4, <2>5 DEF Deleting, DeletionOf
  <2>. QED  BY <2>2, <2>3, <2>4
<1>. QED  BY <1>2, <1>3

LEMMA AccessUnfreed ==
  ASSUME Turns, Types, Life, Order, Unfreed, NEW t \in Thread, Access(t)
  PROVE  Unfreed'
<1>. USE SenderIsThread
<1>. DEFINE o == program[t][1]
<1>1. /\ o \in Ops /\ o.a \in Address /\ o.s \in Socket \cup {None} /\ OpOK(o)
      /\ 1 \in DOMAIN program[t]
  BY AccessPops
<1>2. PICK ops \in Seq(Ops) : Pops(t, ops, 1) /\ Follows(o, ops)
  BY AccessPops
<1>3. Effect(o)
  BY AccessEffect
<1>4. Turn(t, ops)
  BY <1>2, AccessTurn
<1>5. \A i \in DOMAIN ops : Common(ops[i])
  BY <1>1, <1>2, FollowsOps
<1>6. /\ sock' = sock
      /\ \A a \in Address :
            sct'[a] = IF o.op = "null" /\ a = o.a THEN None
                      ELSE IF o.op = "attach" /\ a = o.a THEN o.s ELSE sct[a]
  BY <1>1, <1>3 DEF Effect, Types, FieldTypes
<1>7. /\ o.op = "drop" => sock[o.s] # "deleted" /\ ~ Deleting(o.s) /\ o.s \in Socket
      /\ o.op = "write" => sct[o.a] = o.s /\ o.s \in Socket
  BY <1>1 DEF Unfreed, Droppable, Writable, OpOK
<1>8. \A a \in Address : sct[a] # None =>
         sct[a] \in Socket /\ sock[sct[a]] # "deleted" /\ ~ Deleting(sct[a])
  BY DEF Life, Pointed, Unpointed, Deleting, Types, FieldTypes
<1>9. o.op = "write" => sock[o.s] # "deleted" /\ ~ Deleting(o.s)
  BY <1>1, <1>7, <1>8, NoneApart
<1>10. ~ freed'
  BY <1>3, <1>7, <1>9 DEF Effect, Unfreed
<1>11. \/ senderQueue' = senderQueue
       \/ o.op = "drop" /\ senderQueue' = Append(senderQueue, Op("deleteLater", None, o.s))
       \/ o.op = "write" /\ senderQueue' = Append(senderQueue, o)
  BY <1>3 DEF Effect
<1>12. /\ o.op = "drop" => Op("deleteLater", None, o.s) \in Jobs
                          /\ Op("deleteLater", None, o.s).op = "deleteLater"
                          /\ Op("deleteLater", None, o.s).s = o.s
       /\ o.op = "write" => o \in Jobs
  BY <1>1, <1>7 DEF Op, OpOK, Ops, OpRecord, Jobs, JobRecord, JobOK
<1>13. WrittenFirst'
  <2>1. \/ senderQueue' = senderQueue
        \/ \E j \in Jobs : /\ senderQueue' = Append(senderQueue, j)
                           /\ j.op = "write" => sock'[j.s] # "deleted" /\ ~ Deleting(j.s)
    BY <1>6, <1>9, <1>11, <1>12
  <2>2. WrittenFirst
    BY DEF Unfreed
  <2>. HIDE DEF o
  <2>. QED  BY <1>6, <2>1, <2>2, WrittenFirstStep
\* nobody but the thread that drops a socket knows it
<1>14. \A j \in DOMAIN program[t] : j > 1 /\ program[t][j].op = "drop" =>
          program[t][1] = Null(program[t][j].a, program[t][j].s)
  BY <1>1 DEF Life, Dropped
<1>15. \A i \in DOMAIN ops : ops[i].op = "drop" => o.op = "take" /\ sct[o.a] # None /\ ops[i].s = sct[o.a]
  <2>1. CASE o.op = "take" /\ sct[o.a] # None
    <3>1. ops = <<>> \/ ops = <<Null(o.a, sct[o.a]), Drop(o.a, sct[o.a]), SetStatus(o.a, "NotConnected")>>
      BY <1>2, <2>1 DEF Follows
    <3>. QED  BY <2>1, <3>1 DEF Null, Drop, SetStatus, Op, OpValue
  <2>2. CASE ~ (o.op = "take" /\ sct[o.a] # None)
    <3>. HIDE DEF o
    <3>1. \/ ops = <<>> \/ ops = <<SetStatus(o.a, "Connected")>>
          \/ ops = <<SetStatus(o.a, "Confirmed")>> \/ ops = <<Take(o.a)>> \/ ops = <<Send(o.a)>>
          \/ ops = <<Write(o.a, sct[o.a])>> \/ ops = <<SetTrust(o.a, Baned)>> \/ ops = <<Ban(o.a)>>
          \/ \E v \in Int : ops = <<SetTrust(o.a, v)>> \/ ops = <<SetTrust(o.a, v), Send(o.a)>>
      BY <1>2, <2>2 DEF Follows
    <3>2. \A i \in DOMAIN ops : ops[i].op # "drop"
      BY <3>1 DEF SetStatus, Take, Send, Write, SetTrust, Ban, Op, OpValue
    <3>. QED  BY <3>2
  <2>. QED  BY <2>1, <2>2
<1>16. \A i \in DOMAIN ops : ops[i].op = "write" => i = 1 /\ ops[i].s = sct[ops[i].a] /\ o.op = "send"
  <2>1. CASE o.op = "take" /\ sct[o.a] # None
    <3>1. ops = <<>> \/ ops = <<Null(o.a, sct[o.a]), Drop(o.a, sct[o.a]), SetStatus(o.a, "NotConnected")>>
      BY <1>2, <2>1 DEF Follows
    <3>. QED  BY <3>1 DEF Null, Drop, SetStatus, Op, OpValue
  <2>2. CASE o.op = "send"
    <3>1. ops = <<>> \/ ops = <<Write(o.a, sct[o.a])>>
      BY <1>2, <2>2 DEF Follows
    <3>. QED  BY <2>2, <3>1 DEF Write, Op
  <2>3. CASE o.op # "send" /\ ~ (o.op = "take" /\ sct[o.a] # None)
    <3>. HIDE DEF o
    <3>1. \/ ops = <<>> \/ ops = <<SetStatus(o.a, "Connected")>>
          \/ ops = <<SetStatus(o.a, "Confirmed")>> \/ ops = <<Take(o.a)>> \/ ops = <<Send(o.a)>>
          \/ ops = <<SetTrust(o.a, Baned)>> \/ ops = <<Ban(o.a)>>
          \/ \E v \in Int : ops = <<SetTrust(o.a, v)>> \/ ops = <<SetTrust(o.a, v), Send(o.a)>>
      BY <1>2, <2>3 DEF Follows
    <3>2. \A i \in DOMAIN ops : ops[i].op # "write"
      BY <3>1 DEF SetStatus, Take, Send, SetTrust, Ban, Op, OpValue
    <3>. QED  BY <3>2
  <2>. QED  BY <2>1, <2>2, <2>3
<1>17. \A s : Deleting(s)' => Deleting(s) \/ (o.op = "drop" /\ s = o.s)
  <2>1. CASE o.op # "drop"
    <3>1. \A i \in DOMAIN senderQueue' : senderQueue'[i].op \in {"delete", "deleteLater"} =>
             i \in DOMAIN senderQueue /\ senderQueue'[i] = senderQueue[i]
      <4>1. senderQueue \in Seq(Jobs)
        BY DEF Types
      <4>. HIDE DEF o
      <4>. QED  BY <1>11, <1>12, <2>1, <4>1, AppendOf
    <3>. QED  BY <3>1 DEF Deleting
  <2>2. CASE o.op = "drop"
    <3>. DEFINE j == Op("deleteLater", None, o.s)
    <3>1. j \in Jobs /\ j.s = o.s
      BY <1>12, <2>2
    <3>2. senderQueue \in Seq(Jobs) /\ (senderQueue' = senderQueue \/ senderQueue' = Append(senderQueue, j))
      BY <1>11, <2>2 DEF Types
    <3>. HIDE DEF j
    <3>3. CASE senderQueue' = senderQueue
      BY <3>3 DEF Deleting
    <3>4. CASE senderQueue' = Append(senderQueue, j)
      <4>1. \A i \in DOMAIN senderQueue' :
               \/ i \in DOMAIN senderQueue /\ senderQueue'[i] = senderQueue[i]
               \/ senderQueue'[i] = j
        BY <3>1, <3>2, <3>4, AppendOf
      <4>. QED  BY <2>2, <3>1, <4>1 DEF Deleting
    <3>. QED  BY <3>2, <3>3, <3>4
  <2>. QED  BY <2>1, <2>2
\* so a drop that is left is one of another socket, or follows what was read
<1>18. Droppable'
  <2>. SUFFICES ASSUME NEW u \in Thread, NEW i \in DOMAIN program'[u], program'[u][i].op = "drop",
                       NEW s, s = program'[u][i].s
                PROVE  sock[s] # "deleted" /\ ~ Deleting(s)'
    BY <1>6 DEF Droppable, Deleting
  <2>1. u = t
    BY <1>4 DEF Turn
  <2>2. \/ i \in DOMAIN ops /\ program'[t][i] = ops[i]
        \/ \E j \in DOMAIN program[t] : j > 1 /\ program'[t][i] = program[t][j]
    BY <1>4, <2>1 DEF Turn
  <2>3. CASE i \in DOMAIN ops /\ program'[t][i] = ops[i]
    <3>1. o.op = "take" /\ sct[o.a] # None /\ s = sct[o.a]
      BY <1>15, <2>1, <2>3
    <3>. QED  BY <1>1, <1>8, <1>17, <3>1
  <2>4. ASSUME NEW j \in DOMAIN program[t], j > 1, program'[t][i] = program[t][j]
        PROVE  sock[s] # "deleted" /\ ~ Deleting(s)'
    <3>1. sock[program[t][j].s] # "deleted" /\ ~ Deleting(program[t][j].s)
      BY <2>1, <2>4 DEF Unfreed, Droppable
    <3>2. o.op = "null"
      <4>1. o = Null(program[t][j].a, program[t][j].s)
        BY <1>14, <2>1, <2>4
      <4>. QED  BY <4>1 DEF Null, Op
    <3>. QED  BY <1>17, <2>1, <2>4, <3>1, <3>2
  <2>. QED  BY <2>2, <2>3, <2>4
<1>19. Writable'
  <2>. SUFFICES ASSUME NEW u \in Thread, NEW i \in DOMAIN program'[u], program'[u][i].op = "write"
                PROVE  i = 1 /\ sct'[program'[u][i].a] = program'[u][i].s
    BY DEF Writable
  <2>1. u = t
    BY <1>4 DEF Turn
  <2>2. \A j \in DOMAIN program[t] : program[t][j].op = "write" => j = 1
    BY DEF Unfreed, Writable
  <2>3. i \in DOMAIN ops /\ program'[t][i] = ops[i]
    BY <1>4, <2>1, <2>2 DEF Turn
  <2>4. ops[i] \in Ops /\ ops[i].a \in Address
    BY <2>3, ElementOfSeq DEF Ops, OpRecord
  <2>. QED  BY <1>6, <1>16, <2>1, <2>3, <2>4
<1>20. Successful'
  <2>1. CASE o.op = "attach"
    <3>1. CASE t # "sender"
      BY <1>4, <3>1 DEF Successful, Turn
    <3>2. CASE t = "sender"
      <4>. DEFINE p == program["sender"]
                  q == program'["sender"]
                  n == Len(ops)
      <4>1. /\ \A j \in DOMAIN p : j \in Int /\ j >= 1
            /\ \A j \in DOMAIN p : j > 1 => j + n - 1 \in DOMAIN q /\ q[j + n - 1] = p[j]
            /\ \A i \in DOMAIN q : \/ i \in DOMAIN ops /\ q[i] = ops[i]
                                   \/ \E j \in DOMAIN p : j > 1 /\ i = j + n - 1 /\ q[i] = p[j]
            /\ n \in Nat
        BY <1>4, <3>2 DEF Turn
      <4>2. \A i \in DOMAIN ops : ops[i].op = "status"
        BY <1>2, <2>1 DEF Follows, SetStatus, OpValue
      <4>3. \A i \in DOMAIN p : p[i] \in Ops /\ p[i].a \in Address /\ OpOK(p[i])
        <5>1. p \in Seq(Ops)
          BY DEF Types
        <5>. HIDE DEF p
        <5>. QED  BY <5>1, ElementOfSeq DEF Ops, OpRecord
      <4>4. o = p[1] /\ 1 \in DOMAIN p
        BY <1>1, <3>2
      <4>5. o.s # None => \A j \in DOMAIN p : j > 1 =>
               p[j].op \in {"local", "registered", "announce", "connect"}
        BY <2>1, <4>4 DEF Order, Ending
      <4>6. \A i \in DOMAIN p : p[i].op = "registered" =>
              \E j \in DOMAIN p : j < i /\ p[j] = Attach(p[i].a, p[i].s)
        BY <2>1, <4>4 DEF Unfreed, Successful
      <4>. HIDE DEF p, q, n, o
      <4>. SUFFICES ASSUME NEW i \in DOMAIN q, q[i].op = "registered"
                    PROVE  \/ \E j \in DOMAIN q : j < i /\ q[j] = Attach(q[i].a, q[i].s)
                           \/ /\ sct'[q[i].a] # None
                              /\ \A j \in DOMAIN q :
                                    q[j].op \in {"status", "local", "registered", "announce", "connect"}
        BY DEF Successful, q, Attach, Op
      <4>7. PICK m \in DOMAIN p : m > 1 /\ i = m + n - 1 /\ q[i] = p[m]
        BY <4>1, <4>2
      <4>8. PICK j \in DOMAIN p : j < m /\ p[j] = Attach(p[m].a, p[m].s)
        BY <4>6, <4>7
      <4>9. CASE j > 1
        <5>1. j + n - 1 \in DOMAIN q /\ q[j + n - 1] = p[j] /\ j + n - 1 < i
          BY <4>1, <4>7, <4>8, <4>9
        <5>. QED  BY <4>7, <4>8, <5>1
      <4>10. CASE j = 1
        <5>1. o.a = p[m].a /\ o.s = p[m].s /\ p[m].s \in Socket
          BY <4>3, <4>4, <4>7, <4>8, <4>10 DEF Attach, Op, OpOK
        <5>2. sct'[q[i].a] = o.s /\ o.s # None
          BY <1>6, <2>1, <4>3, <4>7, <5>1, NoneApart
        <5>. QED  BY <4>1, <4>2, <4>5, <5>2
      <4>. QED  BY <4>1, <4>8, <4>9, <4>10
    <3>. QED  BY <3>1, <3>2
  <2>2. CASE o.op # "attach"
    <3>. DEFINE Ends == {"status", "local", "registered", "announce", "connect"}
    <3>1. \A i \in DOMAIN ops : ops[i].op # "registered"
      BY <1>5 DEF Common
    <3>2. t = "sender" => \/ o.op \in Ends /\ \A i \in DOMAIN ops : ops[i].op \in Ends
                          \/ o.op \notin Ends \cup {"attach"}
      <4>1. o.op \in {"status", "local"} => DOMAIN ops = {}
        BY <1>2 DEF Follows
      <4>2. o.op \notin {"registered", "announce", "connect"}
        BY <1>2 DEF Follows
      <4>. QED  BY <2>2, <4>1, <4>2
    <3>3. \A a \in Address : sct[a] # None => sct'[a] # None \/ o.op \notin Ends
      BY <1>6, <2>2
    <3>4. Successful
      BY DEF Unfreed
    <3>. QED  BY <1>1, <1>4, <2>2, <3>1, <3>2, <3>3, <3>4, SuccessfulStep
  <2>. QED  BY <2>1, <2>2
<1>. QED  BY <1>10, <1>13, <1>18, <1>19, <1>20 DEF Unfreed

\* What a step of registerSocket does to the infos and the sockets.
Registers(o) ==
    \/ /\ o.op = "create" /\ o.s \in Socket
       /\ sct' = [sct EXCEPT ![o.a] = o.s]
       /\ status' = [status EXCEPT ![o.a] =
                        IF sock[o.s] = "open" THEN "Connected" ELSE "NotConnected"]
       /\ peerOf' = [peerOf EXCEPT ![o.s] = o.a] /\ wired' = wired \cup {o.s} /\ sock' = sock
    \/ /\ o.op = "connect" /\ o.s \in Socket
       /\ sock' = [sock EXCEPT ![o.s] = "connecting"] /\ UNCHANGED <<sct, status, peerOf, wired>>
    \/ /\ o.op \in {"announce", "registered"}
       /\ UNCHANGED <<sct, status, sock, peerOf, wired>>

\* With calls in turns a registration that has got as far as its last part succeeds.
LEMMA RegisterTurn ==
  ASSUME Turns, Types, Order, Unfreed, Register, NEW o, o = program["sender"][1]
  PROVE  /\ 1 \in DOMAIN program["sender"] /\ o \in Ops /\ OpOK(o) /\ o.a \in Address
         /\ Registers(o) /\ freed' = freed /\ senderQueue' = senderQueue
         /\ Turn("sender", <<>>) /\ DOMAIN <<>> = {}
<1>. USE SenderIsThread
<1>. DEFINE p == program["sender"]
<1>1. p # <<>> /\ 1 \in DOMAIN p /\ Head(p) = o /\ o \in Ops /\ OpOK(o) /\ o.a \in Address
  <2>1. p # <<>>
    BY DEF Register, DoCreate, DoAnnounce, DoRegistered, DoConnect, At
  <2>2. 1 \in DOMAIN p /\ o \in Ops /\ Head(p) = o
    BY <2>1, TailOf DEF Types
  <2>. QED  BY <2>1, <2>2 DEF Ops, OpRecord
<1>2. o.op \in {"connect", "create", "registered"} => o.s \in Socket
  BY <1>1 DEF OpOK
<1>3. Continue("sender", <<>>) /\ freed' = freed /\ senderQueue' = senderQueue /\ Registers(o)
  <2>1. CASE DoCreate
    BY <1>1, <1>2, <2>1 DEF DoCreate, At, queues, Registers
  <2>2. CASE DoAnnounce
    BY <1>1, <2>2 DEF DoAnnounce, At, sockets, Registers
  <2>3. CASE DoConnect
    BY <1>1, <1>2, <2>3 DEF DoConnect, At, queues, info, Registers
  <2>4. CASE DoRegistered
    <3>1. o.op = "registered"
      BY <1>1, <2>4 DEF DoRegistered, At
    <3>2. \A j \in DOMAIN p : ~ (j < 1)
      BY LenProperties DEF Types
    <3>3. sct[o.a] # None
      BY <1>1, <3>1, <3>2 DEF Unfreed, Successful
    <3>. QED  BY <1>1, <2>4, <3>1, <3>3 DEF DoRegistered, queues, info, Registers
  <2>. QED  BY <2>1, <2>2, <2>3, <2>4 DEF Register
<1>4. Turn("sender", <<>>) /\ DOMAIN <<>> = {}
  <2>1. <<>> \in Seq(Ops) /\ DOMAIN <<>> = {}
    OBVIOUS
  <2>2. Pops("sender", <<>>, 1)
    BY <1>1, <1>3, <2>1, ContinuePops
  <2>. QED  BY <2>1, <2>2, AccessTurn
<1>. QED  BY <1>1, <1>3, <1>4

LEMMA RegisterUnfreed ==
  ASSUME Turns, Types, Life, Order, Unfreed, Register
  PROVE  Unfreed'
<1>. USE SenderIsThread
<1>. DEFINE p == program["sender"]
            q == program'["sender"]
            o == p[1]
            Ends == {"status", "local", "registered", "announce", "connect"}
<1>1. /\ 1 \in DOMAIN p /\ o \in Ops /\ OpOK(o) /\ o.a \in Address
      /\ Registers(o) /\ freed' = freed /\ senderQueue' = senderQueue
  BY RegisterTurn
<1>2. o.op \in {"create", "announce", "registered", "connect"}
  BY <1>1 DEF Registers
<1>3. /\ \A s \in Socket : sock'[s] = "deleted" => sock[s] = "deleted"
      /\ \A a \in Address : sct[a] # None => sct'[a] # None
  BY <1>1, NoneApart DEF Registers, Types, FieldTypes
<1>4. Turn("sender", <<>>) /\ DOMAIN <<>> = {}
  BY RegisterTurn
<1>5. \A u \in Thread : \A i \in DOMAIN program'[u] :
         u = "sender" /\ \E j \in DOMAIN p : j > 1 /\ program'[u][i] = p[j]
  BY <1>4 DEF Turn
<1>6. \A j \in DOMAIN p : j > 1 => p[j].op \notin {"drop", "write"}
  <2>1. ASSUME NEW j \in DOMAIN p, j > 1, p[j].op = "drop" PROVE FALSE
    <3>1. o = Null(p[j].a, p[j].s)
      BY <1>1, <2>1 DEF Life, Dropped
    <3>2. o.op = "null"
      BY <3>1 DEF Null, Op
    <3>. QED  BY <1>2, <3>2
  <2>. QED  BY <2>1 DEF Unfreed, Writable
<1>7. Droppable' /\ Writable'
  BY <1>5, <1>6 DEF Droppable, Writable
<1>8. WrittenFirst'
  BY <1>1, <1>3, WrittenFirstStep DEF Unfreed
<1>9. Successful'
  <2>1. \A i \in DOMAIN <<>> : <<>>[i].op # "registered" /\ <<>>[i].op \in Ends
    BY <1>4
  <2>2. o.op \in Ends \/ o.op \notin Ends \cup {"attach"}
    BY <1>2
  <2>3. o.op # "attach" /\ Successful
    BY <1>2 DEF Unfreed
  <2>. QED  BY <1>1, <1>3, <1>4, <2>1, <2>2, <2>3, SuccessfulStep
<1>. QED  BY <1>1, <1>7, <1>8, <1>9 DEF Unfreed

\* A thread begins something when all are idle.
LEMMA BeginUnfreed ==
  ASSUME Turns, Types, Unfreed, NEW t \in Thread, MayStart(t), NEW ops, Start(t, ops),
         UNCHANGED <<sct, freed>>, WrittenFirst',
         \A i \in DOMAIN ops : ops[i].op \notin {"drop", "write"},
         \A i \in DOMAIN ops : ops[i].op = "registered" =>
            t # "sender"
              \/ \E j \in DOMAIN ops : j < i /\ ops[j] = Attach(ops[i].a, ops[i].s)
  PROVE  Unfreed'
<1>. USE SenderIsThread
<1>1. \A u \in Thread : program[u] = <<>>
  BY DEF MayStart, Turns, Idle
<1>2. program'[t] = ops /\ \A u \in Thread \ {t} : program'[u] = <<>> /\ DOMAIN program'[u] = {}
  <2>1. DOMAIN <<>> = {}
    OBVIOUS
  <2>. QED  BY <1>1, <2>1 DEF Start, Types
<1>3. Droppable' /\ Writable'
  BY <1>2 DEF Droppable, Writable
<1>4. Successful'
  <2>1. CASE t = "sender"
    BY <1>2, <2>1 DEF Successful, Attach, Op
  <2>2. CASE t # "sender"
    BY <1>2, <2>2 DEF Successful
  <2>. QED  BY <2>1, <2>2
<1>. QED  BY <1>3, <1>4 DEF Unfreed

\* A step that begins nothing when the sender thread runs no program.
LEMMA SameUnfreed ==
  ASSUME Turns, Types, Unfreed, MayStart("sender"), program' = program,
         freed' = FALSE, WrittenFirst'
  PROVE  Unfreed'
<1>1. DOMAIN <<>> = {} /\ \A u \in Thread : program[u] = <<>>
  BY SenderIsThread DEF MayStart, Turns, Idle
<1>2. \A u \in Thread : DOMAIN program'[u] = {}
  BY <1>1
<1>. QED  BY <1>2, SenderIsThread DEF Unfreed, Droppable, Writable, Successful

LEMMA SenderUnfreed ==
  ASSUME Turns, Types, Life, Unfreed, Sender
  PROVE  Unfreed'
<1>. USE SenderIsThread
<1>. DEFINE j == senderQueue[1]
<1>1. senderQueue # <<>> /\ UNCHANGED sct /\ MayStart("sender")
  BY DEF Sender, Job, AddNodeJob, IncomingTcpJob, WriteJob, DisconnectedJob, DeleteJob, info
<1>2. /\ j \in Jobs /\ Head(senderQueue) = j /\ j \in JobRecord /\ JobOK(j) /\ 1 \in DOMAIN senderQueue
      /\ \A i \in DOMAIN Tail(senderQueue) :
            /\ i \in Int /\ i + 1 \in DOMAIN senderQueue /\ 1 < i + 1
            /\ Tail(senderQueue)[i] = senderQueue[i + 1]
  BY <1>1, TailOf DEF Types, Jobs
<1>3. WrittenFirst /\ ~ freed
  BY DEF Unfreed
<1>4. CASE AddNodeJob \/ IncomingTcpJob
  <2>1. /\ senderQueue' = Tail(senderQueue) /\ j.a \in Address /\ freed' = freed
        /\ \E s \in Socket, b \in BOOLEAN, ops \in Seq(Ops) : TakesSocket(j, s, b, ops)
    BY <1>4, TakeSocketJobs
  <2>2. PICK s \in Socket, b \in BOOLEAN, ops \in Seq(Ops) : TakesSocket(j, s, b, ops)
    BY <2>1
  <2>. HIDE DEF j
  <2>3. \A x \in Socket : sock'[x] = "deleted" => x = s \/ sock[x] = "deleted"
    BY <2>2 DEF TakesSocket, Types, FieldTypes
  <2>4. \A i \in DOMAIN senderQueue' : senderQueue'[i].s # s
    BY <1>2, <2>1, <2>2 DEF TakesSocket, Life, Untouched
  <2>5. WrittenFirst'
    BY <1>1, <1>3, <2>1, <2>3, <2>4, WrittenFirstStep
  <2>6. /\ \A i \in DOMAIN ops : ops[i].op \notin {"drop", "write"}
        /\ \A i \in DOMAIN ops : ops[i].op = "registered" =>
              \E l \in DOMAIN ops : l < i /\ ops[l] = Attach(ops[i].a, ops[i].s)
    <3>1. \/ ops = <<>>
          \/ ops = <<Create(j.a, s, b), Announce(j.a)>>
          \/ ops = <<Create(j.a, s, b), Announce(j.a), Op("connect", j.a, s)>>
          \/ ops = <<Take(j.a), Attach(j.a, s), SetLocal(j.a, b), Registered(j.a, s)>>
          \/ ops = <<Take(j.a), Attach(j.a, s), SetLocal(j.a, b), Registered(j.a, s),
                     Op("connect", j.a, s)>>
      BY <2>2 DEF TakesSocket, Registration
    <3>2. CASE \/ ops = <<>>
               \/ ops = <<Create(j.a, s, b), Announce(j.a)>>
               \/ ops = <<Create(j.a, s, b), Announce(j.a), Op("connect", j.a, s)>>
      BY <3>2 DEF Create, Announce, Op
    <3>3. CASE \/ ops = <<Take(j.a), Attach(j.a, s), SetLocal(j.a, b), Registered(j.a, s)>>
               \/ ops = <<Take(j.a), Attach(j.a, s), SetLocal(j.a, b), Registered(j.a, s),
                          Op("connect", j.a, s)>>
      <4>1. 2 \in DOMAIN ops /\ ops[2] = Attach(j.a, s) /\ 4 \in DOMAIN ops /\ ops[4] = Registered(j.a, s)
        BY <3>3
      <4>2. \A i \in DOMAIN ops : /\ ops[i].op \notin {"drop", "write"}
                                  /\ ops[i].op = "registered" => i = 4
        BY <3>3 DEF Take, Attach, SetLocal, Registered, Op, OpValue
      <4>3. ops[4].a = j.a /\ ops[4].s = s
        BY <4>1 DEF Registered, Op
      <4>. QED  BY <4>1, <4>2, <4>3
    <3>. QED  BY <3>1, <3>2, <3>3
  <2>7. Start("sender", ops)
    BY <2>2 DEF TakesSocket
  <2>. QED  BY <1>1, <2>1, <2>5, <2>6, <2>7, BeginUnfreed
<1>5. CASE WriteJob
  <2>1. program' = program /\ senderQueue' = Tail(senderQueue) /\ sock' = sock /\ j.op = "write"
        /\ freed' = (freed \/ sock[j.s] = "deleted")
    BY <1>2, <1>5 DEF WriteJob, Job
  <2>2. freed' = FALSE
    BY <1>2, <1>3, <2>1 DEF WrittenFirst
  <2>3. WrittenFirst'
    BY <1>1, <1>3, <2>1, WrittenFirstStep
  <2>. QED  BY <1>1, <2>1, <2>2, <2>3, SameUnfreed
<1>6. CASE DisconnectedJob
  <2>. DEFINE ops == <<Take(j.a)>>
  <2>1. senderQueue' = Tail(senderQueue) /\ UNCHANGED <<sock, freed>> /\ Start("sender", ops)
    BY <1>2, <1>6 DEF DisconnectedJob, RemoveSocket, sockets
  <2>2. \A i \in DOMAIN ops : ops[i].op = "take"
    BY DEF Take, Op
  <2>. HIDE DEF ops, j
  <2>3. WrittenFirst'
    BY <1>1, <1>3, <2>1, WrittenFirstStep
  <2>. QED  BY <1>1, <2>1, <2>2, <2>3, BeginUnfreed
<1>7. CASE DeleteJob
  <2>1. program' = program /\ freed' = FALSE /\ DeletionOf(j, j.s) /\ j.s \in Socket
    BY <1>2, <1>3, <1>7 DEF DeleteJob, Job, DeletionOf, JobOK
  <2>2. \A i \in DOMAIN Tail(senderQueue) : Tail(senderQueue)[i].op = "write" =>
           Tail(senderQueue)[i].s # j.s
    BY <1>2, <1>3, <2>1 DEF WrittenFirst
  <2>3. CASE senderQueue' = Tail(senderQueue) /\ sock' = [sock EXCEPT ![j.s] = "deleted"]
    <3>1. \A x \in Socket : sock'[x] = "deleted" => x = j.s \/ sock[x] = "deleted"
      BY <2>3 DEF Types, FieldTypes
    <3>. HIDE DEF j
    <3>2. WrittenFirst'
      BY <1>1, <1>3, <2>2, <2>3, <3>1, WrittenFirstStep
    <3>. QED  BY <1>1, <2>1, <3>2, SameUnfreed
  <2>4. CASE senderQueue' = Append(Tail(senderQueue), Op("delete", None, j.s)) /\ sock' = sock
    <3>. DEFINE d == Op("delete", None, j.s)
                r == Tail(senderQueue)
    <3>1. d \in Jobs /\ d.op = "delete" /\ d.s = j.s
      BY <1>2, <2>1 DEF Jobs, JobRecord, JobOK, Op
    <3>2. r \in Seq(Jobs)
      BY <1>1, TailOf DEF Types
    <3>9. \A i \in DOMAIN r :
            /\ i \in Int /\ i + 1 \in DOMAIN senderQueue /\ 1 < i + 1 /\ r[i] = senderQueue[i + 1]
      BY <1>2
    <3>. HIDE DEF d, r, j
    <3>3. /\ Len(r) \in Nat /\ DOMAIN r = 1 .. Len(r) /\ DOMAIN senderQueue' = 1 .. Len(r) + 1
          /\ \A i \in 1 .. Len(r) + 1 : senderQueue'[i] = IF i <= Len(r) THEN r[i] ELSE d
      BY <2>4, <3>1, <3>2, AppendOf DEF d, r
    <3>4. WrittenFirst'
      <4>. SUFFICES ASSUME NEW i \in DOMAIN senderQueue', senderQueue'[i].op = "write"
                    PROVE  /\ sock'[senderQueue'[i].s] # "deleted"
                           /\ \A m \in DOMAIN senderQueue' :
                                 m < i => ~ DeletionOf(senderQueue'[m], senderQueue'[i].s)
        BY DEF WrittenFirst, DeletionOf
      <4>1. i \in DOMAIN r /\ senderQueue'[i] = r[i]
        BY <3>1, <3>3
      <4>2. sock[r[i].s] # "deleted"
        BY <1>3, <3>9, <4>1 DEF WrittenFirst
      <4>3. ASSUME NEW m \in DOMAIN senderQueue', m < i
            PROVE  ~ DeletionOf(senderQueue'[m], senderQueue'[i].s)
        <5>1. m \in DOMAIN r /\ senderQueue'[m] = r[m]
          BY <3>3, <4>1, <4>3
        <5>2. m + 1 < i + 1
          BY <3>9, <4>1, <4>3, <5>1
        <5>. QED  BY <1>3, <3>9, <4>1, <5>1, <5>2 DEF WrittenFirst
      <4>. QED  BY <2>4, <4>1, <4>2, <4>3
    <3>. QED  BY <1>1, <2>1, <3>4, SameUnfreed
  <2>. QED  BY <1>2, <1>7, <2>3, <2>4 DEF DeleteJob
<1>. QED  BY <1>4, <1>5, <1>6, <1>7 DEF Sender

LEMMA SocketUnfreed ==
  ASSUME Turns, Types, Hearing, Unfreed, NEW s \in Socket,
         SocketConnects(s) \/ ConnectFails(s) \/ PeerCloses(s)
  PROVE  Unfreed'
<1>. USE SenderIsThread
<1>1. MayStart("sender") /\ UNCHANGED <<sct, freed>> /\ WrittenFirst /\ ~ freed
  BY DEF SocketConnects, ConnectFails, PeerCloses, info, Unfreed
<1>2. \A x \in Socket : sock'[x] = "deleted" => sock[x] = "deleted"
  BY DEF SocketConnects, ConnectFails, PeerCloses, Types, FieldTypes
<1>3. CASE SocketConnects(s)
  <2>1. PICK ops \in {<<>>, <<SetStatus(peerOf[s], "Connected")>>} : Start("sender", ops)
    BY <1>3 DEF SocketConnects
  <2>2. \A i \in DOMAIN ops : ops[i].op = "status"
    BY <2>1 DEF SetStatus, OpValue
  <2>3. senderQueue' = senderQueue
    BY <1>3 DEF SocketConnects, queues
  <2>4. WrittenFirst'
    BY <1>1, <1>2, <2>3, WrittenFirstStep
  <2>. QED  BY <1>1, <2>1, <2>2, <2>4, BeginUnfreed
<1>4. CASE ConnectFails(s) \/ PeerCloses(s)
  <2>. DEFINE j == Op("disconnected", peerOf[s], None)
  <2>1. /\ program' = program
        /\ \/ senderQueue' = senderQueue
           \/ s \in wired /\ senderQueue' = Append(senderQueue, j)
    BY <1>4 DEF ConnectFails, PeerCloses, queues
  <2>2. j.op = "disconnected" /\ (s \in wired => j \in Jobs)
    BY DEF Op, Jobs, JobRecord, JobOK, Hearing, WiredKnown, Types, FieldTypes
  <2>. HIDE DEF j
  <2>3. WrittenFirst'
    BY <1>1, <1>2, <2>1, <2>2, WrittenFirstStep
  <2>4. freed' = FALSE
    BY <1>1 DEF Types, FieldTypes
  <2>. QED  BY <1>1, <2>1, <2>3, <2>4, SameUnfreed
<1>. QED  BY <1>3, <1>4

LEMMA OthersUnfreed ==
  ASSUME Turns, Types, Unfreed, Main \/ Environment \/ Package
  PROVE  Unfreed'
<1>1. WrittenFirst /\ ~ freed
  BY DEF Unfreed
<1>2. CASE Main \/ Package \/ (\E a \in Address, op \in UserCall : Call(op, a))
  <2>1. PICK t \in Thread \ {"sender"}, ops \in Seq(Ops) :
           /\ MayStart(t) /\ Start(t, ops)
           /\ \/ \E a \in Address : ops = Reset(a)
              \/ \A i \in DOMAIN ops :
                    ops[i].op \in {"remove", "force", "ban", "unBan", "confirmable", "send",
                                   "readTrust", "requestTrust"}
    BY <1>2, MainBegins
  <2>2. UNCHANGED <<sct, sock, freed, senderQueue>>
    BY <1>2, MainBegins DEF sockets
  <2>3. \A i \in DOMAIN ops : ops[i].op \notin {"drop", "write"}
    <3>1. CASE \E a \in Address : ops = Reset(a)
      <4>1. PICK a \in Address : ops = Reset(a)
        BY <3>1
      <4>2. ops = <<Take(a), Attach(a, None), SetTrust(a, DefaultTrust),
                    SetStatus(a, "NotConnected"), SetLocal(a, FALSE)>>
        BY <4>1, ResetSteps
      <4>. QED  BY <4>2 DEF Take, Attach, SetTrust, SetStatus, SetLocal, Op, OpValue
    <3>. QED  BY <2>1, <3>1
  <2>4. WrittenFirst'
    BY <1>1, <2>2, WrittenFirstStep
  <2>. QED  BY <2>1, <2>2, <2>3, <2>4, BeginUnfreed
<1>3. CASE (\E a \in Local : AddNode(a)) \/ (\E a \in Remote : IncomingConnection(a))
  <2>1. UNCHANGED <<sct, sock, freed, program>> /\ MayStart("main")
    BY <1>3 DEF AddNode, IncomingConnection, info, sockets
  <2>2. MayStart("sender")
    BY <2>1 DEF MayStart, Turns
  <2>3. \A a \in Local : Op("addNode", a, None) \in Jobs /\ Op("addNode", a, None).op # "write"
    BY DEF Op, Jobs, JobRecord, JobOK, Address
  <2>4. \A a \in Remote : Op("incomingTcp", a, None) \in Jobs /\ Op("incomingTcp", a, None).op # "write"
    BY DEF Op, Jobs, JobRecord, JobOK, Address
  <2>5. \E j \in Jobs : senderQueue' = Append(senderQueue, j) /\ j.op # "write"
    BY <1>3, <2>3, <2>4 DEF AddNode, IncomingConnection
  <2>6. WrittenFirst'
    BY <1>1, <2>1, <2>5, WrittenFirstStep
  <2>7. freed' = FALSE
    BY <1>1, <2>1 DEF Types, FieldTypes
  <2>. QED  BY <2>1, <2>2, <2>6, <2>7, SameUnfreed
<1>. QED  BY <1>2, <1>3 DEF Environment

LEMMA UnfreedInit == Init => Unfreed
<1>. SUFFICES ASSUME Init PROVE Unfreed
  OBVIOUS
<1>1. DOMAIN <<>> = {} /\ "sender" \in Thread
  BY SenderIsThread
<1>2. DOMAIN senderQueue = {} /\ \A t \in Thread : DOMAIN program[t] = {}
  BY <1>1 DEF Init
<1>. QED  BY <1>1, <1>2 DEF Init, Unfreed, Droppable, Writable, WrittenFirst, Successful

LEMMA UnfreedNext == Turns /\ Inv /\ Hearing /\ Order /\ Unfreed /\ [Next]_vars => Unfreed'
<1>. SUFFICES ASSUME Turns, Types, Life, Hearing, Order, Unfreed, [Next]_vars PROVE Unfreed'
  BY DEF Inv
<1>1. CASE UNCHANGED vars
  BY <1>1 DEF vars, Unfreed, Droppable, Writable, WrittenFirst, Successful, Deleting, DeletionOf
<1>. QED  BY <1>1, AccessUnfreed, RegisterUnfreed, SenderUnfreed, SocketUnfreed, OthersUnfreed
          DEF Next, SocketEvent

(***************************************************************************)
(* Calls in turns: the status of an info follows its socket.  What is      *)
(* wrong with it now is put right by an access that somebody has still to  *)
(* make, or by a `disconnected' that waits.                                *)
(***************************************************************************)
Falling(a) ==
    \E t \in Thread : \E i \in DOMAIN program[t] :
        program[t][i].op = "status" /\ program[t][i].a = a /\ program[t][i].v = "NotConnected"

Rising(a) ==
    \E t \in Thread :
        /\ 1 \in DOMAIN program[t]
        /\ program[t][1].op = "status" /\ program[t][1].a = a /\ program[t][1].v = "Connected"

Taking(a) ==
    \E t \in Thread : \E i \in DOMAIN program[t] :
        program[t][i].op \in {"take", "null"} /\ program[t][i].a = a

Dropping(s) ==
    \E t \in Thread : \E i \in DOMAIN program[t] :
        program[t][i].op = "drop" /\ program[t][i].s = s

Closing(a) ==
    \E i \in DOMAIN senderQueue : senderQueue[i].op = "disconnected" /\ senderQueue[i].a = a

Up(a) == status[a] # "NotConnected"

\* An info that seems connected has an open socket, or will soon lose its status.
UpFalls == \A a \in Address : Up(a) /\ sct[a] = None => Falling(a)

UpOpen ==
    \A a \in Address : Up(a) /\ sct[a] # None =>
        \/ sock[sct[a]] = "open"
        \/ sock[sct[a]] = "closed" /\ (Closing(a) \/ Taking(a))

\* An open socket is one of an info that seems connected, or will soon.
OpenRises == \A a \in Address : sct[a] # None /\ sock[sct[a]] = "open" => Up(a) \/ Rising(a)

Saying ==
    \A t \in Thread : \A i \in DOMAIN program[t] : program[t][i].op = "status" =>
        LET o == program[t][i]
        IN  /\ o.v = "Connected" => i = 1 /\ sct[o.a] # None /\ sock[sct[o.a]] = "open"
            /\ o.v = "Confirmed" => i = 1 /\ Up(o.a)

\* The signals of a socket reach its info as long as it is the one of the info.
WiredPointed == \A s \in wired : sct[peerOf[s]] = s \/ Dropping(s)

PointedWired == \A a \in Address : sct[a] # None => sct[a] \in wired

Agreed == UpFalls /\ UpOpen /\ OpenRises /\ Saying /\ WiredPointed /\ PointedWired

\* All but the access o that was made stays to be made.
MovesOn(o) ==
    /\ \A a : Falling(a) =>
          Falling(a)' \/ (o.op = "status" /\ o.a = a /\ o.v = "NotConnected")
    /\ \A a : Rising(a) => o.op = "status" /\ o.a = a /\ o.v = "Connected"
    /\ \A a : Taking(a) => Taking(a)' \/ (o.op \in {"take", "null"} /\ o.a = a)
    /\ \A s : Dropping(s) => Dropping(s)' \/ (o.op = "drop" /\ o.s = s)

LEMMA TurnMoves ==
  ASSUME NEW t \in Thread, 1 \in DOMAIN program[t], NEW ops, Turn(t, ops)
  PROVE  MovesOn(program[t][1])
<1>1. \A u \in Thread : \A j \in DOMAIN program[u] :
         \/ u = t /\ j = 1
         \/ \E i \in DOMAIN program'[u] : program'[u][i] = program[u][j]
  BY DEF Turn
<1>2. \A u \in Thread : 1 \in DOMAIN program[u] => u = t
  BY DEF Turn
<1>3. \A a : Falling(a) => Falling(a)' \/ ( /\ program[t][1].op = "status" /\ program[t][1].a = a
                                            /\ program[t][1].v = "NotConnected")
  BY <1>1 DEF Falling
<1>4. \A a : Taking(a) => Taking(a)' \/ ( /\ program[t][1].op \in {"take", "null"}
                                          /\ program[t][1].a = a)
  BY <1>1 DEF Taking
<1>5. \A s : Dropping(s) => Dropping(s)' \/ (program[t][1].op = "drop" /\ program[t][1].s = s)
  BY <1>1 DEF Dropping
<1>. QED  BY <1>2, <1>3, <1>4, <1>5 DEF MovesOn, Rising

\* What is said of a status after an access was decided by this access.
LEMMA SayingStep ==
  ASSUME Saying, NEW t \in Thread, NEW ops, Turn(t, ops),
         \A i \in DOMAIN ops : ops[i].op = "status" =>
            /\ ops[i].v = "Connected" => i = 1 /\ sct'[ops[i].a] # None /\ sock'[sct'[ops[i].a]] = "open"
            /\ ops[i].v = "Confirmed" => i = 1 /\ status'[ops[i].a] # "NotConnected"
  PROVE  Saying'
<1>. SUFFICES ASSUME NEW u \in Thread, NEW i \in DOMAIN program'[u], program'[u][i].op = "status",
                     NEW o, o = program'[u][i]
              PROVE  /\ o.v = "Connected" => i = 1 /\ sct'[o.a] # None /\ sock'[sct'[o.a]] = "open"
                     /\ o.v = "Confirmed" => i = 1 /\ status'[o.a] # "NotConnected"
  BY DEF Saying, Up
<1>1. u = t
  BY DEF Turn
<1>2. \/ i \in DOMAIN ops /\ program'[t][i] = ops[i]
      \/ \E j \in DOMAIN program[t] : j > 1 /\ program'[t][i] = program[t][j]
  BY <1>1 DEF Turn
<1>3. \A j \in DOMAIN program[t] : j > 1 /\ program[t][j].op = "status" =>
         program[t][j].v \notin {"Connected", "Confirmed"}
  BY DEF Saying
<1>. QED  BY <1>1, <1>2, <1>3

\* What an access does to what Agreed speaks of.
LEMMA AccessPointwise ==
  ASSUME Types, Life, Unfreed, NEW t \in Thread, Access(t), NEW o, o = program[t][1]
  PROVE  /\ sock' = sock
         /\ \A a \in Address :
               sct'[a] = IF o.op = "null" /\ a = o.a THEN None
                         ELSE IF o.op = "attach" /\ a = o.a THEN o.s ELSE sct[a]
         /\ \A a \in Address :
               status'[a] = IF o.op = "status" /\ a = o.a THEN o.v ELSE status[a]
         /\ \A s \in Socket :
               peerOf'[s] = IF o.op = "attach" /\ s = o.s THEN o.a ELSE peerOf[s]
         /\ o.op = "attach" /\ o.s # None => wired' = wired \cup {o.s}
         /\ o.op = "drop" => wired' = wired \ {o.s}
         /\ o.op # "drop" /\ (o.op = "attach" => o.s = None) => wired' = wired
         /\ \A a : Closing(a) => Closing(a)'
<1>1. Effect(o) /\ 1 \in DOMAIN program[t] /\ o \in Ops /\ OpOK(o)
  BY AccessEffect, AccessPops
<1>2. o.op = "drop" => sock[o.s] # "deleted"
  BY <1>1 DEF Unfreed, Droppable
<1>3. \A i \in DOMAIN senderQueue : i \in DOMAIN senderQueue' /\ senderQueue'[i] = senderQueue[i]
  <2>1. /\ o.op = "drop" => Op("deleteLater", None, o.s) \in Jobs
        /\ o.op = "write" => o \in Jobs
    BY <1>1 DEF Op, OpOK, Ops, OpRecord, Jobs, JobRecord, JobOK
  <2>2. \/ senderQueue' = senderQueue
        \/ \E j \in Jobs : senderQueue' = Append(senderQueue, j)
    BY <1>1, <2>1 DEF Effect
  <2>3. senderQueue \in Seq(Jobs)
    BY DEF Types
  <2>. QED  BY <2>2, <2>3, AppendOf
<1>4. \A a : Closing(a) => Closing(a)'
  BY <1>3 DEF Closing
<1>5. /\ sock' = sock
      /\ \A a \in Address :
            sct'[a] = IF o.op = "null" /\ a = o.a THEN None
                      ELSE IF o.op = "attach" /\ a = o.a THEN o.s ELSE sct[a]
  BY <1>1 DEF Effect, Types, FieldTypes
<1>6. \A a \in Address :
         status'[a] = IF o.op = "status" /\ a = o.a THEN o.v ELSE status[a]
  BY <1>1 DEF Effect, Types, FieldTypes
<1>7. \A s \in Socket : peerOf'[s] = IF o.op = "attach" /\ s = o.s THEN o.a ELSE peerOf[s]
  BY <1>1, NoneApart DEF Effect, Types, FieldTypes
<1>8. /\ o.op = "attach" /\ o.s # None => wired' = wired \cup {o.s}
      /\ o.op = "drop" => wired' = wired \ {o.s}
      /\ o.op # "drop" /\ (o.op = "attach" => o.s = None) => wired' = wired
  BY <1>1, <1>2 DEF Effect
<1>. QED  BY <1>4, <1>5, <1>6, <1>7, <1>8

LEMMA RemovesRest ==
  ASSUME NEW p, NEW a, NEW s, Removes(p, a, s)
  PROVE  /\ 2 \in DOMAIN p /\ p[2].op = "drop" /\ p[2].s = s
         /\ 3 \in DOMAIN p /\ p[3].op = "status" /\ p[3].a = a /\ p[3].v = "NotConnected"
BY DEF Removes, Drop, SetStatus, Op, OpValue

LEMMA AccessAgreed ==
  ASSUME Turns, Types, Life, Hearing, Order, Unfreed, Agreed, NEW t \in Thread, Access(t),
         NEW o, o = program[t][1]
  PROVE  Agreed'
<1>. USE SenderIsThread
<1>1. /\ o \in Ops /\ o.a \in Address /\ o.s \in Socket \cup {None} /\ OpOK(o)
      /\ 1 \in DOMAIN program[t]
  BY AccessPops
<1>2. PICK ops \in Seq(Ops) : Pops(t, ops, 1) /\ Follows(o, ops)
  BY AccessPops
<1>3. Turn(t, ops)
  BY <1>2, AccessTurn
<1>4. MovesOn(o)
  BY <1>1, <1>3, TurnMoves
<1>5. /\ sock' = sock
      /\ \A a \in Address :
            sct'[a] = IF o.op = "null" /\ a = o.a THEN None
                      ELSE IF o.op = "attach" /\ a = o.a THEN o.s ELSE sct[a]
  BY AccessPointwise
<1>6. \A a \in Address :
         status'[a] = IF o.op = "status" /\ a = o.a THEN o.v ELSE status[a]
  BY AccessPointwise
<1>7. /\ \A s \in Socket : peerOf'[s] = IF o.op = "attach" /\ s = o.s THEN o.a ELSE peerOf[s]
      /\ o.op = "attach" /\ o.s # None => wired' = wired \cup {o.s}
      /\ o.op = "drop" => wired' = wired \ {o.s}
      /\ o.op # "drop" /\ (o.op = "attach" => o.s = None) => wired' = wired
  BY AccessPointwise
<1>8. \A a : Closing(a) => Closing(a)'
  BY AccessPointwise
<1>9. \A i \in DOMAIN ops : i \in DOMAIN program'[t] /\ program'[t][i] = ops[i]
  BY <1>3 DEF Turn
\* an access that presumes that there is no socket finds none
<1>10. o.op = "attach" \/ (o.op = "status" /\ o.v = "NotConnected") => sct[o.a] = None
  <2>1. \A j \in DOMAIN program[t] : ~ (j < 1)
    BY <1>3 DEF Turn
  <2>2. ClearFirst
    BY DEF Order
  <2>. QED  BY <1>1, <2>1, <2>2 DEF ClearFirst, Needs
\* a new socket comes to an info that does not seem connected
<1>11. o.op = "attach" /\ o.s # None => ~ Up(o.a)
  <2>. SUFFICES ASSUME o.op = "attach", o.s # None, Up(o.a) PROVE FALSE
    OBVIOUS
  <2>1. t = "sender"
    BY <1>1 DEF Types
  <2>2. Falling(o.a)
    BY <1>1, <1>10 DEF Agreed, UpFalls
  <2>3. PICK j \in DOMAIN program[t] : program[t][j].op = "status"
    BY <1>3, <2>2 DEF Falling, Turn
  <2>4. j > 1
    <3>1. j # 1
      BY <2>3
    <3>. QED  BY <1>3, <3>1 DEF Turn
  <2>. QED  BY <1>1, <2>1, <2>3, <2>4 DEF Order, Ending
<1>12. o.op = "status" => /\ o.v \in {"NotConnected", "Connected", "Confirmed"}
                          /\ o.v = "Connected" => sct[o.a] # None /\ sock[sct[o.a]] = "open"
                          /\ o.v = "Confirmed" => Up(o.a)
  BY <1>1 DEF Agreed, Saying, OpOK, Status
<1>13. o.op = "null" => /\ sct[o.a] \in {o.s, None} /\ Falling(o.a)' /\ Dropping(o.s)'
  <2>. SUFFICES ASSUME o.op = "null" PROVE sct[o.a] \in {o.s, None} /\ Falling(o.a)' /\ Dropping(o.s)'
    OBVIOUS
  <2>1. sct[o.a] \in {o.s, None} /\ Removes(program[t], o.a, o.s)
    BY <1>1 DEF Order, NullFirst
  <2>2. /\ 2 \in DOMAIN program[t] /\ program[t][2].op = "drop" /\ program[t][2].s = o.s
        /\ 3 \in DOMAIN program[t] /\ program[t][3].op = "status" /\ program[t][3].a = o.a
        /\ program[t][3].v = "NotConnected"
    BY <2>1, RemovesRest
  <2>3. Falling(o.a) /\ Dropping(o.s)
    BY <2>2 DEF Falling, Dropping
  <2>. QED  BY <1>4, <2>1, <2>3 DEF MovesOn
<1>14. o.op = "take" => sct[o.a] = None \/ Taking(o.a)'
  <2>. SUFFICES ASSUME o.op = "take", sct[o.a] # None PROVE Taking(o.a)'
    OBVIOUS
  <2>1. ops = <<Null(o.a, sct[o.a]), Drop(o.a, sct[o.a]), SetStatus(o.a, "NotConnected")>>
    BY <1>2 DEF Follows
  <2>2. 1 \in DOMAIN ops /\ ops[1].op = "null" /\ ops[1].a = o.a
    BY <2>1 DEF Null, Op
  <2>. QED  BY <1>9, <2>2 DEF Taking
<1>15. o.op = "attach" /\ o.s # None /\ sock[o.s] = "open" => Rising(o.a)'
  <2>. SUFFICES ASSUME o.op = "attach", o.s # None, sock[o.s] = "open" PROVE Rising(o.a)'
    OBVIOUS
  <2>1. ops = <<SetStatus(o.a, "Connected")>>
    BY <1>2 DEF Follows
  <2>2. 1 \in DOMAIN ops /\ ops[1].op = "status" /\ ops[1].a = o.a /\ ops[1].v = "Connected"
    BY <2>1 DEF SetStatus, OpValue
  <2>. QED  BY <1>9, <2>2 DEF Rising
<1>16. \A i \in DOMAIN ops : ops[i].op = "status" =>
          /\ ops[i].v = "Connected" =>
                i = 1 /\ ops[i].a = o.a /\ o.op = "attach" /\ o.s # None /\ sock[o.s] = "open"
          /\ ops[i].v = "Confirmed" => i = 1 /\ ops[i].a = o.a /\ o.op = "confirmable" /\ Up(o.a)
  <2>1. CASE ops = <<>> \/ (\E x : ops = <<x>> /\ x.op # "status")
    BY <2>1
  <2>2. CASE ops = <<Null(o.a, sct[o.a]), Drop(o.a, sct[o.a]), SetStatus(o.a, "NotConnected")>>
    BY <2>2 DEF Null, Drop, SetStatus, Op, OpValue
  <2>3. CASE o.op = "attach" /\ o.s # None /\ sock[o.s] = "open" /\ ops = <<SetStatus(o.a, "Connected")>>
    BY <2>3 DEF SetStatus, OpValue
  <2>4. CASE o.op = "confirmable" /\ Up(o.a) /\ ops = <<SetStatus(o.a, "Confirmed")>>
    BY <2>4 DEF SetStatus, OpValue
  <2>5. CASE \E v \in Int : ops = <<SetTrust(o.a, v), Send(o.a)>>
    BY <2>5 DEF SetTrust, Send, Op, OpValue
  <2>6. \A v : /\ Take(o.a).op # "status" /\ Send(o.a).op # "status" /\ Ban(o.a).op # "status"
               /\ Write(o.a, sct[o.a]).op # "status" /\ SetTrust(o.a, v).op # "status"
    BY DEF Take, Send, Ban, Write, SetTrust, Op, OpValue
  <2>. QED  BY <1>2, <2>1, <2>2, <2>3, <2>4, <2>5, <2>6 DEF Follows, Up
<1>20. UpFalls'
  <2>. SUFFICES ASSUME NEW a \in Address, status'[a] # "NotConnected", sct'[a] = None PROVE Falling(a)'
    BY DEF UpFalls, Up
  <2>1. CASE o.op = "null" /\ a = o.a
    BY <1>13, <2>1
  <2>2. CASE ~ (o.op = "null" /\ a = o.a)
    <3>1. sct[a] = None /\ Up(a)
      BY <1>5, <1>6, <1>10, <1>12, <2>2 DEF Up
    <3>. QED  BY <1>4, <1>6, <3>1 DEF Agreed, UpFalls, MovesOn
  <2>. QED  BY <2>1, <2>2
<1>21. UpOpen'
  <2>. SUFFICES ASSUME NEW a \in Address, status'[a] # "NotConnected", sct'[a] # None
                PROVE  \/ sock[sct'[a]] = "open"
                       \/ sock[sct'[a]] = "closed" /\ (Closing(a)' \/ Taking(a)')
    BY <1>5 DEF UpOpen, Up, Closing, Taking
  <2>1. ~ (o.op \in {"null", "attach"} /\ a = o.a)
    BY <1>5, <1>6, <1>11 DEF Up
  <2>2. sct'[a] = sct[a]
    BY <1>5, <2>1
  <2>3. Up(a) \/ sock[sct[a]] = "open"
    BY <1>6, <1>12 DEF Up
  <2>. QED  BY <1>4, <1>8, <1>14, <2>1, <2>2, <2>3 DEF Agreed, UpOpen, MovesOn
<1>22. OpenRises'
  <2>. SUFFICES ASSUME NEW a \in Address, sct'[a] # None, sock[sct'[a]] = "open"
                PROVE  status'[a] # "NotConnected" \/ Rising(a)'
    BY <1>5 DEF OpenRises, Up, Rising
  <2>1. CASE o.op = "attach" /\ a = o.a
    BY <1>5, <1>15, <2>1
  <2>2. CASE ~ (o.op = "attach" /\ a = o.a)
    <3>1. sct'[a] = sct[a]
      BY <1>5, <2>2
    <3>2. Up(a) \/ Rising(a)
      BY <3>1 DEF Agreed, OpenRises
    <3>. QED  BY <1>4, <1>6, <1>10, <3>1, <3>2 DEF MovesOn, Up
  <2>. QED  BY <2>1, <2>2
<1>23. Saying'
  <2>1. \A i \in DOMAIN ops : ops[i].op = "status" =>
           /\ ops[i].v = "Connected" =>
                 i = 1 /\ sct'[ops[i].a] # None /\ sock'[sct'[ops[i].a]] = "open"
           /\ ops[i].v = "Confirmed" => i = 1 /\ status'[ops[i].a] # "NotConnected"
    BY <1>1, <1>5, <1>6, <1>16 DEF Up
  <2>. QED  BY <1>3, <2>1, SayingStep DEF Agreed
<1>24. WiredPointed'
  <2>. SUFFICES ASSUME NEW s \in wired' PROVE sct'[peerOf'[s]] = s \/ Dropping(s)'
    BY DEF WiredPointed, Dropping
  <2>0. wired \subseteq Socket /\ known \subseteq Address
    BY DEF Types, FieldTypes
  <2>1. CASE o.op = "attach" /\ s = o.s
    <3>1. s \in Socket
      BY <1>1, <1>7, <2>0, <2>1, NoneApart
    <3>. QED  BY <1>1, <1>5, <1>7, <2>1, <3>1
  <2>2. CASE ~ (o.op = "attach" /\ s = o.s)
    <3>1. s \in wired /\ s \in Socket /\ ~ (o.op = "drop" /\ s = o.s)
      BY <1>7, <2>0, <2>2
    <3>2. peerOf'[s] = peerOf[s] /\ peerOf[s] \in Address
      BY <1>7, <2>0, <2>2, <3>1 DEF Hearing, WiredKnown
    <3>3. sct[peerOf[s]] = s \/ Dropping(s)
      BY <3>1 DEF Agreed, WiredPointed
    <3>4. CASE Dropping(s)
      BY <1>4, <3>1, <3>4 DEF MovesOn
    <3>5. CASE sct[peerOf[s]] = s
      <4>1. o.op \in {"attach", "null"} /\ peerOf[s] = o.a => o.op = "null" /\ s = o.s
        BY <1>10, <1>13, <3>1, <3>5, NoneApart
      <4>. QED  BY <1>5, <1>13, <3>2, <3>5, <4>1
    <3>. QED  BY <3>3, <3>4, <3>5
  <2>. QED  BY <2>1, <2>2
<1>25. PointedWired'
  <2>. SUFFICES ASSUME NEW a \in Address, sct'[a] # None PROVE sct'[a] \in wired'
    BY DEF PointedWired
  <2>1. o.op = "drop" => sct[a] # o.s \/ sct[a] = None
    <3>. SUFFICES ASSUME o.op = "drop", sct[a] = o.s, sct[a] # None PROVE FALSE
      OBVIOUS
    <3>1. peerOf[o.s] = o.a /\ sct[o.a] # o.s
      <4>1. \/ sct[o.a] # o.s
            \/ 1 = 2
        BY <1>1 DEF Life, Dropped
      <4>. QED  BY <1>1, <4>1 DEF Life, Dropped
    <3>2. peerOf[sct[a]] = a
      BY DEF Life, Pointed
    <3>. QED  BY <3>1, <3>2
  <2>2. CASE o.op = "attach" /\ a = o.a
    BY <1>5, <1>7, <2>2
  <2>3. CASE ~ (o.op = "attach" /\ a = o.a)
    <3>1. sct'[a] = sct[a] /\ sct[a] \in wired
      BY <1>5, <2>3 DEF Agreed, PointedWired
    <3>. QED  BY <1>7, <2>1, <3>1
  <2>. QED  BY <2>2, <2>3
<1>. QED  BY <1>20, <1>21, <1>22, <1>23, <1>24, <1>25 DEF Agreed

\* All threads are idle: the status agrees with the socket, or `disconnected' waits.
LEMMA IdleAgreed ==
  ASSUME Turns, Agreed, NEW t \in Thread, MayStart(t)
  PROVE  /\ \A u \in Thread : program[u] = <<>> /\ DOMAIN program[u] = {}
         /\ \A a \in Address : Up(a) =>
               /\ sct[a] # None
               /\ sock[sct[a]] = "open" \/ (sock[sct[a]] = "closed" /\ Closing(a))
         /\ \A a \in Address : sct[a] # None /\ sock[sct[a]] = "open" => Up(a)
         /\ \A s \in wired : sct[peerOf[s]] = s
<1>1. \A u \in Thread : program[u] = <<>> /\ DOMAIN program[u] = {}
  <2>1. DOMAIN <<>> = {}
    OBVIOUS
  <2>. QED  BY <2>1 DEF MayStart, Turns, Idle
<1>2. /\ \A a : ~ Falling(a) /\ ~ Rising(a) /\ ~ Taking(a)
      /\ \A s : ~ Dropping(s)
  BY <1>1 DEF Falling, Rising, Taking, Dropping
<1>. QED  BY <1>1, <1>2 DEF Agreed, UpFalls, UpOpen, OpenRises, WiredPointed

\* A thread begins something, or nothing, when all are idle.
LEMMA BeginAgreed ==
  ASSUME Turns, Types, Agreed, NEW t \in Thread, MayStart(t), NEW ops,
         Start(t, ops) \/ (program' = program /\ ops = <<>>),
         UNCHANGED <<sct, status, peerOf, wired>>,
         \A a \in Address : sct[a] # None => sock'[sct[a]] = sock[sct[a]],
         \A a \in Address : Closing(a) => Closing(a)' \/ Taking(a)',
         \A i \in DOMAIN ops : ops[i].op = "status" => ops[i].v = "NotConnected"
  PROVE  Agreed'
<1>1. \A u \in Thread : program[u] = <<>> /\ DOMAIN program[u] = {}
  BY IdleAgreed
<1>2. program'[t] = ops /\ \A u \in Thread \ {t} : DOMAIN program'[u] = {}
  BY <1>1 DEF Start, Types
<1>3. UpFalls' /\ OpenRises'
  BY IdleAgreed DEF UpFalls, OpenRises, Up
<1>4. UpOpen'
  BY IdleAgreed DEF UpOpen, Up
<1>5. Saying'
  BY <1>2 DEF Saying
<1>6. WiredPointed' /\ PointedWired'
  BY IdleAgreed DEF WiredPointed, PointedWired, Agreed
<1>. QED  BY <1>3, <1>4, <1>5, <1>6 DEF Agreed

LEMMA SenderAgreed ==
  ASSUME Turns, Types, Life, Agreed, Sender
  PROVE  Agreed'
<1>. USE SenderIsThread
<1>. DEFINE j == senderQueue[1]
<1>1. senderQueue # <<>> /\ UNCHANGED <<sct, status, peerOf, wired>> /\ MayStart("sender")
  BY DEF Sender, Job, AddNodeJob, IncomingTcpJob, WriteJob, DisconnectedJob, DeleteJob, info, sockets
<1>2. /\ j \in Jobs /\ Head(senderQueue) = j /\ JobOK(j)
      /\ \A i \in DOMAIN senderQueue :
            i = 1 \/ \E m \in DOMAIN Tail(senderQueue) : Tail(senderQueue)[m] = senderQueue[i]
  <2>1. j \in Jobs /\ Head(senderQueue) = j /\ JobOK(j)
    BY <1>1, TailOf DEF Types, Jobs
  <2>2. \A i \in DOMAIN senderQueue :
           i = 1 \/ \E m \in DOMAIN Tail(senderQueue) : Tail(senderQueue)[m] = senderQueue[i]
    BY <1>1, TailShifts DEF Types
  <2>. QED  BY <2>1, <2>2
<1>3. \A a \in Address : sct[a] # None =>
         /\ sct[a] \in Socket /\ sock[sct[a]] # "unused"
         /\ \A i \in DOMAIN senderQueue : senderQueue[i].op \in {"delete", "deleteLater"} =>
               senderQueue[i].s # sct[a]
  BY NoneApart DEF Life, Pointed, Untouched, Unpointed, Types, FieldTypes
<1>4. ASSUME senderQueue' = Tail(senderQueue), j.op # "disconnected"
      PROVE  \A a : Closing(a) => Closing(a)'
  BY <1>2, <1>4 DEF Closing
<1>5. CASE AddNodeJob \/ IncomingTcpJob
  <2>1. /\ senderQueue' = Tail(senderQueue) /\ j.a \in Address
        /\ \E s \in Socket, b \in BOOLEAN, ops \in Seq(Ops) : TakesSocket(j, s, b, ops)
    BY <1>5, TakeSocketJobs
  <2>2. PICK s \in Socket, b \in BOOLEAN, ops \in Seq(Ops) : TakesSocket(j, s, b, ops)
    BY <2>1
  <2>3. j.op # "disconnected"
    BY <1>2, <1>5 DEF AddNodeJob, IncomingTcpJob, Job
  <2>4. \A i \in DOMAIN ops : ops[i].op # "status"
    <3>. HIDE DEF j
    <3>1. \/ ops = <<>>
          \/ ops = <<Create(j.a, s, b), Announce(j.a)>>
          \/ ops = <<Create(j.a, s, b), Announce(j.a), Op("connect", j.a, s)>>
          \/ ops = <<Take(j.a), Attach(j.a, s), SetLocal(j.a, b), Registered(j.a, s)>>
          \/ ops = <<Take(j.a), Attach(j.a, s), SetLocal(j.a, b), Registered(j.a, s),
                     Op("connect", j.a, s)>>
      BY <2>2 DEF TakesSocket, Registration
    <3>. QED  BY <3>1 DEF Create, Announce, Take, Attach, SetLocal, Registered, Op, OpValue
  <2>5. Start("sender", ops) /\ \A x \in Socket : x # s => sock'[x] = sock[x]
    BY <2>2 DEF TakesSocket, Types, FieldTypes
  <2>6. sock[s] = "unused"
    BY <2>2 DEF TakesSocket
  <2>7. \A a \in Address : sct[a] # None => sock'[sct[a]] = sock[sct[a]]
    BY <1>3, <2>5, <2>6
  <2>8. \A a : Closing(a) => Closing(a)'
    BY <1>4, <2>1, <2>3
  <2>. QED  BY <1>1, <2>4, <2>5, <2>7, <2>8, BeginAgreed
<1>6. CASE WriteJob
  <2>1. program' = program /\ senderQueue' = Tail(senderQueue) /\ sock' = sock /\ j.op = "write"
    BY <1>2, <1>6 DEF WriteJob, Job
  <2>2. \A a : Closing(a) => Closing(a)'
    BY <1>4, <2>1
  <2>3. DOMAIN <<>> = {}
    OBVIOUS
  <2>. QED  BY <1>1, <2>1, <2>2, <2>3, BeginAgreed
<1>7. CASE DisconnectedJob
  <2>. DEFINE ops == <<Take(j.a)>>
  <2>1. senderQueue' = Tail(senderQueue) /\ sock' = sock /\ Start("sender", ops)
    BY <1>2, <1>7 DEF DisconnectedJob, RemoveSocket, sockets
  <2>2. 1 \in DOMAIN ops /\ \A i \in DOMAIN ops : ops[i].op = "take" /\ ops[i].a = j.a
    BY DEF Take, Op
  <2>. HIDE DEF ops
  <2>3. program'["sender"] = ops
    BY <2>1 DEF Start, Types
  <2>4. \A a : Closing(a) => Closing(a)' \/ Taking(a)'
    BY <1>2, <2>1, <2>2, <2>3 DEF Closing, Taking
  <2>. QED  BY <1>1, <2>1, <2>2, <2>4, BeginAgreed
<1>8. CASE DeleteJob
  <2>1. program' = program /\ j.op \in {"delete", "deleteLater"} /\ 1 \in DOMAIN senderQueue
    BY <1>1, <1>2, <1>8, TailOf DEF DeleteJob, Job, Types
  <2>2. \A a \in Address : sct[a] # None => sock'[sct[a]] = sock[sct[a]]
    <3>1. sock' = sock \/ sock' = [sock EXCEPT ![j.s] = "deleted"]
      BY <1>2, <1>8 DEF DeleteJob
    <3>. QED  BY <1>3, <2>1, <3>1 DEF Types, FieldTypes
  <2>3. \A a : Closing(a) => Closing(a)'
    <3>. DEFINE d == Op("delete", None, j.s)
                r == Tail(senderQueue)
    <3>1. senderQueue' = r \/ senderQueue' = Append(r, d)
      BY <1>2, <1>8 DEF DeleteJob
    <3>2. d \in Jobs
      BY <1>2, <2>1 DEF Jobs, JobRecord, JobOK, Op
    <3>3. r \in Seq(Jobs)
      BY <1>1, TailOf DEF Types
    <3>4. \A i \in DOMAIN senderQueue : i = 1 \/ \E m \in DOMAIN r : r[m] = senderQueue[i]
      BY <1>2
    <3>. HIDE DEF d, r
    <3>5. \A m \in DOMAIN r : m \in DOMAIN senderQueue' /\ senderQueue'[m] = r[m]
      BY <3>1, <3>2, <3>3, AppendOf
    <3>. QED  BY <2>1, <3>4, <3>5 DEF Closing
  <2>4. DOMAIN <<>> = {}
    OBVIOUS
  <2>. QED  BY <1>1, <2>1, <2>2, <2>3, <2>4, BeginAgreed
<1>. QED  BY <1>5, <1>6, <1>7, <1>8 DEF Sender

LEMMA SocketAgreed ==
  ASSUME Turns, Types, Life, Hearing, Agreed, NEW s \in Socket,
         SocketConnects(s) \/ ConnectFails(s) \/ PeerCloses(s)
  PROVE  Agreed'
<1>. USE SenderIsThread
<1>1. MayStart("sender") /\ UNCHANGED <<sct, status, peerOf, wired>>
  BY DEF SocketConnects, ConnectFails, PeerCloses, info
<1>2. /\ \A u \in Thread : program[u] = <<>> /\ DOMAIN program[u] = {}
      /\ \A a \in Address : Up(a) =>
            /\ sct[a] # None
            /\ sock[sct[a]] = "open" \/ (sock[sct[a]] = "closed" /\ Closing(a))
      /\ \A a \in Address : sct[a] # None /\ sock[sct[a]] = "open" => Up(a)
      /\ \A x \in wired : sct[peerOf[x]] = x
  BY <1>1, IdleAgreed
<1>3. \A a \in Address : sct[a] # None => sct[a] \in Socket /\ sct[a] \in wired /\ peerOf[sct[a]] = a
  BY DEF Agreed, PointedWired, Life, Pointed, Types, FieldTypes
<1>4. PointedWired' /\ WiredPointed'
  BY <1>1, <1>2 DEF Agreed, PointedWired, WiredPointed
<1>5. UpFalls'
  BY <1>1, <1>2 DEF UpFalls, Up
<1>6. s \in wired => peerOf[s] \in Address
  BY DEF Hearing, WiredKnown, Types, FieldTypes
<1>7. CASE SocketConnects(s)
  <2>. DEFINE ops == program'["sender"]
  <2>1. /\ sock[s] = "connecting" /\ sock'[s] = "open" /\ UNCHANGED senderQueue
        /\ \A x \in Socket : x # s => sock'[x] = sock[x]
        /\ \A u \in Thread \ {"sender"} : DOMAIN program'[u] = {}
        /\ s \in wired => ops = <<SetStatus(peerOf[s], "Connected")>>
        /\ s \notin wired => ops = <<>>
    BY <1>2, <1>7 DEF SocketConnects, Start, queues, Types, FieldTypes
  <2>2. s \in wired => /\ 1 \in DOMAIN ops
                       /\ \A i \in DOMAIN ops : /\ i = 1 /\ ops[i].op = "status"
                                                /\ ops[i].a = peerOf[s] /\ ops[i].v = "Connected"
    BY <2>1 DEF SetStatus, OpValue
  <2>3. s \notin wired => DOMAIN ops = {}
    BY <2>1
  <2>. HIDE DEF ops
  <2>4. UpOpen'
    BY <1>1, <1>2, <1>3, <2>1 DEF UpOpen, Up, Closing
  <2>5. OpenRises'
    <3>. SUFFICES ASSUME NEW a \in Address, sct[a] # None, sock'[sct[a]] = "open", ~ Up(a)
                  PROVE  Rising(a)'
      BY <1>1 DEF OpenRises, Up
    <3>1. sct[a] = s /\ s \in wired /\ peerOf[s] = a
      BY <1>2, <1>3, <2>1
    <3>. QED  BY <2>2, <3>1 DEF Rising, ops
  <2>6. Saying'
    BY <1>1, <1>2, <1>6, <2>1, <2>2, <2>3, NoneApart DEF Saying, ops
  <2>. QED  BY <1>4, <1>5, <2>4, <2>5, <2>6 DEF Agreed
<1>8. CASE ConnectFails(s) \/ PeerCloses(s)
  <2>1. /\ program' = program /\ sock'[s] = "closed"
        /\ \A x \in Socket : x # s => sock'[x] = sock[x]
    BY <1>8 DEF ConnectFails, PeerCloses, Types, FieldTypes
  <2>2. Saying'
    BY <1>2, <2>1 DEF Saying
  <2>3. OpenRises'
    BY <1>1, <1>2, <1>3, <2>1 DEF OpenRises, Up
  <2>4. \A a \in Address : /\ Closing(a) => Closing(a)'
                           /\ sct[a] = s /\ Up(a) => Closing(a)'
    <3>. DEFINE d == Op("disconnected", peerOf[s], None)
    <3>1. s \in wired => d \in Jobs /\ d.op = "disconnected" /\ d.a = peerOf[s]
      BY <1>6 DEF Op, Jobs, JobRecord, JobOK
    <3>2. /\ \/ senderQueue' = senderQueue
             \/ s \in wired /\ senderQueue' = Append(senderQueue, d)
          /\ sock[s] = "open" /\ s \in wired => senderQueue' = Append(senderQueue, d)
          /\ sock[s] \in {"connecting", "open"}
      BY <1>8 DEF ConnectFails, PeerCloses, queues
    <3>3. senderQueue \in Seq(Jobs)
      BY DEF Types
    <3>. HIDE DEF d
    <3>4. \A i \in DOMAIN senderQueue : i \in DOMAIN senderQueue' /\ senderQueue'[i] = senderQueue[i]
      BY <3>1, <3>2, <3>3, AppendOf
    <3>5. ASSUME NEW a \in Address, sct[a] = s, Up(a) PROVE Closing(a)'
      <4>1. sock[s] = "open" /\ s \in wired /\ peerOf[s] = a
        BY <1>2, <1>3, <3>2, <3>5
      <4>2. senderQueue' = Append(senderQueue, d) /\ d \in Jobs /\ d.op = "disconnected" /\ d.a = a
        BY <3>1, <3>2, <4>1
      <4>3. \E i \in DOMAIN senderQueue' : senderQueue'[i] = d
        <5>1. Len(senderQueue) + 1 \in DOMAIN senderQueue' /\ senderQueue'[Len(senderQueue) + 1] = d
          BY <3>3, <4>2, AppendProperties
        <5>. QED  BY <5>1
      <4>. QED  BY <4>2, <4>3 DEF Closing
    <3>. QED  BY <3>4, <3>5 DEF Closing
  <2>5. UpOpen'
    BY <1>1, <1>2, <1>3, <2>1, <2>4 DEF UpOpen, Up
  <2>. QED  BY <1>4, <1>5, <2>2, <2>3, <2>5 DEF Agreed
<1>. QED  BY <1>7, <1>8

LEMMA RegisterAgreed ==
  ASSUME Turns, Types, Life, Hearing, Order, Connecting, Unfreed, Agreed, Register,
         NEW o, o = program["sender"][1]
  PROVE  Agreed'
<1>. USE SenderIsThread
<1>1. /\ 1 \in DOMAIN program["sender"] /\ o \in Ops /\ OpOK(o) /\ o.a \in Address
      /\ Registers(o) /\ senderQueue' = senderQueue /\ Turn("sender", <<>>) /\ DOMAIN <<>> = {}
  BY RegisterTurn
<1>2. MovesOn(o)
  BY <1>1, TurnMoves
<1>3. o.op \in {"create", "connect", "announce", "registered"}
  BY <1>1 DEF Registers
<1>4. /\ \A a : Closing(a) => Closing(a)'
      /\ \A a : Falling(a) => Falling(a)'
      /\ \A a : ~ Rising(a)
      /\ \A a : Taking(a) => Taking(a)'
      /\ \A s : Dropping(s) => Dropping(s)'
  BY <1>1, <1>2, <1>3 DEF MovesOn, Closing
<1>5. Saying'
  BY <1>1, SayingStep DEF Agreed
<1>6. /\ \A a \in Address : sct[a] # None => sct[a] \in Socket /\ peerOf[sct[a]] = a
      /\ \A s \in wired : s \in Socket /\ peerOf[s] \in Address
      /\ wired \subseteq Socket
  BY DEF Life, Pointed, Hearing, WiredKnown, Types, FieldTypes
<1>7. CASE o.op \in {"announce", "registered"}
  <2>1. UNCHANGED <<sct, status, sock, peerOf, wired>>
    BY <1>1, <1>7 DEF Registers
  <2>2. UpFalls' /\ UpOpen' /\ OpenRises'
    BY <1>4, <2>1 DEF Agreed, UpFalls, UpOpen, OpenRises, Up
  <2>3. WiredPointed' /\ PointedWired'
    BY <1>4, <2>1 DEF Agreed, WiredPointed, PointedWired
  <2>. QED  BY <1>5, <2>2, <2>3 DEF Agreed
<1>8. CASE o.op = "connect"
  <2>1. /\ UNCHANGED <<sct, status, peerOf, wired>> /\ o.s \in Socket
        /\ \A s \in Socket : sock'[s] = IF s = o.s THEN "connecting" ELSE sock[s]
    BY <1>1, <1>8 DEF Registers, Types, FieldTypes
  <2>2. sock[o.s] = "created"
    BY <1>1, <1>8 DEF Connecting
  <2>3. UpFalls' /\ UpOpen' /\ OpenRises'
    BY <1>4, <1>6, <2>1, <2>2 DEF Agreed, UpFalls, UpOpen, OpenRises, Up
  <2>4. WiredPointed' /\ PointedWired'
    BY <1>4, <2>1 DEF Agreed, WiredPointed, PointedWired
  <2>. QED  BY <1>5, <2>3, <2>4 DEF Agreed
<1>9. CASE o.op = "create"
  <2>1. /\ o.s \in Socket /\ sock' = sock /\ wired' = wired \cup {o.s}
        /\ \A a \in Address : sct'[a] = IF a = o.a THEN o.s ELSE sct[a]
        /\ \A a \in Address :
              status'[a] = IF a = o.a THEN IF sock[o.s] = "open" THEN "Connected" ELSE "NotConnected"
                           ELSE status[a]
        /\ \A s \in Socket : peerOf'[s] = IF s = o.s THEN o.a ELSE peerOf[s]
    BY <1>1, <1>9 DEF Registers, Types, FieldTypes
  <2>2. sct[o.a] = None
    BY <1>1, <1>9 DEF Hearing, Creating, Order, KnownOps
  <2>3. UpFalls' /\ UpOpen' /\ OpenRises'
    BY <1>4, <2>1, NoneApart DEF Agreed, UpFalls, UpOpen, OpenRises, Up
  <2>4. WiredPointed'
    <3>. SUFFICES ASSUME NEW s \in wired' PROVE sct'[peerOf'[s]] = s \/ Dropping(s)'
      BY DEF WiredPointed, Dropping
    <3>1. CASE s = o.s
      BY <1>1, <2>1, <3>1
    <3>2. CASE s # o.s
      <4>1. s \in wired /\ s \in Socket /\ peerOf'[s] = peerOf[s] /\ peerOf[s] \in Address
        BY <1>6, <2>1, <3>2
      <4>2. sct[peerOf[s]] = s \/ Dropping(s)'
        BY <1>4, <4>1 DEF Agreed, WiredPointed
      <4>. QED  BY <2>1, <2>2, <4>1, <4>2, NoneApart
    <3>. QED  BY <3>1, <3>2
  <2>5. PointedWired'
    BY <2>1 DEF Agreed, PointedWired
  <2>. QED  BY <1>5, <2>3, <2>4, <2>5 DEF Agreed
<1>. QED  BY <1>3, <1>7, <1>8, <1>9

LEMMA OthersAgreed ==
  ASSUME Turns, Types, Agreed, Main \/ Environment \/ Package
  PROVE  Agreed'
<1>1. CASE Main \/ Package \/ (\E a \in Address, op \in UserCall : Call(op, a))
  <2>1. PICK t \in Thread \ {"sender"}, ops \in Seq(Ops) :
           /\ MayStart(t) /\ Start(t, ops)
           /\ \/ \E a \in Address : ops = Reset(a)
              \/ \A i \in DOMAIN ops :
                    ops[i].op \in {"remove", "force", "ban", "unBan", "confirmable", "send",
                                   "readTrust", "requestTrust"}
    BY <1>1, MainBegins
  <2>2. UNCHANGED <<sct, status, sock, peerOf, wired, senderQueue>>
    BY <1>1, MainBegins DEF sockets
  <2>3. \A i \in DOMAIN ops : ops[i].op = "status" => ops[i].v = "NotConnected"
    <3>1. CASE \E a \in Address : ops = Reset(a)
      <4>1. PICK a \in Address : ops = Reset(a)
        BY <3>1
      <4>2. ops = <<Take(a), Attach(a, None), SetTrust(a, DefaultTrust),
                    SetStatus(a, "NotConnected"), SetLocal(a, FALSE)>>
        BY <4>1, ResetSteps
      <4>. QED  BY <4>2 DEF Take, Attach, SetTrust, SetStatus, SetLocal, Op, OpValue
    <3>. QED  BY <2>1, <3>1
  <2>4. \A a : Closing(a) => Closing(a)'
    BY <2>2 DEF Closing
  <2>. QED  BY <2>1, <2>2, <2>3, <2>4, BeginAgreed
<1>2. CASE (\E a \in Local : AddNode(a)) \/ (\E a \in Remote : IncomingConnection(a))
  <2>1. UNCHANGED <<sct, status, sock, peerOf, wired, program>> /\ MayStart("main")
    BY <1>2 DEF AddNode, IncomingConnection, info, sockets
  <2>2. \A a \in Local : Op("addNode", a, None) \in Jobs
    BY DEF Op, Jobs, JobRecord, JobOK, Address
  <2>3. \A a \in Remote : Op("incomingTcp", a, None) \in Jobs
    BY DEF Op, Jobs, JobRecord, JobOK, Address
  <2>4. PICK j \in Jobs : senderQueue' = Append(senderQueue, j)
    BY <1>2, <2>2, <2>3 DEF AddNode, IncomingConnection
  <2>5. \A i \in DOMAIN senderQueue : i \in DOMAIN senderQueue' /\ senderQueue'[i] = senderQueue[i]
    BY <2>4, AppendOf DEF Types
  <2>6. \A a : Closing(a) => Closing(a)'
    BY <2>5 DEF Closing
  <2>7. DOMAIN <<>> = {} /\ "main" \in Thread
    BY SenderIsThread
  <2>. QED  BY <2>1, <2>6, <2>7, BeginAgreed
<1>. QED  BY <1>1, <1>2 DEF Environment

LEMMA AgreedInit == Init => Agreed
<1>. SUFFICES ASSUME Init PROVE Agreed
  OBVIOUS
<1>1. \A t \in Thread : DOMAIN program[t] = {}
  BY DEF Init
<1>. QED  BY <1>1 DEF Init, Agreed, UpFalls, UpOpen, OpenRises, Saying, WiredPointed, PointedWired, Up

LEMMA AgreedNext ==
  Turns /\ Inv /\ Hearing /\ Order /\ Connecting /\ Unfreed /\ Agreed /\ [Next]_vars
    => Agreed'
<1>. SUFFICES ASSUME Turns, Types, Life, Hearing, Order, Connecting, Unfreed, Agreed, [Next]_vars
              PROVE  Agreed'
  BY DEF Inv
<1>1. CASE UNCHANGED vars
  BY <1>1 DEF vars, Agreed, UpFalls, UpOpen, OpenRises, Saying, WiredPointed, PointedWired, Up,
     Falling, Rising, Taking, Dropping, Closing
<1>. QED  BY <1>1, AccessAgreed, RegisterAgreed, SenderAgreed, SocketAgreed, OthersAgreed
          DEF Next, SocketEvent

\* When nothing is under way and calls do not overlap, an info is connected
\* exactly when it has an open socket: every removeSocket ends with the status
\* NotConnected, and the signals of a socket that was replaced are cut off.
THEOREM StatusFollowsSocket == Turns => (Spec => []StatusAgreesWithSocket)
<1>. SUFFICES ASSUME Turns PROVE Spec => []StatusAgreesWithSocket
  OBVIOUS
<1>. DEFINE K == Hearing /\ Order /\ NoLostSocket /\ Connecting /\ Unfreed /\ Agreed
<1>1. Init => K
  BY HearingInit, OrderInit, KeptInit, UnfreedInit, AgreedInit
<1>2. K /\ Inv /\ [Next]_vars => K'
  BY HearingNext, OrderNext, KeptNext, UnfreedNext, AgreedNext
<1>3. K /\ Inv => StatusAgreesWithSocket
  <2>. SUFFICES ASSUME Agreed, Types, Quiescent, NEW a \in known
                PROVE  Up(a) <=> (sct[a] # None /\ sock[sct[a]] = "open")
    BY DEF Inv, StatusAgreesWithSocket, Up
  <2>1. DOMAIN <<>> = {} /\ a \in Address
    BY DEF Types, FieldTypes
  <2>2. \A b : ~ Falling(b) /\ ~ Rising(b) /\ ~ Taking(b) /\ ~ Closing(b)
    BY <2>1 DEF Quiescent, Idle, Falling, Rising, Taking, Closing
  <2>. QED  BY <2>1, <2>2 DEF Agreed, UpFalls, UpOpen, OpenRises
<1>. HIDE DEF K
<1>. QED  BY <1>1, <1>2, <1>3, InvHolds, PTL DEF Spec
=============================================================================
