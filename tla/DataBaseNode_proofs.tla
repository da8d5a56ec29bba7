------------------------- MODULE DataBaseNode_proofs -------------------------
(***************************************************************************)
(* Theorems about DataBaseNode, for any number of members, objects,        *)
(* threads, packages and starts.                                           *)
(***************************************************************************)
EXTENDS DataBaseNode, TLAPS

Person == Member \cup {Guest}
Job == [at : Stage, req : Request, obj : Object, rest : SUBSET Object,
        told : SUBSET Person, sub : Person]

\* The places where a thread holds _subscribsMutex.
InLock == {"each", "eachDefault", "send", "drop", "dropItem", "lockI", "put", "putItem"}

\* A thread goes to one of the places of a set.
MovesInto(w, places) ==
    \E j \in {Idle} \cup Job : j.at \in places /\ work' = [work EXCEPT ![w] = j]
Outside == (Stage \cup {"idle"}) \ InLock

-----------------------------------------------------------------------------
(* The stop of the node. *)

\* The database is there unless the node is down; a node that does not run
\* has no package that waits, and one that is down no thread at work.
StopInv ==
    /\ life # "down" => db
    /\ life # "up" => queued = 0
    /\ life = "down" => PoolDone

\* A thread that serves is not idle, and leaves node and queue alone.
LEMMA ServeOnlyWorks ==
    ASSUME NEW w \in Worker, Serve(w)
    PROVE  ~At(w, "idle") /\ UNCHANGED <<node, pool>>
BY DEF Serve, At, CheckRow, CheckDefault, Select, DeleteObject, InsertObject, Rollback,
       AddPermission, AddDefault, RemovePermission, HandleItemChanged, EachSubscriber,
       EachDefault, Send, Drop, DropItem, AllTold, LockSubscribs, LockItems,
       PutSubscriber, PutItem, ListItems, subscriptions, tables

LEMMA StopStep == StopInv /\ [Next]_vars => StopInv'
<1>. SUFFICES ASSUME StopInv, [Next]_vars PROVE StopInv'
  OBVIOUS
<1>. USE DEF StopInv, node, pool
<1>1. CASE NewWork
  BY <1>1 DEF NewWork, PoolDone, At
<1>2. ASSUME NEW w \in Worker, Begin(w) PROVE StopInv'
  BY <1>2 DEF Begin
<1>3. ASSUME NEW w \in Worker, Serve(w) PROVE StopInv'
  <2>1. life # "down"
    BY <1>3, ServeOnlyWorks DEF PoolDone
  <2>. QED  BY <1>3, <2>1, ServeOnlyWorks
<1>4. CASE Stop
  BY <1>4 DEF Stop, PoolDone, At
<1>5. CASE StopDb
  BY <1>5 DEF StopDb, PoolDone, At
<1>6. CASE Run
  BY <1>6 DEF Run, PoolDone, At
<1>7. CASE UNCHANGED vars
  BY <1>7 DEF vars, PoolDone, At
<1>. QED  BY <1>1, <1>2, <1>3, <1>4, <1>5, <1>6, <1>7 DEF Next

\* A thread of the pool works with a request only while the node has its
\* database (DataBaseNode::stop after AbstractNode::stop).
THEOREM WorkHasDatabase == Spec => []DbOutlivesWork
<1>1. Init => StopInv
  BY DEF Init, StopInv
<1>2. StopInv => DbOutlivesWork
  BY DEF StopInv, DbOutlivesWork, PoolDone
<1>. QED  BY <1>1, StopStep, <1>2, PTL DEF Spec
-----------------------------------------------------------------------------
(* Where the steps of a thread lead. *)

WorkOK == work \in [Worker -> {Idle} \cup Job]

LEMMA BusyHasJob ==
    ASSUME WorkOK, NEW w \in Worker, ~At(w, "idle")
    PROVE  work[w] \in Job
BY DEF WorkOK, At, Idle

LEMMA DoneMoves ==
    ASSUME NEW w \in Worker, Done(w)
    PROVE  MovesInto(w, Outside)
<1>1. Idle.at = "idle" /\ "idle" \in Outside
  BY DEF Idle, Outside, InLock, Stage
<1>. QED  BY <1>1 DEF Done, MovesInto

LEMMA GotoMoves ==
    ASSUME WorkOK, NEW w \in Worker, work[w] \in Job,
           NEW places, NEW a \in places \cap Stage, Goto(w, a)
    PROVE  MovesInto(w, places)
<1>. DEFINE j == [work[w] EXCEPT !.at = a]
<1>1. j \in Job /\ j.at = a
  BY DEF Job
<1>2. work' = [work EXCEPT ![w] = j]
  BY DEF Goto, WorkOK
<1>. QED  BY <1>1, <1>2 DEF MovesInto

LEMMA NextOfMoves ==
    ASSUME WorkOK, NEW w \in Worker, work[w] \in Job,
           NEW rest \in SUBSET Object, NextOf(w, rest)
    PROVE  MovesInto(w, Outside)
<1>1. CASE rest = {}
  BY <1>1, DoneMoves DEF NextOf
<1>2. CASE rest # {}
  <2>1. PICK o \in rest :
          work' = [work EXCEPT ![w].at = "row", ![w].obj = o, ![w].rest = rest \ {o}]
    BY <1>2 DEF NextOf
  <2>. DEFINE j == [work[w] EXCEPT !.at = "row", !.obj = o, !.rest = rest \ {o}]
  <2>2. j \in Job /\ j.at = "row"
    BY DEF Job, Stage
  <2>3. work' = [work EXCEPT ![w] = j]
    BY <2>1 DEF WorkOK
  <2>. QED  BY <2>2, <2>3 DEF MovesInto, Outside, InLock, Stage
<1>. QED  BY <1>1, <1>2

LEMMA AnsweredMoves ==
    ASSUME WorkOK, NEW w \in Worker, work[w] \in Job, NEW result, Answered(w, result)
    PROVE  MovesInto(w, Outside)
<1>1. CASE Goto(w, "act") \/ Goto(w, "tell")
  <2>1. {"act", "tell"} \subseteq Outside \cap Stage
    BY DEF Outside, InLock, Stage
  <2>. QED  BY <1>1, <2>1, GotoMoves
<1>2. CASE NextOf(w, work[w].rest)
  BY <1>2, NextOfMoves DEF Job
<1>3. CASE Done(w)
  BY <1>3, DoneMoves
<1>4. CASE /\ Op(w) = "updateOrCreate"
           /\ work' = [work EXCEPT ![w].at = "insert", ![w].req.op = "create"]
  <2>. DEFINE r == [work[w].req EXCEPT !.op = "create"]
              j == [work[w] EXCEPT !.at = "insert", !.req = r]
  <2>1. r \in Request
    BY <1>4 DEF Job, Request, Op
  <2>2. j \in Job /\ j.at = "insert"
    BY <2>1 DEF Job, Stage
  <2>3. work' = [work EXCEPT ![w] = j]
    BY <1>4 DEF WorkOK, Job
  <2>. QED  BY <2>2, <2>3 DEF MovesInto, Outside, InLock, Stage
<1>. QED  BY <1>1, <1>2, <1>3, <1>4 DEF Answered, Allowed

LEMMA EnterMoves ==
    ASSUME NEW r \in Request
    PROVE  Enter(r) \in {Idle} \cup Job /\ Enter(r).at \in Outside
<1>1. ASSUME NEW q \in Request, NEW a \in Stage \ InLock
      PROVE  Serving(q, a, {}) \in Job /\ Serving(q, a, {}).at \in Outside
  BY <1>1 DEF Serving, Job, Outside, Request, Person
<1>2. Idle.at \in Outside
  BY DEF Idle, Outside, InLock, Stage
<1>3. {"select", "row", "insert", "own", "revoke", "lockS", "list"} \subseteq Stage \ InLock
  BY DEF Stage, InLock
<1>4. r.op \in {"create", "updateOrCreate"} => [r EXCEPT !.op = "create"] \in Request
  BY DEF Request
<1>. QED  BY <1>1, <1>2, <1>3, <1>4 DEF Enter
-----------------------------------------------------------------------------
(* Types. *)

TypeInv == TypeOK /\ queued <= arrived

LEMMA TypeWork == TypeOK => WorkOK
BY DEF TypeOK, WorkOK, Job, Person

LEMMA MovedWork ==
    ASSUME WorkOK, NEW w \in Worker, NEW places, MovesInto(w, places)
    PROVE  /\ WorkOK'
           /\ work'[w].at \in places
           /\ \A v \in Worker \ {w} : work'[v] = work[v]
BY DEF MovesInto, WorkOK

\* A thread that works outside of the mutex of subscribers stays outside, and
\* changes the tables of the database only.
Apart(w) ==
    /\ work[w].at \in Outside /\ MovesInto(w, Outside)
    /\ UNCHANGED <<node, subscriptions>>

ServeTables(w) ==
    \/ CheckRow(w) \/ CheckDefault(w) \/ Select(w) \/ DeleteObject(w)
    \/ InsertObject(w) \/ Rollback(w) \/ AddPermission(w) \/ AddDefault(w)
    \/ RemovePermission(w) \/ ListItems(w)

LEMMA TablesApart ==
    ASSUME TypeOK, WorkOK, NEW w \in Worker, ServeTables(w)
    PROVE  Apart(w)
<1>1. work[w].at \in Outside /\ ~At(w, "idle") /\ UNCHANGED <<node, subscriptions>>
  BY DEF ServeTables, At, CheckRow, CheckDefault, Select, DeleteObject, InsertObject,
         Rollback, AddPermission, AddDefault, RemovePermission, ListItems,
         Outside, InLock, Stage
<1>2. work[w] \in Job
  BY <1>1, BusyHasJob
<1>. SUFFICES MovesInto(w, Outside)
  BY <1>1 DEF Apart
<1>3. {"default", "tell", "ownDefault"} \subseteq Outside \cap Stage
  BY DEF Outside, InLock, Stage
<1>4. CASE CheckRow(w)
  BY <1>2, <1>3, <1>4, GotoMoves, AnsweredMoves DEF CheckRow
<1>5. CASE CheckDefault(w)
  BY <1>2, <1>5, AnsweredMoves DEF CheckDefault
<1>6. CASE Select(w)
  BY <1>2, <1>6, DoneMoves, NextOfMoves DEF Select, TypeOK
<1>7. CASE InsertObject(w)
  BY <1>2, <1>3, <1>7, GotoMoves DEF InsertObject
<1>8. CASE AddPermission(w)
  BY <1>2, <1>3, <1>8, GotoMoves DEF AddPermission
<1>9. CASE \/ DeleteObject(w) \/ Rollback(w) \/ AddDefault(w)
           \/ RemovePermission(w) \/ ListItems(w)
  BY <1>9, DoneMoves DEF DeleteObject, Rollback, AddDefault, RemovePermission, ListItems
<1>. QED  BY <1>4, <1>5, <1>6, <1>7, <1>8, <1>9 DEF ServeTables

\* The other steps work with the subscriptions.
ServeSubscriptions(w) ==
    \/ HandleItemChanged(w) \/ EachSubscriber(w) \/ EachDefault(w) \/ Send(w)
    \/ Drop(w) \/ DropItem(w) \/ AllTold(w)
    \/ LockSubscribs(w) \/ LockItems(w) \/ PutSubscriber(w) \/ PutItem(w)

LEMMA ServeParts ==
    ASSUME NEW w \in Worker
    PROVE  Serve(w) <=> ServeTables(w) \/ ServeSubscriptions(w)
BY DEF Serve, ServeTables, ServeSubscriptions

LEMMA SubscriptionsMove ==
    ASSUME TypeOK, WorkOK, NEW w \in Worker, ServeSubscriptions(w)
    PROVE  MovesInto(w, Stage \cup {"idle"})
<1>. DEFINE All == Stage \cup {"idle"}
<1>1. ~At(w, "idle")
  BY DEF ServeSubscriptions, At, HandleItemChanged, EachSubscriber, EachDefault, Send, Drop,
         DropItem, AllTold, LockSubscribs, LockItems, PutSubscriber, PutItem
<1>2. work[w] \in Job
  BY <1>1, BusyHasJob
<1>3. ASSUME NEW a \in Stage, Goto(w, a) PROVE MovesInto(w, All)
  BY <1>2, <1>3, GotoMoves
<1>4. ASSUME NEW places \in SUBSET All, MovesInto(w, places) PROVE MovesInto(w, All)
  BY <1>4 DEF MovesInto
<1>5. Outside \subseteq All
  BY DEF Outside
<1>6. ASSUME NextSubscriber(w) PROVE MovesInto(w, All)
  <2>. DEFINE j == [work[w] EXCEPT !.at = "each", !.sub = Guest]
  <2>1. j \in Job /\ j.at \in All
    BY <1>2 DEF Job, Stage, Person
  <2>2. work' = [work EXCEPT ![w] = j]
    BY <1>6 DEF NextSubscriber, WorkOK
  <2>. QED  BY <2>1, <2>2 DEF MovesInto
<1>7. CASE HandleItemChanged(w)
  <2>. DEFINE j == [work[w] EXCEPT !.at = "each", !.told = subscribs[work[w].obj]]
  <2>1. j \in Job /\ j.at \in All
    BY <1>2 DEF Job, Stage, Person, TypeOK
  <2>2. work' = [work EXCEPT ![w] = j]
    BY <1>7 DEF HandleItemChanged, WorkOK
  <2>. QED  BY <2>1, <2>2 DEF MovesInto
<1>8. CASE EachSubscriber(w)
  <2>1. PICK m \in work[w].told, next \in {"drop", "eachDefault", "send"} :
          work' = [work EXCEPT ![w].at = next, ![w].told = @ \ {m}, ![w].sub = m]
    BY <1>8 DEF EachSubscriber
  <2>. DEFINE j == [work[w] EXCEPT !.at = next, !.told = @ \ {m}, !.sub = m]
  <2>2. j \in Job /\ j.at \in All
    BY <1>2 DEF Job, Stage
  <2>3. work' = [work EXCEPT ![w] = j]
    BY <2>1 DEF WorkOK
  <2>. QED  BY <2>2, <2>3 DEF MovesInto
<1>9. CASE EachDefault(w) \/ Drop(w) \/ LockSubscribs(w) \/ LockItems(w) \/ PutSubscriber(w)
  BY <1>3, <1>9 DEF EachDefault, Drop, LockSubscribs, LockItems, PutSubscriber, Stage
<1>10. CASE Send(w) \/ DropItem(w)
  BY <1>3, <1>6, <1>10 DEF Send, DropItem, Stage
<1>11. CASE AllTold(w)
  BY <1>2, <1>3, <1>4, <1>5, <1>11, NextOfMoves DEF AllTold, AfterTold, Stage, Job
<1>12. CASE PutItem(w)
  BY <1>4, <1>5, <1>12, DoneMoves DEF PutItem
<1>. QED  BY <1>7, <1>8, <1>9, <1>10, <1>11, <1>12 DEF ServeSubscriptions

LEMMA RightsTyped ==
    ASSUME TypeOK
    PROVE  \A pairs : RightsWithout(pairs) \in [Member -> [Object -> Level]]
<1>1. NoRow \in Level
  BY DEF NoRow, Level
<1>. QED  BY <1>1 DEF TypeOK, RightsWithout

\* Whatever a thread does, its tables and its locks keep their types.
LEMMA ServeTyped ==
    ASSUME TypeOK, WorkOK, NEW w \in Worker, Serve(w)
    PROVE  TypeOK'
<1>1. WorkOK' /\ UNCHANGED <<node, pool>>
  <2>1. WorkOK'
    BY ServeParts, TablesApart, SubscriptionsMove, MovedWork DEF Apart
  <2>. QED  BY <2>1, ServeOnlyWorks
<1>2. work[w] \in Job
  BY ServeOnlyWorks, BusyHasJob
<1>3. /\ work[w].obj \in Object /\ work[w].req.who \in Person /\ work[w].sub \in Person
      /\ work[w].req.levels[1] \in Level /\ work[w].req.levels[2] \in Level
  BY <1>2, NodeAssumption DEF Job, Request, CreatorLevels, Level, Read, Write, Person
<1>5. stored' \subseteq Object
  BY <1>3 DEF TypeOK, Serve, CheckRow, CheckDefault, Select, DeleteObject, InsertObject,
     Rollback, AddPermission, AddDefault, RemovePermission, HandleItemChanged, EachSubscriber,
     EachDefault, Send, Drop, DropItem, AllTold, LockSubscribs, LockItems, PutSubscriber,
     PutItem, ListItems, tables
<1>6. dflt' \in [Object -> Level]
  BY <1>3 DEF TypeOK, Serve, CheckRow, CheckDefault, Select, DeleteObject, InsertObject,
     Rollback, AddPermission, AddDefault, RemovePermission, HandleItemChanged, EachSubscriber,
     EachDefault, Send, Drop, DropItem, AllTold, LockSubscribs, LockItems, PutSubscriber,
     PutItem, ListItems, tables, Inserted
<1>7. rights' \in [Member -> [Object -> Level]]
  <2>. \A pairs : RightsWithout(pairs) \in [Member -> [Object -> Level]]
    BY RightsTyped
  <2>1. CASE AddPermission(w)
    BY <1>3, <2>1 DEF TypeOK, AddPermission, Inserted, Person
  <2>2. CASE RemovePermission(w)
    BY <2>2 DEF RemovePermission
  <2>3. CASE UNCHANGED rights
    BY <2>3 DEF TypeOK
  <2>. QED
    BY <2>1, <2>2, <2>3 DEF Serve, CheckRow, CheckDefault, Select, DeleteObject, InsertObject,
       Rollback, AddDefault, HandleItemChanged, EachSubscriber,
       EachDefault, Send, Drop, DropItem, AllTold, LockSubscribs, LockItems, PutSubscriber,
       PutItem, ListItems, tables
<1>8. subscribs' \in [Object -> SUBSET Person] /\ items' \in [Person -> SUBSET Object]
  <2>1. CASE Drop(w) \/ PutSubscriber(w)
    BY <1>3, <2>1 DEF TypeOK, Drop, PutSubscriber, Changed, Person
  <2>2. CASE DropItem(w) \/ PutItem(w)
    BY <1>3, <2>2 DEF TypeOK, DropItem, PutItem, Changed, Person
  <2>3. CASE UNCHANGED <<subscribs, items>>
    BY <2>3 DEF TypeOK, Person
  <2>. QED
    BY <2>1, <2>2, <2>3 DEF Serve, CheckRow, CheckDefault, Select, DeleteObject, InsertObject,
       Rollback, AddPermission, AddDefault, RemovePermission, HandleItemChanged,
       EachSubscriber, EachDefault, Send, AllTold, LockSubscribs, LockItems, ListItems,
       subscriptions
<1>9. {lockS', lockI'} \subseteq Worker \cup {Free}
  <2>1. CASE HandleItemChanged(w) \/ AllTold(w) \/ LockSubscribs(w) \/ LockItems(w) \/ PutItem(w)
    BY <2>1 DEF TypeOK, HandleItemChanged, AllTold, LockSubscribs, LockItems, PutItem
  <2>2. CASE UNCHANGED <<lockS, lockI>>
    BY <2>2 DEF TypeOK
  <2>. QED
    BY <2>1, <2>2 DEF Serve, CheckRow, CheckDefault, Select, DeleteObject, InsertObject,
       Rollback, AddPermission, AddDefault, RemovePermission, EachSubscriber, EachDefault,
       Send, Drop, DropItem, PutSubscriber, ListItems, subscriptions
<1>10. changes' \in [objects : SUBSET Object, rights : SUBSET (Member \X Object)]
  <2>1. CASE DeleteObject(w) \/ Rollback(w)
    BY <1>3, <2>1 DEF DeleteObject, Rollback, Deletion
  <2>2. CASE RemovePermission(w)
    BY <1>3, <2>2 DEF RemovePermission, Revocation
  <2>3. CASE UNCHANGED changes
    BY <2>3 DEF TypeOK
  <2>. QED
    BY <2>1, <2>2, <2>3 DEF Serve, CheckRow, CheckDefault, Select,
       InsertObject, AddPermission, AddDefault, HandleItemChanged, EachSubscriber,
       EachDefault, Send, Drop, DropItem, AllTold, LockSubscribs, LockItems, PutSubscriber,
       PutItem, ListItems, tables
<1>. QED
  BY <1>1, <1>5, <1>6, <1>7, <1>8, <1>9, <1>10 DEF TypeOK, WorkOK, Job, Person, node, pool

LEMMA BeginMoves ==
    ASSUME WorkOK, NEW w \in Worker, Begin(w)
    PROVE  MovesInto(w, Outside) /\ work[w].at \in Outside
<1>1. PICK r \in Request : work' = [work EXCEPT ![w] = Enter(r)]
  BY DEF Begin
<1>2. "idle" \in Outside
  BY DEF Outside, InLock, Stage
<1>. QED  BY <1>1, <1>2, EnterMoves DEF MovesInto, Begin, At

LEMMA TypeStep == TypeInv /\ [Next]_vars => TypeInv'
<1>. SUFFICES ASSUME TypeInv, [Next]_vars PROVE TypeInv'
  OBVIOUS
<1>1. TypeOK /\ WorkOK /\ queued <= arrived
  BY TypeWork DEF TypeInv
<1>2. CASE NewWork
  BY <1>1, <1>2, NodeAssumption
     DEF NewWork, TypeInv, TypeOK, node, tables, subscriptions
<1>3. ASSUME NEW w \in Worker, Begin(w) PROVE TypeInv'
  <2>1. WorkOK'
    BY <1>1, <1>3, BeginMoves, MovedWork
  <2>. QED
    BY <1>1, <1>3, <2>1, NodeAssumption
       DEF Begin, TypeInv, TypeOK, WorkOK, Job, Person, node, tables, subscriptions
<1>4. ASSUME NEW w \in Worker, Serve(w) PROVE TypeInv'
  BY <1>1, <1>4, ServeTyped, ServeOnlyWorks DEF TypeInv, pool
<1>5. CASE Stop
  <2>1. queued' = 0 /\ queued' \in 0..MaxRequests /\ queued' <= arrived'
    BY <1>1, <1>5, NodeAssumption DEF Stop, TypeOK
  <2>2. life' \in {"up", "stopping", "down"} /\ UNCHANGED <<db, runs, arrived, work, tables, subscriptions>>
    BY <1>5 DEF Stop
  <2>. QED  BY <1>1, <2>1, <2>2 DEF TypeInv, TypeOK, tables, subscriptions
<1>8. CASE StopDb
  BY <1>1, <1>8, RightsTyped
     DEF StopDb, Flush, NoChanges, TypeInv, TypeOK, pool, subscriptions
<1>6. CASE Run
  BY <1>1, <1>6, NodeAssumption DEF Run, TypeInv, TypeOK, pool, tables, subscriptions
<1>7. CASE UNCHANGED vars
  BY <1>1, <1>7 DEF vars, TypeInv, TypeOK, node, pool, tables, subscriptions
<1>. QED  BY <1>2, <1>3, <1>4, <1>5, <1>6, <1>7, <1>8 DEF Next

LEMMA TypeInit == Init => TypeInv
BY NodeAssumption DEF Init, TypeInv, TypeOK, Level, NoRow, NoChanges

\* The state of a node is well formed.
THEOREM TypeCorrectness == Spec => []TypeOK
<1>1. TypeInv => TypeOK
  BY DEF TypeInv
<1>. QED  BY TypeInit, TypeStep, <1>1, PTL DEF Spec

-----------------------------------------------------------------------------
(* The subscriptions. *)

\* _subscribsMutex is held by whoever is at a place between its locks.
Holds(w) == lockS = w <=> work[w].at \in InLock

\* A pair of an item and a member for which a thread has changed one table, and
\* has yet to change the other.
InHand(w, o, m) ==
    \/ At(w, "dropItem") /\ o = work[w].obj /\ m = work[w].sub
    \/ At(w, "putItem") /\ o = work[w].obj /\ m = work[w].req.who

\* What it has written to the one table.
Written(w) ==
    /\ At(w, "dropItem") => work[w].sub \notin subscribs[work[w].obj]
    /\ At(w, "putItem") =>
          (work[w].req.who \in subscribs[work[w].obj] <=> Op(w) = "subscribe")

\* A thread that announces a change works through members that are subscribed;
\* the one in hand is not told again.
Telling(w) ==
    work[w].at \in {"each", "eachDefault", "send", "drop", "dropItem"} =>
        /\ work[w].told \subseteq subscribs[work[w].obj]
        /\ ~At(w, "each") => work[w].sub \notin work[w].told
        /\ work[w].at \in {"eachDefault", "send"} => work[w].sub \in subscribs[work[w].obj]

Differ(o, m) == ~(m \in subscribs[o] <=> o \in items[m])

SubscriptionInv ==
    /\ \A w \in Worker : Holds(w) /\ Written(w) /\ Telling(w)
    /\ \A o \in Object, m \in Person :
          Differ(o, m) => \E w \in Worker : InHand(w, o, m)

LEMMA OutsideNotInLock == Outside \cap InLock = {}
BY DEF Outside

\* If nobody else holds the mutex, the tables differ only in what is in hand.
LEMMA OnlyOneHolds ==
    ASSUME SubscriptionInv, NEW w \in Worker, lockS = w \/ lockS = Free
    PROVE  /\ \A v \in Worker \ {w} : work[v].at \notin InLock
           /\ \A o \in Object, m \in Person : Differ(o, m) => InHand(w, o, m)
<1>1. \A v \in Worker \ {w} : work[v].at \notin InLock
  BY NodeAssumption DEF SubscriptionInv, Holds
<1>2. \A v, o, m : InHand(v, o, m) => work[v].at \in InLock
  BY DEF InHand, At, InLock
<1>. QED  BY <1>1, <1>2 DEF SubscriptionInv

\* A step of the thread that holds the mutex, takes it or gives it back.
LEMMA HolderSteps ==
    ASSUME WorkOK, SubscriptionInv, NEW w \in Worker, NEW places, MovesInto(w, places),
           lockS = w \/ lockS = Free,
           lockS' = IF work'[w].at \in InLock THEN w ELSE Free,
           Written(w)', Telling(w)',
           \A o \in Object, m \in Person : Differ(o, m)' => InHand(w, o, m)'
    PROVE  SubscriptionInv'
<1>1. \A v \in Worker \ {w} : work'[v] = work[v] /\ work[v].at \notin InLock
  BY MovedWork, OnlyOneHolds
<1>2. ASSUME NEW v \in Worker \ {w} PROVE Holds(v)' /\ Written(v)' /\ Telling(v)'
  <2>1. work'[v].at \notin InLock
    BY <1>1, <1>2
  <2>2. lockS' # v
    BY <1>2, NodeAssumption
  <2>. QED  BY <2>1, <2>2 DEF Holds, Written, Telling, At, InLock
<1>3. Holds(w)'
  BY NodeAssumption DEF Holds
<1>. QED  BY <1>2, <1>3 DEF SubscriptionInv

\* A step outside of the mutex.
LEMMA ApartSteps ==
    ASSUME WorkOK, SubscriptionInv, NEW w \in Worker, Apart(w)
    PROVE  SubscriptionInv'
<1>1. /\ work[w].at \notin InLock /\ work'[w].at \notin InLock
      /\ \A v \in Worker \ {w} : work'[v] = work[v]
      /\ UNCHANGED <<subscribs, items, lockS>>
  BY MovedWork, OutsideNotInLock DEF Apart, subscriptions
<1>2. ASSUME NEW v \in Worker PROVE Holds(v)' /\ Written(v)' /\ Telling(v)'
  <2>1. CASE v = w
    BY <1>1, <2>1 DEF SubscriptionInv, Holds, Written, Telling, At, InLock
  <2>2. CASE v # w
    BY <1>1, <1>2, <2>2 DEF SubscriptionInv, Holds, Written, Telling, At, Op
  <2>. QED  BY <2>1, <2>2
<1>3. ASSUME NEW o \in Object, NEW m \in Person, Differ(o, m)'
      PROVE  \E v \in Worker : InHand(v, o, m)'
  <2>1. PICK v \in Worker : InHand(v, o, m)
    BY <1>1, <1>3 DEF SubscriptionInv, Differ
  <2>2. v # w
    BY <1>1, <2>1 DEF InHand, At, InLock
  <2>. QED  BY <1>1, <2>1, <2>2 DEF InHand, At
<1>. QED  BY <1>2, <1>3 DEF SubscriptionInv

LEMMA ServeSubscriptionsStep ==
    ASSUME TypeOK, WorkOK, SubscriptionInv, NEW w \in Worker, ServeSubscriptions(w)
    PROVE  SubscriptionInv'
<1>. DEFINE Agreed == /\ lockS = w \/ lockS = Free
                      /\ lockS' = IF work'[w].at \in InLock THEN w ELSE Free
                      /\ Written(w)' /\ Telling(w)'
                      /\ \A o \in Object, m \in Person : Differ(o, m)' => InHand(w, o, m)'
<1>. SUFFICES Agreed
  BY SubscriptionsMove, HolderSteps
<1>1. ~At(w, "idle")
  BY ServeParts, ServeOnlyWorks
<1>2. /\ work[w] \in Job /\ work[w].obj \in Object /\ work[w].told \subseteq Person
      /\ work[w].sub \in Person /\ work[w].req.who \in Person
  BY <1>1, BusyHasJob DEF Job, Request, Person
<1>3. Holds(w) /\ Written(w) /\ Telling(w)
  BY DEF SubscriptionInv
<1>4. lockS = w \/ lockS = Free =>
        \A o \in Object, m \in Person : Differ(o, m) => InHand(w, o, m)
  BY OnlyOneHolds
<1>5. /\ subscribs \in [Object -> SUBSET Person] /\ items \in [Person -> SUBSET Object]
  BY DEF TypeOK, Person
<1>. USE DEF WorkOK
<1>6. CASE HandleItemChanged(w)
  <2>1. /\ lockS = Free /\ lockS' = w /\ UNCHANGED <<subscribs, items>>
        /\ work'[w].at = "each" /\ work'[w].told = subscribs[work[w].obj]
        /\ work'[w].obj = work[w].obj /\ At(w, "tell")
    BY <1>2, <1>6 DEF HandleItemChanged, Job, At
  <2>2. \A o \in Object, m \in Person : ~Differ(o, m)
    BY <2>1, <1>4 DEF InHand, At
  <2>. QED  BY <2>1, <2>2 DEF InLock, Written, Telling, Differ, At
<1>7. CASE EachSubscriber(w)
  <2>1. PICK m \in work[w].told, next \in {"drop", "eachDefault", "send"} :
          work' = [work EXCEPT ![w].at = next, ![w].told = @ \ {m}, ![w].sub = m]
    BY <1>7 DEF EachSubscriber
  <2>2. /\ At(w, "each") /\ UNCHANGED <<subscribs, items, lockS>>
        /\ work'[w].at = next /\ work'[w].told = work[w].told \ {m}
        /\ work'[w].obj = work[w].obj /\ work'[w].sub = m
    BY <1>2, <1>7, <2>1 DEF EachSubscriber, subscriptions, Job
  <2>3. lockS = w /\ work[w].told \subseteq subscribs[work[w].obj]
    BY <1>3, <2>2 DEF Holds, Telling, At, InLock
  <2>4. \A o \in Object, p \in Person : ~Differ(o, p)
    BY <1>4, <2>2, <2>3 DEF InHand, At
  <2>. QED  BY <2>2, <2>3, <2>4 DEF InLock, Written, Telling, Differ, At
<1>8. CASE EachDefault(w) \/ Send(w)
  <2>1. /\ work[w].at \in {"eachDefault", "send"} /\ UNCHANGED <<subscribs, items, lockS>>
        /\ work'[w].at \in {"send", "drop", "each"}
        /\ work'[w].at # "each" => work'[w].sub = work[w].sub
        /\ work'[w].obj = work[w].obj /\ work'[w].told = work[w].told
    BY <1>2, <1>8 DEF EachDefault, Send, NextSubscriber, Goto, subscriptions, Job, At
  <2>2. lockS = w
    BY <1>3, <2>1 DEF Holds, InLock
  <2>3. \A o \in Object, p \in Person : ~Differ(o, p)
    BY <1>4, <2>1, <2>2 DEF InHand, At
  <2>. QED  BY <1>3, <2>1, <2>2, <2>3 DEF InLock, Written, Telling, Differ, At
<1>9. CASE Drop(w)
  <2>1. /\ At(w, "drop") /\ UNCHANGED <<items, lockS>>
        /\ work'[w].at = "dropItem" /\ work'[w].sub = work[w].sub
        /\ work'[w].obj = work[w].obj /\ work'[w].told = work[w].told
        /\ subscribs' = [subscribs EXCEPT ![work[w].obj] = @ \ {work[w].sub}]
    BY <1>2, <1>9 DEF Drop, Goto, Job
  <2>2. lockS = w
    BY <1>3, <2>1 DEF Holds, InLock, At
  <2>3. \A o \in Object, p \in Person : ~Differ(o, p)
    BY <1>4, <2>1, <2>2 DEF InHand, At
  <2>4. Written(w)' /\ Telling(w)'
    BY <1>2, <1>3, <1>5, <2>1 DEF Written, Telling, At
  <2>5. ASSUME NEW o \in Object, NEW p \in Person, Differ(o, p)' PROVE InHand(w, o, p)'
    BY <1>2, <1>5, <2>1, <2>3, <2>5 DEF Differ, InHand, At
  <2>. QED  BY <2>1, <2>2, <2>4, <2>5 DEF InLock
<1>10. CASE DropItem(w)
  <2>1. /\ At(w, "dropItem") /\ UNCHANGED <<subscribs, lockS>>
        /\ work'[w].at = "each"
        /\ work'[w].obj = work[w].obj /\ work'[w].told = work[w].told
        /\ items' = [items EXCEPT ![work[w].sub] = @ \ {work[w].obj}]
    BY <1>2, <1>10 DEF DropItem, NextSubscriber, Job
  <2>2. lockS = w
    BY <1>3, <2>1 DEF Holds, InLock, At
  <2>3. \A o \in Object, p \in Person :
          Differ(o, p) => o = work[w].obj /\ p = work[w].sub
    BY <1>4, <2>1, <2>2 DEF InHand, At
  <2>4. Written(w)' /\ Telling(w)'
    BY <1>3, <2>1 DEF Written, Telling, At
  <2>5. \A o \in Object, p \in Person : ~Differ(o, p)'
    BY <1>2, <1>3, <1>5, <2>1, <2>3 DEF Differ, Written
  <2>. QED  BY <2>1, <2>2, <2>4, <2>5 DEF InLock
<1>11. CASE AllTold(w)
  <2>1. At(w, "each") /\ lockS' = Free /\ UNCHANGED <<subscribs, items>>
    BY <1>11 DEF AllTold
  <2>2. work'[w].at \in Outside
    <3>1. CASE Goto(w, "own")
      BY <1>2, <3>1 DEF Goto, Job, Outside, InLock, Stage
    <3>2. CASE NextOf(w, work[w].rest)
      BY <1>2, <3>2, NextOfMoves, MovedWork DEF Job
    <3>. QED  BY <1>11, <3>1, <3>2 DEF AllTold, AfterTold
  <2>3. lockS = w
    BY <1>3, <2>1 DEF Holds, InLock, At
  <2>4. \A o \in Object, p \in Person : ~Differ(o, p)
    BY <1>4, <2>1, <2>3 DEF InHand, At
  <2>. QED
    BY <2>1, <2>2, <2>3, <2>4, OutsideNotInLock DEF Written, Telling, Differ, At, InLock
<1>12. CASE LockSubscribs(w)
  <2>1. /\ At(w, "lockS") /\ lockS = Free /\ lockS' = w /\ UNCHANGED <<subscribs, items>>
        /\ work'[w].at = "lockI"
    BY <1>2, <1>12 DEF LockSubscribs, Goto, Job
  <2>2. \A o \in Object, p \in Person : ~Differ(o, p)
    BY <1>4, <2>1 DEF InHand, At
  <2>. QED  BY <2>1, <2>2 DEF InLock, Written, Telling, Differ, At
<1>13. CASE LockItems(w)
  <2>1. /\ At(w, "lockI") /\ UNCHANGED <<subscribs, items, lockS>> /\ work'[w].at = "put"
    BY <1>2, <1>13 DEF LockItems, Goto, Job
  <2>2. lockS = w
    BY <1>3, <2>1 DEF Holds, InLock, At
  <2>3. \A o \in Object, p \in Person : ~Differ(o, p)
    BY <1>4, <2>1, <2>2 DEF InHand, At
  <2>. QED  BY <2>1, <2>2, <2>3 DEF InLock, Written, Telling, Differ, At
<1>14. CASE PutSubscriber(w)
  <2>1. /\ At(w, "put") /\ UNCHANGED <<items, lockS>>
        /\ work'[w].at = "putItem" /\ work'[w].obj = work[w].obj
        /\ work'[w].req = work[w].req
        /\ subscribs' = [subscribs EXCEPT ![work[w].obj] = Changed(w, @, work[w].req.who)]
    BY <1>2, <1>14 DEF PutSubscriber, Goto, Job
  <2>2. lockS = w
    BY <1>3, <2>1 DEF Holds, InLock, At
  <2>3. \A o \in Object, p \in Person : ~Differ(o, p)
    BY <1>4, <2>1, <2>2 DEF InHand, At
  <2>4. Written(w)' /\ Telling(w)'
    BY <1>2, <1>5, <2>1 DEF Written, Telling, At, Changed, Op
  <2>5. ASSUME NEW o \in Object, NEW p \in Person, Differ(o, p)' PROVE InHand(w, o, p)'
    BY <1>2, <1>5, <2>1, <2>3, <2>5 DEF Differ, InHand, At, Changed
  <2>. QED  BY <2>1, <2>2, <2>4, <2>5 DEF InLock
<1>15. CASE PutItem(w)
  <2>1. /\ At(w, "putItem") /\ UNCHANGED subscribs /\ lockS' = Free
        /\ work'[w].at = "idle"
        /\ items' = [items EXCEPT ![work[w].req.who] = Changed(w, @, work[w].obj)]
    BY <1>2, <1>15 DEF PutItem, Done, Idle
  <2>2. lockS = w
    BY <1>3, <2>1 DEF Holds, InLock, At
  <2>3. \A o \in Object, p \in Person :
          Differ(o, p) => o = work[w].obj /\ p = work[w].req.who
    BY <1>4, <2>1, <2>2 DEF InHand, At
  <2>4. \A o \in Object, p \in Person : ~Differ(o, p)'
    BY <1>2, <1>3, <1>5, <2>1, <2>3 DEF Differ, Written, Changed
  <2>. QED  BY <2>1, <2>2, <2>4 DEF InLock, Written, Telling, At
<1>. QED
  BY <1>6, <1>7, <1>8, <1>9, <1>10, <1>11, <1>12, <1>13, <1>14, <1>15 DEF ServeSubscriptions

LEMMA SubscriptionStep == TypeInv /\ SubscriptionInv /\ [Next]_vars => SubscriptionInv'
<1>. SUFFICES ASSUME TypeInv, SubscriptionInv, [Next]_vars PROVE SubscriptionInv'
  OBVIOUS
<1>1. TypeOK /\ WorkOK
  BY TypeWork DEF TypeInv
<1>2. ASSUME NEW w \in Worker, Serve(w) PROVE SubscriptionInv'
  BY <1>1, <1>2, ServeParts, TablesApart, ApartSteps, ServeSubscriptionsStep
<1>3. ASSUME NEW w \in Worker, Begin(w) PROVE SubscriptionInv'
  BY <1>1, <1>3, BeginMoves, ApartSteps DEF Apart, Begin, node
<1>4. CASE UNCHANGED <<work, subscriptions>>
  BY <1>4 DEF subscriptions, SubscriptionInv, Holds, Written, Telling, Differ, InHand, At, Op
<1>. QED  BY <1>2, <1>3, <1>4 DEF Next, NewWork, Stop, StopDb, Run, vars

LEMMA SubscriptionInit == Init => SubscriptionInv
BY NodeAssumption
   DEF Init, SubscriptionInv, Holds, Written, Telling, Differ, At, Idle, InLock, Person

\* The two tables of WebSocketController say the same whenever nobody holds
\* _subscribsMutex, for any number of threads that change them.
THEOREM SubscriptionsMirror == Spec => []Mirror
<1>1. SubscriptionInv => Mirror
  BY NodeAssumption DEF SubscriptionInv, Mirror, Holds, InHand, Differ, At, InLock, Person
<1>. QED  BY TypeInit, TypeStep, SubscriptionInit, SubscriptionStep, <1>1, PTL DEF Spec

\* foreachSubscribers tells a change to nobody but subscribers of the item.
THEOREM OnlySubscribersTold == Spec => []ToldAreSubscribed
<1>1. SubscriptionInv => ToldAreSubscribed
  BY DEF SubscriptionInv, ToldAreSubscribed, Telling, At
<1>. QED  BY TypeInit, TypeStep, SubscriptionInit, SubscriptionStep, <1>1, PTL DEF Spec

-----------------------------------------------------------------------------
(* Created objects. *)

CreatePlaces == {"insert", "tell", "each", "eachDefault", "send", "drop", "dropItem",
                 "own", "ownDefault"}

Creating(w, o) == ~At(w, "idle") /\ Op(w) = "create" /\ work[w].obj = o

\* Creations go through the places of createObject, and nothing else inserts.
Tidy(w) ==
    ~At(w, "idle") => /\ Op(w) = "create" => work[w].at \in CreatePlaces
                      /\ At(w, "insert") => Op(w) = "create"

\* The default of an object is never removed, so that an object that is stored has
\* one, or a thread that creates it.
CreateInv ==
    /\ \A w \in Worker : Tidy(w)
    /\ \A o \in stored \ System : dflt[o] # NoRow \/ \E w \in Worker : Creating(w, o)

\* What a step of a thread has to do for CreateInv.
CreateStep(w) ==
    /\ Tidy(w)'
    /\ \A o \in stored' \ stored : Creating(w, o)'
    /\ \A o \in Object : dflt[o] # NoRow => dflt'[o] # NoRow
    /\ \A o \in Object :
          Creating(w, o) => Creating(w, o)' \/ o \notin stored' \/ dflt'[o] # NoRow

LEMMA CreateSteps ==
    ASSUME TypeOK, WorkOK, CreateInv, NEW w \in Worker, NEW places, MovesInto(w, places),
           CreateStep(w)
    PROVE  CreateInv'
<1>1. \A v \in Worker \ {w} : work'[v] = work[v]
  BY MovedWork
<1>2. ASSUME NEW v \in Worker PROVE Tidy(v)'
  BY <1>1 DEF CreateInv, CreateStep, Tidy, At, Op
<1>3. ASSUME NEW o \in stored' \ System
      PROVE  dflt'[o] # NoRow \/ \E v \in Worker : Creating(v, o)'
  <2>1. CASE o \notin stored
    BY <1>3, <2>1 DEF CreateStep
  <2>2. CASE o \in stored /\ dflt[o] # NoRow
    BY <2>2 DEF CreateStep, TypeOK
  <2>3. CASE o \in stored /\ dflt[o] = NoRow
    <3>1. PICK v \in Worker : Creating(v, o)
      BY <1>3, <2>3 DEF CreateInv
    <3>2. CASE v = w
      BY <1>3, <2>3, <3>1, <3>2 DEF CreateStep, TypeOK
    <3>3. CASE v # w
      BY <1>1, <3>1, <3>3 DEF Creating, At, Op
    <3>. QED  BY <3>2, <3>3
  <2>. QED  BY <2>1, <2>2, <2>3
<1>. QED  BY <1>2, <1>3 DEF CreateInv

\* Where the request stays what it is, and the tables too.
LEMMA SameRequest ==
    ASSUME NEW w \in Worker, Tidy(w), ~At(w, "idle"), UNCHANGED <<stored, dflt>>,
           work'[w].req = work[w].req, work'[w].obj = work[w].obj, work'[w].at \in Stage,
           work'[w].at # "insert",
           Op(w) = "create" => work'[w].at \in CreatePlaces
    PROVE  CreateStep(w)
BY DEF CreateStep, Tidy, Creating, At, Op, Stage

\* Where the request is no creation.
LEMMA NoCreation ==
    ASSUME NEW w \in Worker, ~At(w, "idle"), Op(w) # "create", stored' \subseteq stored,
           \A o \in Object : dflt[o] # NoRow => dflt'[o] # NoRow,
           Tidy(w)'
    PROVE  CreateStep(w)
BY DEF CreateStep, Creating

LEMMA DoneTidy ==
    ASSUME WorkOK, NEW w \in Worker, Done(w)
    PROVE  Tidy(w)'
BY DEF WorkOK, Done, Tidy, At, Idle

LEMMA NextOfTidy ==
    ASSUME WorkOK, NEW w \in Worker, work[w] \in Job, Op(w) # "create",
           NEW rest, NextOf(w, rest)
    PROVE  Tidy(w)'
<1>1. CASE rest = {}
  BY <1>1, DoneTidy DEF NextOf
<1>2. CASE rest # {}
  <2>1. work'[w].at = "row" /\ work'[w].req = work[w].req
    <3>1. PICK o \in rest :
             work' = [work EXCEPT ![w].at = "row", ![w].obj = o, ![w].rest = rest \ {o}]
      BY <1>2 DEF NextOf
    <3>2. work'[w] = [work[w] EXCEPT !.at = "row", !.obj = o, !.rest = rest \ {o}]
      BY <3>1 DEF WorkOK
    <3>. QED  BY <3>2 DEF Job
  <2>. QED  BY <2>1 DEF Tidy, At, Op
<1>. QED  BY <1>1, <1>2

LEMMA AnsweredTidy ==
    ASSUME WorkOK, NEW w \in Worker, work[w] \in Job, Op(w) # "create",
           NEW result, Answered(w, result)
    PROVE  Tidy(w)'
<1>1. ASSUME NEW a \in {"act", "tell"}, Goto(w, a) PROVE Tidy(w)'
  <2>1. work'[w].at = a /\ work'[w].req = work[w].req
    BY <1>1 DEF Goto, WorkOK, Job
  <2>. QED  BY <2>1 DEF Tidy, At, Op
<1>2. CASE work' = [work EXCEPT ![w].at = "insert", ![w].req.op = "create"]
  <2>1. work'[w].at = "insert" /\ work'[w].req.op = "create"
    BY <1>2 DEF WorkOK, Job, Request
  <2>. QED  BY <2>1 DEF Tidy, At, Op, CreatePlaces
<1>. QED  BY <1>1, <1>2, DoneTidy, NextOfTidy DEF Answered, Allowed

LEMMA ServeCreates ==
    ASSUME TypeOK, WorkOK, CreateInv, NEW w \in Worker, Serve(w)
    PROVE  CreateStep(w)
<1>1. ~At(w, "idle")
  BY ServeOnlyWorks
<1>2. Tidy(w) /\ work[w] \in Job /\ work[w].obj \in Object
  BY <1>1, BusyHasJob DEF CreateInv, Job
<1>3. ASSUME NEW a \in Stage \ {"insert"}, Goto(w, a), UNCHANGED <<stored, dflt>>,
             Op(w) = "create" => a \in CreatePlaces
      PROVE  CreateStep(w)
  <2>1. work'[w].at = a /\ work'[w].req = work[w].req /\ work'[w].obj = work[w].obj
    BY <1>2, <1>3 DEF Goto, WorkOK, Job
  <2>. QED  BY <1>1, <1>2, <1>3, <2>1, SameRequest
<1>4. ASSUME NextSubscriber(w), UNCHANGED <<stored, dflt>> PROVE CreateStep(w)
  <2>1. /\ work'[w].at = "each" /\ work'[w].req = work[w].req
        /\ work'[w].obj = work[w].obj
    BY <1>2, <1>4 DEF NextSubscriber, WorkOK, Job
  <2>. QED  BY <1>1, <1>2, <1>4, <2>1, SameRequest DEF Stage, CreatePlaces
<1>5. CASE CheckRow(w) \/ CheckDefault(w)
  <2>1. Op(w) # "create" /\ UNCHANGED <<stored, dflt>>
    BY <1>1, <1>2, <1>5 DEF CheckRow, CheckDefault, Tidy, At, CreatePlaces, tables
  <2>2. Tidy(w)' \/ Goto(w, "default")
    BY <1>2, <1>5, <2>1, AnsweredTidy DEF CheckRow, CheckDefault
  <2>3. CASE Tidy(w)'
    BY <1>1, <2>1, <2>3, NoCreation
  <2>4. CASE Goto(w, "default")
    BY <1>3, <2>1, <2>4 DEF Stage
  <2>. QED  BY <2>2, <2>3, <2>4
<1>6. CASE Select(w) \/ DeleteObject(w) \/ RemovePermission(w) \/ ListItems(w) \/ PutItem(w)
  <2>1. Op(w) # "create" /\ stored' \subseteq stored /\ UNCHANGED dflt
    BY <1>1, <1>2, <1>6
       DEF Select, DeleteObject, RemovePermission, ListItems, PutItem, Tidy, At,
           CreatePlaces, tables
  <2>2. Tidy(w)'
    BY <1>2, <1>6, <2>1, DoneTidy, NextOfTidy
       DEF Select, DeleteObject, RemovePermission, ListItems, PutItem
  <2>. QED  BY <1>1, <2>1, <2>2, NoCreation
<1>7. CASE InsertObject(w)
  <2>1. /\ work'[w].at = "tell" /\ work'[w].req = work[w].req
        /\ work'[w].obj = work[w].obj
    BY <1>2, <1>7 DEF InsertObject, Goto, WorkOK, Job
  <2>2. Op(w) = "create"
    BY <1>1, <1>2, <1>7 DEF InsertObject, Tidy
  <2>3. UNCHANGED dflt /\ stored' = stored \cup {work[w].obj}
    BY <1>7 DEF InsertObject
  <2>. QED
    BY <2>1, <2>2, <2>3 DEF CreateStep, Creating, Tidy, At, Op, CreatePlaces
<1>8. CASE Rollback(w)
  <2>1. Tidy(w)'
    BY <1>8, DoneTidy DEF Rollback
  <2>. QED  BY <1>8, <2>1 DEF Rollback, CreateStep, Creating
<1>9. CASE AddPermission(w)
  BY <1>3, <1>9 DEF AddPermission, Stage, CreatePlaces
<1>10. CASE AddDefault(w)
  <2>1. Tidy(w)'
    BY <1>10, DoneTidy DEF AddDefault
  <2>2. work[w].req.levels[2] # NoRow
    BY <1>2, NodeAssumption DEF Job, Request, CreatorLevels, NoRow, Read, Write
  <2>3. dflt' = [dflt EXCEPT ![work[w].obj] = Inserted(@, work[w].req.levels[2])]
    BY <1>10 DEF AddDefault
  <2>4. dflt'[work[w].obj] # NoRow
    BY <1>2, <2>2, <2>3 DEF TypeOK, Inserted
  <2>5. \A o \in Object : dflt[o] # NoRow => dflt'[o] # NoRow
    BY <1>2, <2>3, <2>4 DEF TypeOK
  <2>. QED  BY <1>10, <2>1, <2>4, <2>5 DEF AddDefault, CreateStep, Creating
<1>11. CASE HandleItemChanged(w)
  <2>1. /\ work'[w].at = "each" /\ work'[w].req = work[w].req
        /\ work'[w].obj = work[w].obj /\ UNCHANGED <<stored, dflt>>
    BY <1>2, <1>11 DEF HandleItemChanged, WorkOK, Job, tables
  <2>. QED  BY <1>1, <1>2, <2>1, SameRequest DEF Stage, CreatePlaces
<1>12. CASE EachSubscriber(w)
  <2>1. PICK m \in work[w].told, next \in {"drop", "eachDefault", "send"} :
          work' = [work EXCEPT ![w].at = next, ![w].told = @ \ {m}, ![w].sub = m]
    BY <1>12 DEF EachSubscriber
  <2>2. /\ work'[w].at = next /\ work'[w].req = work[w].req
        /\ work'[w].obj = work[w].obj /\ UNCHANGED <<stored, dflt>>
    BY <1>2, <1>12, <2>1 DEF EachSubscriber, WorkOK, Job, tables
  <2>. QED  BY <1>1, <1>2, <2>2, SameRequest DEF Stage, CreatePlaces
<1>13. CASE EachDefault(w) \/ Send(w) \/ Drop(w) \/ DropItem(w)
  BY <1>3, <1>4, <1>13 DEF EachDefault, Send, Drop, DropItem, Stage, CreatePlaces, tables
<1>14. CASE AllTold(w)
  <2>1. CASE Op(w) = "create"
    BY <1>3, <1>14, <2>1 DEF AllTold, AfterTold, Stage, CreatePlaces, tables
  <2>2. CASE Op(w) # "create"
    <3>1. Tidy(w)'
      BY <1>2, <1>14, <2>2, NextOfTidy DEF AllTold, AfterTold
    <3>. QED  BY <1>1, <1>14, <2>2, <3>1, NoCreation DEF AllTold, tables
  <2>. QED  BY <2>1, <2>2
<1>15. CASE LockSubscribs(w) \/ LockItems(w) \/ PutSubscriber(w)
  <2>1. Op(w) # "create"
    BY <1>1, <1>2, <1>15
       DEF LockSubscribs, LockItems, PutSubscriber, Tidy, At, CreatePlaces
  <2>. QED  BY <1>3, <1>15, <2>1 DEF LockSubscribs, LockItems, PutSubscriber, Stage, tables
<1>. QED
  BY <1>5, <1>6, <1>7, <1>8, <1>9, <1>10, <1>11, <1>12, <1>13, <1>14, <1>15 DEF Serve

LEMMA EnterTidy ==
    ASSUME NEW r \in Request, Enter(r) # Idle
    PROVE  /\ Enter(r).req.op = "create" => Enter(r).at \in CreatePlaces
           /\ Enter(r).at = "insert" => Enter(r).req.op = "create"
<1>1. [r EXCEPT !.op = "create"].op = "create"
  BY DEF Request
<1>. QED  BY <1>1 DEF Enter, Serving, CreatePlaces, Checked, Need

LEMMA CreateNext == TypeInv /\ CreateInv /\ [Next]_vars => CreateInv'
<1>. SUFFICES ASSUME TypeInv, CreateInv, [Next]_vars PROVE CreateInv'
  OBVIOUS
<1>1. TypeOK /\ WorkOK
  BY TypeWork DEF TypeInv
<1>2. ASSUME NEW w \in Worker, Serve(w) PROVE CreateInv'
  <2>1. \E places : MovesInto(w, places)
    BY <1>1, <1>2, ServeParts, TablesApart, SubscriptionsMove DEF Apart
  <2>. QED  BY <1>1, <1>2, <2>1, ServeCreates, CreateSteps
<1>3. ASSUME NEW w \in Worker, Begin(w) PROVE CreateInv'
  <2>1. PICK r \in Request : work' = [work EXCEPT ![w] = Enter(r)]
    BY <1>3 DEF Begin
  <2>2. work'[w] = Enter(r)
    BY <1>1, <2>1 DEF WorkOK
  <2>3. Tidy(w)'
    BY <2>2, EnterTidy DEF Tidy, At, Op, Idle
  <2>4. CreateStep(w)
    BY <1>3, <2>3 DEF Begin, CreateStep, Creating, tables
  <2>. QED  BY <1>1, <1>3, <2>4, BeginMoves, CreateSteps
<1>4. CASE UNCHANGED <<work, tables>>
  BY <1>4 DEF tables, CreateInv, Tidy, Creating, At, Op
<1>5. CASE StopDb
  <2>1. stored' \subseteq stored /\ UNCHANGED <<work, dflt>>
    BY <1>5 DEF StopDb, Flush
  <2>. QED  BY <2>1 DEF CreateInv, Tidy, Creating, At, Op
<1>. QED  BY <1>2, <1>3, <1>4, <1>5 DEF Next, NewWork, Stop, Run, vars

\* An object that createObject stores has a permission, whatever else is done to
\* the objects and the permissions meanwhile, or a thread is about to give it one.
THEOREM CreatedIsOwned == Spec => []NoOrphan
<1>1. Init => CreateInv
  BY DEF Init, CreateInv, Tidy, At, Idle
<1>2. TypeInv /\ CreateInv => NoOrphan
  BY DEF TypeInv, TypeOK, CreateInv, NoOrphan, Creating
<1>. QED  BY TypeInit, TypeStep, <1>1, CreateNext, <1>2, PTL DEF Spec

==============================================================================
