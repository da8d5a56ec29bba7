---------------------------- MODULE DataBaseNode ----------------------------
(***************************************************************************)
(* A DataBaseNode serving requests: the pool of threads that work with     *)
(* packages (AbstractNode::newWork), the checked access to the objects of  *)
(* the database, and the subscriptions to their changes.                   *)
(*                                                                         *)
(* A request runs in a thread of the pool and every access it makes to the *)
(* database is a step of its own: the jobs of the writer thread run in the *)
(* order in which they were posted, so a posted job may be taken as done;  *)
(* the jobs that a stop may cut off are in SqlDBCache.                     *)
(* The cache is SqlDB, the one a node has by default: it keeps nothing,    *)
(* inserts and updates are posted without waiting and answered TRUE at     *)
(* once, and what SQL refuses later is only logged.  Of the deletions it   *)
(* queues the last one, though it was done, until the stop.  The value of  *)
(* an object plays no part, so the table of objects is the set `stored'.   *)
(***************************************************************************)
EXTENDS Integers

CONSTANTS Member,       \* members; their rows in NetworkMembers come and go
          Guest,        \* the invalid id of a peer that has not logged in
          Object,       \* addresses of objects; they are also the items subscribed to
          System,       \* the objects of the system tables
          Worker,       \* the threads of the pool
          Grant,        \* pairs <<level, default level>> given to addUpdatePermission
          MaxRequests,  \* bound on the packages that arrive
          MaxRuns       \* bound on the starts of the node

Free == "free"       \* a mutex that nobody holds

ASSUME NodeAssumption ==
    /\ Guest \notin Member /\ Free \notin Worker /\ System \subseteq Object
    /\ Grant \subseteq (0..3) \X (0..3)
    /\ MaxRequests \in Nat /\ MaxRuns \in Nat \ {0}

VARIABLES life,       \* "up", "stopping": stop() waits for the pool, "down"
          db,         \* _db is not null
          runs,       \* starts so far
          arrived,    \* packages that arrived so far
          queued,     \* _threadPool: how many packages no thread has begun
          work,       \* what each thread of the pool is doing
          stored,     \* the rows of the tables of objects
          rights,     \* MemberPermisions: level of a member for an object
          dflt,       \* DefaultPermissions: level of an object
          changes,    \* ISqlDBCache::_changes: what its deletion names
          subscribs,  \* _subscribs: item -> members
          items,      \* _items: member -> items
          lockS,      \* who holds _subscribsMutex
          lockI       \* who holds _itemsMutex

node == <<life, db, runs>>
pool == <<arrived, queued>>
tables == <<stored, rights, dflt, changes>>
subscriptions == <<subscribs, items, lockS, lockI>>
vars == <<node, pool, work, tables, subscriptions>>

NoRow == -1
\* Permission: NoPermission, Read, Update, Write.
Read == 1
Update == 2
Write == 3

\* The level an operation asks for.
Need == [get |-> Read, getAll |-> Read, change |-> Update,
         update |-> Write, updateOrCreate |-> Write, delete |-> Write]

Checked == DOMAIN Need
\* The arguments of addUpdatePermission in createObject, which leaves the
\* default permission at its default, Read.
CreatorLevels == <<Write, Read>>
Request ==
    [op : Checked \cup {"create", "revoke", "subscribe", "unsubscribe", "list"},
     who : Member \cup {Guest}, obj : Object, levels : {CreatorLevels}]
    \cup [op : {"grant"}, who : Member \cup {Guest}, obj : Object, levels : Grant]

Idle == [at |-> "idle"]
\* A request being served: `rest' are the objects of its list still to be
\* worked with, `told' the subscribers still to be told of a change, `sub' the
\* one being told.
Serving(r, at, rest) == [at |-> at, req |-> r, obj |-> r.obj, rest |-> rest,
                         told |-> {}, sub |-> Guest]
At(w, at) == work[w].at = at
Op(w) == work[w].req.op
Goto(w, at) == work' = [work EXCEPT ![w].at = at]
Done(w) == work' = [work EXCEPT ![w] = Idle]

\* What the deletion in the queue of the cache names.
NoChanges == [objects |-> {}, rights |-> {}]
Deletion(o) == [objects |-> {o}, rights |-> {}]
Revocation(pairs) == [objects |-> {}, rights |-> pairs]

Init ==
    /\ life = "up" /\ db = TRUE /\ runs = 1
    /\ arrived = 0 /\ queued = 0
    /\ work = [w \in Worker |-> Idle]
    /\ stored = System
    /\ rights = [m \in Member |-> [o \in Object |-> NoRow]]
    /\ dflt = [o \in Object |-> NoRow]
    /\ changes = NoChanges
    /\ subscribs = [o \in Object |-> {}]
    /\ items = [m \in Member \cup {Guest} |-> {}]
    /\ lockS = Free /\ lockI = Free

-----------------------------------------------------------------------------
(* The pool of threads, the start and the stop of the node. *)

\* newWork: a package waits in the pool.
NewWork ==
    /\ life = "up" /\ arrived < MaxRequests
    /\ queued' = queued + 1 /\ arrived' = arrived + 1
    /\ UNCHANGED <<node, work, tables, subscriptions>>

\* Where the work with a request starts.  A request of a guest is refused by
\* checkPermission before it reads anything; createObject does not ask for a
\* permission and refuses only the system tables.
Enter(r) ==
    CASE r.op = "getAll" \/ r.op = "change" -> Serving(r, "select", {})
      [] r.op \in Checked /\ r.who \in Member -> Serving(r, "row", {})
      [] r.op = "create" \/ (r.op = "updateOrCreate" /\ r.who = Guest) ->
            IF r.obj \in System THEN Idle
            ELSE Serving([r EXCEPT !.op = "create"], "insert", {})
      [] r.op = "grant" -> IF r.who = Guest THEN Idle ELSE Serving(r, "own", {})
      [] r.op = "revoke" -> Serving(r, "revoke", {})
      [] r.op \in {"subscribe", "unsubscribe"} -> Serving(r, "lockS", {})
      [] r.op = "list" -> Serving(r, "list", {})
      [] OTHER -> Idle

\* Mutant of Begin: the thread does not look whether a package waits.
BeginUnchecked(w) ==
    /\ At(w, "idle") /\ life = "up"
    /\ queued' = queued - 1
    /\ \E r \in Request : work' = [work EXCEPT ![w] = Enter(r)]
    /\ UNCHANGED <<node, arrived, tables, subscriptions>>

\* A thread of the pool takes the next package, whatever request it holds.
Begin(w) ==
    /\ At(w, "idle") /\ queued > 0
    /\ queued' = queued - 1
    /\ \E r \in Request : work' = [work EXCEPT ![w] = Enter(r)]
    /\ UNCHANGED <<node, arrived, tables, subscriptions>>

\* AbstractNode::stop: the server closes, every connection is dropped and the
\* packages no thread has begun are cancelled; then deinitThreadPool waits.
Stop ==
    /\ life = "up"
    /\ life' = "stopping" /\ queued' = 0
    /\ UNCHANGED <<db, runs, arrived, work, tables, subscriptions>>

\* Mutant of PoolDone: the threads that work are not waited for.
PoolNotAwaited == queued = 0

PoolDone == \A w \in Worker : At(w, "idle")

\* MemberPermisions without some of its rows.
RightsWithout(pairs) ==
    [m \in Member |-> [o \in Object |->
        IF <<m, o>> \in pairs THEN NoRow ELSE rights[m][o]]]

\* softDelete does the deletion that is still queued once more.
Flush ==
    /\ stored' = stored \ changes.objects
    /\ rights' = RightsWithout(changes.rights)
    /\ changes' = NoChanges

\* DataBaseNode::stop, after AbstractNode::stop: the database is deleted.
StopDb ==
    /\ life = "stopping" /\ PoolDone
    /\ life' = "down" /\ db' = FALSE
    /\ Flush
    /\ UNCHANGED <<runs, pool, work, dflt, subscriptions>>

\* run: a new cache and writer on the same file, a new pool.
Run ==
    /\ life = "down" /\ runs < MaxRuns
    /\ life' = "up" /\ db' = TRUE /\ runs' = runs + 1
    /\ UNCHANGED <<pool, work, tables, subscriptions>>

-----------------------------------------------------------------------------
(* checkPermission: the member's level for the object, else its default.   *)

Grade(level, need) ==
    IF level = NoRow THEN "Unknown" ELSE IF level < need THEN "Forbidden" ELSE "Allowed"

\* The next object of a list: getObjects and changeObjects check one by one.
NextOf(w, rest) ==
    IF rest = {} THEN Done(w)
    ELSE \E o \in rest :
            work' = [work EXCEPT ![w].at = "row", ![w].obj = o, ![w].rest = rest \ {o}]

\* What an allowed operation does next: deleteObject calls the database again; a
\* get gives the object to the caller; an update has its job posted, and it is
\* announced in this thread (sigItemChanged, a direct connection), also when
\* the row is missing: that UPDATE is no error.
Allowed(w) ==
    IF Op(w) = "delete" THEN Goto(w, "act")
    ELSE IF Op(w) \in {"get", "getAll"} THEN NextOf(w, work[w].rest)
    ELSE Goto(w, "tell")

\* What an operation does with the answer.  updateIfNotExistsCreateObject goes
\* on to createObject when updateObject says Unknown.
Answered(w, result) ==
    IF result = "Allowed" THEN Allowed(w)
    ELSE IF Op(w) = "updateOrCreate" /\ result = "Unknown" /\ work[w].obj \notin System
         THEN work' = [work EXCEPT ![w].at = "insert", ![w].req.op = "create"]
         ELSE Done(w)

\* The member may have no row in NetworkMembers: SingleServer inserts and deletes
\* them at any time.
CheckRow(w) ==
    /\ At(w, "row")
    /\ LET level == rights[work[w].req.who][work[w].obj] IN
        \/ Answered(w, "Unknown")
        \/ level = NoRow /\ Goto(w, "default")
        \/ level # NoRow /\ Answered(w, Grade(level, Need[Op(w)]))
    /\ UNCHANGED <<node, pool, tables, subscriptions>>

CheckDefault(w) ==
    /\ At(w, "default")
    /\ Answered(w, Grade(dflt[work[w].obj], Need[Op(w)]))
    /\ UNCHANGED <<node, pool, tables, subscriptions>>

-----------------------------------------------------------------------------
(* The operations on objects. *)

\* getAllObjects.  A guest is refused at the first object of the list.
Select(w) ==
    /\ At(w, "select")
    /\ IF work[w].req.who = Guest THEN Done(w) ELSE NextOf(w, stored)
    /\ UNCHANGED <<node, pool, tables, subscriptions>>

\* deleteObject: the rows of permissions of the object stay.
DeleteObject(w) ==
    /\ At(w, "act")
    /\ stored' = stored \ {work[w].obj}
    /\ changes' = Deletion(work[w].obj)
    /\ Done(w)
    /\ UNCHANGED <<node, pool, rights, dflt, subscriptions>>

\* createObject, insertObject: the INSERT of an existing row fails unseen.  The
\* change is announced before anyone has a permission.
InsertObject(w) ==
    /\ At(w, "insert")
    /\ stored' = stored \cup {work[w].obj}
    /\ Goto(w, "tell")
    /\ UNCHANGED <<node, pool, rights, dflt, changes, subscriptions>>

\* Mutant of Rollback: what was inserted stays.
RollbackForgotten(w) ==
    /\ At(w, "own") /\ work[w].req.who = Guest
    /\ Done(w)
    /\ UNCHANGED <<node, pool, tables, subscriptions>>

\* createObject after addUpdatePermission failed: it fails for an invalid id.
Rollback(w) ==
    /\ At(w, "own") /\ work[w].req.who = Guest
    /\ stored' = stored \ {work[w].obj}
    /\ changes' = Deletion(work[w].obj)
    /\ Done(w)
    /\ UNCHANGED <<node, pool, rights, dflt, subscriptions>>

\* INSERT of a row, refused when there is one: addUpdatePermission asks for an
\* UPDATE only after insertObject said FALSE, which a posted job never does.
Inserted(old, new) == IF old = NoRow THEN new ELSE old

\* addUpdatePermission, the row of the member ...
AddPermission(w) ==
    /\ At(w, "own") /\ work[w].req.who # Guest
    /\ rights' = [rights EXCEPT ![work[w].req.who][work[w].obj] = Inserted(@, work[w].req.levels[1])]
    /\ Goto(w, "ownDefault")
    /\ UNCHANGED <<node, pool, stored, dflt, changes, subscriptions>>

\* ... and the default of the object.
AddDefault(w) ==
    /\ At(w, "ownDefault")
    /\ dflt' = [dflt EXCEPT ![work[w].obj] = Inserted(@, work[w].req.levels[2])]
    /\ Done(w)
    /\ UNCHANGED <<node, pool, stored, rights, changes, subscriptions>>

\* removePermission deletes the row of the member, and not the default.  The
\* condition of an invalid id names the object alone: every row of it goes; the
\* flush at the stop skips an object with such an id.
RemovePermission(w) ==
    /\ At(w, "revoke")
    /\ LET who == work[w].req.who
           named == IF who = Guest THEN Member ELSE {who}
       IN /\ rights' = RightsWithout(named \X {work[w].obj})
          /\ changes' = Revocation((Member \cap {who}) \X {work[w].obj})
    /\ Done(w)
    /\ UNCHANGED <<node, pool, stored, dflt, subscriptions>>

-----------------------------------------------------------------------------
(* WebSocketController. *)

\* What follows the announcement of a change.
AfterTold(w) ==
    IF Op(w) = "create" THEN Goto(w, "own") ELSE NextOf(w, work[w].rest)

NextSubscriber(w) == work' = [work EXCEPT ![w].at = "each", ![w].sub = Guest]

\* handleItemChanged takes _subscribsMutex and a copy of the subscribers.
HandleItemChanged(w) ==
    /\ At(w, "tell") /\ lockS = Free
    /\ lockS' = w
    /\ work' = [work EXCEPT ![w].at = "each", ![w].told = subscribs[work[w].obj]]
    /\ UNCHANGED <<node, pool, tables, subscribs, items, lockI>>

\* foreachSubscribers: the row of the next subscriber, who may be no member any
\* more, ...
EachSubscriber(w) ==
    /\ At(w, "each")
    /\ \E m \in work[w].told :
        LET level == IF m = Guest THEN NoRow ELSE rights[m][work[w].obj]
            found == IF level = NoRow THEN "eachDefault"
                     ELSE IF level < Read THEN "drop" ELSE "send"
        IN \E next \in {"drop"} \cup (IF m = Guest THEN {} ELSE {found}) :
            work' = [work EXCEPT ![w].at = next, ![w].told = @ \ {m}, ![w].sub = m]
    /\ UNCHANGED <<node, pool, tables, subscriptions>>

\* ... or the default of the object, ...
EachDefault(w) ==
    /\ At(w, "eachDefault")
    /\ Goto(w, IF Grade(dflt[work[w].obj], Read) = "Allowed" THEN "send" ELSE "drop")
    /\ UNCHANGED <<node, pool, tables, subscriptions>>

\* ... and the message to it: sendData fails when no connection has its id, and
\* may fail on one that has.
Send(w) ==
    /\ At(w, "send")
    /\ NextSubscriber(w) \/ Goto(w, "drop")
    /\ UNCHANGED <<node, pool, tables, subscriptions>>

\* unsubscribePrivate, called without _itemsMutex: first _subscribs ...
Drop(w) ==
    /\ At(w, "drop")
    /\ subscribs' = [subscribs EXCEPT ![work[w].obj] = @ \ {work[w].sub}]
    /\ Goto(w, "dropItem")
    /\ UNCHANGED <<node, pool, tables, items, lockS, lockI>>

\* Mutant of DropItem: only the subscribers of the item are changed.
DropItemForgotten(w) ==
    /\ At(w, "dropItem")
    /\ NextSubscriber(w)
    /\ UNCHANGED <<node, pool, tables, subscriptions>>

\* ... then _items.
DropItem(w) ==
    /\ At(w, "dropItem")
    /\ items' = [items EXCEPT ![work[w].sub] = @ \ {work[w].obj}]
    /\ NextSubscriber(w)
    /\ UNCHANGED <<node, pool, tables, subscribs, lockS, lockI>>

AllTold(w) ==
    /\ At(w, "each") /\ work[w].told = {}
    /\ lockS' = Free
    /\ AfterTold(w)
    /\ UNCHANGED <<node, pool, tables, subscribs, items, lockI>>

\* Mutant of LockSubscribs: only _itemsMutex is taken.
LockSubscribsNot(w) ==
    /\ At(w, "lockS")
    /\ Goto(w, "lockI")
    /\ UNCHANGED <<node, pool, tables, subscriptions>>

\* subscribe and unsubscribe take both locks, ...
LockSubscribs(w) ==
    /\ At(w, "lockS") /\ lockS = Free
    /\ lockS' = w
    /\ Goto(w, "lockI")
    /\ UNCHANGED <<node, pool, tables, subscribs, items, lockI>>

LockItems(w) ==
    /\ At(w, "lockI") /\ lockI = Free
    /\ lockI' = w
    /\ Goto(w, "put")
    /\ UNCHANGED <<node, pool, tables, subscribs, items, lockS>>

Changed(w, set, x) == IF Op(w) = "subscribe" THEN set \cup {x} ELSE set \ {x}

\* ... change _subscribs, then _items, and give the locks back.
PutSubscriber(w) ==
    /\ At(w, "put")
    /\ subscribs' = [subscribs EXCEPT ![work[w].obj] = Changed(w, @, work[w].req.who)]
    /\ Goto(w, "putItem")
    /\ UNCHANGED <<node, pool, tables, items, lockS, lockI>>

\* Mutant of PutItem: _itemsMutex is not given back.
PutItemKeepsLock(w) ==
    /\ At(w, "putItem")
    /\ items' = [items EXCEPT ![work[w].req.who] = Changed(w, @, work[w].obj)]
    /\ lockS' = Free
    /\ Done(w)
    /\ UNCHANGED <<node, pool, tables, subscribs, lockI>>

PutItem(w) ==
    /\ At(w, "putItem")
    /\ items' = [items EXCEPT ![work[w].req.who] = Changed(w, @, work[w].obj)]
    /\ lockS' = Free /\ lockI' = Free
    /\ Done(w)
    /\ UNCHANGED <<node, pool, tables, subscribs>>

\* list reads _items under _itemsMutex alone.
ListItems(w) ==
    /\ At(w, "list") /\ lockI = Free
    /\ Done(w)
    /\ UNCHANGED <<node, pool, tables, subscriptions>>

-----------------------------------------------------------------------------
Serve(w) ==
    \/ CheckRow(w) \/ CheckDefault(w) \/ Select(w) \/ DeleteObject(w)
    \/ InsertObject(w) \/ Rollback(w) \/ AddPermission(w) \/ AddDefault(w)
    \/ RemovePermission(w)
    \/ HandleItemChanged(w) \/ EachSubscriber(w) \/ EachDefault(w) \/ Send(w)
    \/ Drop(w) \/ DropItem(w) \/ AllTold(w)
    \/ LockSubscribs(w) \/ LockItems(w) \/ PutSubscriber(w) \/ PutItem(w)
    \/ ListItems(w)

Next ==
    \/ NewWork
    \/ \E w \in Worker : Begin(w) \/ Serve(w)
    \/ Stop \/ StopDb \/ Run

Spec == Init /\ [][Next]_vars

\* The threads of the pool and the thread that stops the node go on.
FairSpec ==
    /\ Spec
    /\ \A w \in Worker : WF_vars(Begin(w)) /\ WF_vars(Serve(w))
    /\ WF_vars(StopDb)

-----------------------------------------------------------------------------
(* Properties. *)

Level == -1..3
Stage == {"row", "default", "act", "select", "insert", "own", "ownDefault", "revoke",
          "tell", "each", "eachDefault", "send", "drop", "dropItem",
          "lockS", "lockI", "put", "putItem", "list"}

\* The state is well formed.
TypeOK ==
    /\ life \in {"up", "stopping", "down"} /\ db \in BOOLEAN
    /\ runs \in 1..MaxRuns
    /\ arrived \in 0..MaxRequests /\ queued \in 0..MaxRequests
    /\ work \in [Worker -> {Idle} \cup
            [at : Stage, req : Request, obj : Object, rest : SUBSET Object,
             told : SUBSET (Member \cup {Guest}), sub : Member \cup {Guest}]]
    /\ stored \subseteq Object
    /\ rights \in [Member -> [Object -> Level]] /\ dflt \in [Object -> Level]
    /\ changes \in [objects : SUBSET Object, rights : SUBSET (Member \X Object)]
    /\ subscribs \in [Object -> SUBSET (Member \cup {Guest})]
    /\ items \in [Member \cup {Guest} -> SUBSET Object]
    /\ {lockS, lockI} \subseteq Worker \cup {Free}

\* The two tables of subscriptions say the same whenever nobody holds
\* _subscribsMutex, though foreachSubscribers changes both without _itemsMutex.
Mirror ==
    lockS = Free => \A o \in Object, m \in Member \cup {Guest} :
                        m \in subscribs[o] <=> o \in items[m]

\* Whoever is about to be told of a change is subscribed to it: after the
\* answer to an unsubscription nothing more of the item is sent.
ToldAreSubscribed ==
    \A w \in Worker :
        /\ At(w, "each") => work[w].told \subseteq subscribs[work[w].obj]
        /\ At(w, "send") => work[w].sub \in subscribs[work[w].obj]

\* A thread works with a request only while the node has its database: stop
\* deletes it after the last thread of the pool has ended.
DbOutlivesWork == \A w \in Worker : ~At(w, "idle") => db

\* Rows that createObject stores have someone with a permission, or a thread is
\* about to give one or to take the row back; permissions taken away later
\* (removePermission) leave the default of the object behind.
NoOrphan ==
    \A o \in stored \ System :
        \/ dflt[o] # NoRow
        \/ \E m \in Member : rights[m][o] # NoRow
        \/ \E w \in Worker : ~At(w, "idle") /\ Op(w) = "create" /\ work[w].obj = o

\* Every request a thread has begun ends, and a stop ends: neither the two
\* locks nor the wait for the pool can hold each other up.
RequestsEnd ==
    /\ \A w \in Worker : []<>At(w, "idle")
    /\ life = "stopping" ~> life = "down"
=============================================================================
