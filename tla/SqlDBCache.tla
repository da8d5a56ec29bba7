----------------------------- MODULE SqlDBCache -----------------------------
(***************************************************************************)
(* The database of a DataBaseNode: ISqlDBCache in front of an              *)
(* AsyncSqlDBWriter.  A call runs on the thread that makes it: it visits   *)
(* the cache, queues a job for the thread of the writer, and may wait for  *)
(* the job to be done.  The writer runs the jobs in the order they came.   *)
(*                                                                         *)
(* `kind' tells the cache: SqlDB keeps nothing, SqlDBCache keeps what it   *)
(* has seen.  Both write in the mode Force, so ISqlDBCache::_changes is    *)
(* filled by deletions only and looked at by softDelete only.              *)
(*                                                                         *)
(* The cache gives the object it holds, not a copy: a caller that changes  *)
(* what it was given changes the cache.                                    *)
(*                                                                         *)
(* A row is an object without a primary key (MemberPermisionObject): SQL   *)
(* refuses to update it, and the cache never answers a read of it.         *)
(***************************************************************************)
EXTENDS Naturals, Sequences

CONSTANTS
    Caller,         \* the threads of the node that use the database
    CachedCaller,   \* those that use it when there is a cache
    Member,         \* the keys of objects with a primary key
    Row,            \* the keys of permission rows
    Value,          \* the contents of an object
    None,
    Kind,           \* the caches to look at: "SqlDB", "SqlDBCache"
    MaxCalls        \* bound: calls between a start and a stop

Key == Member \cup Row
Object == Value \cup {None}

Op == {"get", "insert", "update", "delete"}
Step == {"cache", "queue", "write", "await", "fill", "modify", "change",
         "return"}
CallState ==
    [op : Op, key : Key, value : Object, wait : BOOLEAN, change : BOOLEAN,
     shared : BOOLEAN,      \* the object of the call is the one in the cache
     at : Step]
Job == [op : Op, key : Key, value : Object, by : Caller \cup {None}]
Want == [op : Op, key : Key, value : Object]

ASSUME ConstantsAssumption ==
    /\ CachedCaller \subseteq Caller
    /\ Member \cap Row = {}
    /\ None \notin Value \cup Key \cup Caller
    /\ None \notin CallState /\ None \notin Want
    /\ Kind \subseteq {"SqlDB", "SqlDBCache"}
    /\ MaxCalls \in Nat

VARIABLES
    kind,       \* the class of the cache
    open,       \* whether DataBaseNode::_db is set
    cache,      \* SqlDBCache::_cache
    changes,    \* ISqlDBCache::_changes[CacheAction::Delete]
    jobs,       \* the jobs posted to the thread of the writer
    db,         \* the tables of the database
    call,       \* the call each caller is in, and the step it is at
    answer,     \* what the select of each call has found
    calls       \* calls made since the start

vars == <<kind, open, cache, changes, jobs, db, call, answer, calls>>

TypeOK ==
    /\ kind \in {"SqlDB", "SqlDBCache"}
    /\ open \in BOOLEAN
    /\ cache \in [Key -> Object]
    /\ changes \in Key \cup {None}
    /\ jobs \in Seq(Job)
    /\ db \in [Key -> Object]
    /\ call \in [Caller -> CallState \cup {None}]
    /\ answer \in [Caller -> Object]
    /\ calls \in 0 .. MaxCalls

Init ==
    /\ kind \in Kind
    /\ open = TRUE
    /\ cache = [k \in Key |-> None]
    /\ changes = None
    /\ jobs = <<>>
    /\ db \in [Key -> Object]
    /\ call = [c \in Caller |-> None]
    /\ answer = [c \in Caller |-> None]
    /\ calls = 0

Cached(k) == kind = "SqlDBCache" /\ k \in Member

----------------------------------------------------------------------------
(* The tables, on the thread of the writer.                                *)

\* A row of the table is unique in its key; UPDATE needs a primary key.
Exec(tables, j) ==
    CASE j.op = "insert" /\ tables[j.key] = None
             -> [tables EXCEPT ![j.key] = j.value]
      [] j.op = "update" /\ tables[j.key] # None /\ j.key \in Member
             -> [tables EXCEPT ![j.key] = j.value]
      [] j.op = "delete" -> [tables EXCEPT ![j.key] = None]
      [] OTHER -> tables

\* The tables once the first n jobs are done.
After[n \in 0 .. Len(jobs)] == IF n = 0 THEN db ELSE Exec(After[n - 1], jobs[n])

Goto(c, s) == call' = [call EXCEPT ![c].at = s]

\* Mutant: a select without a WHERE block.
RunJobNoWhere ==
    /\ jobs # <<>>
    /\ LET j == Head(jobs) IN
       /\ db' = Exec(db, j)
       /\ IF j.by = None
          THEN UNCHANGED <<call, answer>>
          ELSE Goto(j.by, "fill") /\ answer' = [answer EXCEPT ![j.by] = db]
    /\ jobs' = Tail(jobs)
    /\ UNCHANGED <<kind, open, cache, changes, calls>>

\* asyncHandler: run the job, then tell the thread that waits for it.
RunJob ==
    /\ jobs # <<>>
    /\ LET j == Head(jobs) IN
       /\ db' = Exec(db, j)
       /\ IF j.by = None
          THEN UNCHANGED <<call, answer>>
          ELSE IF j.op = "get"
          THEN Goto(j.by, "fill") /\ answer' = [answer EXCEPT ![j.by] = db[j.key]]
          ELSE Goto(j.by, "return") /\ UNCHANGED answer
    /\ jobs' = Tail(jobs)
    /\ UNCHANGED <<kind, open, cache, changes, calls>>

\* Mutant: a select does not wait for its job.
PostNoAwait(c) ==
    LET r == call[c] IN
    /\ jobs' = Append(jobs, [op |-> r.op, key |-> r.key, value |-> r.value,
                             by |-> IF r.wait THEN c ELSE None])
    /\ Goto(c, IF r.wait THEN "await" ELSE "return")

\* asyncLauncher on the thread of the caller: post the job, and await it or not.
Post(c) ==
    LET r == call[c]
        waits == r.wait \/ r.op = "get"
    IN /\ jobs' = Append(jobs, [op |-> r.op, key |-> r.key, value |-> r.value,
                                by |-> IF waits THEN c ELSE None])
       /\ Goto(c, IF waits THEN "await" ELSE "return")

----------------------------------------------------------------------------
(* The calls, on the threads of the node.                                  *)

Invoke(c, r) ==
    /\ open /\ call[c] = None /\ calls < MaxCalls
    /\ kind = "SqlDBCache" => c \in CachedCaller
    /\ calls' = calls + 1
    /\ call' = [call EXCEPT ![c] = r]
    /\ UNCHANGED <<kind, open, cache, changes, jobs, db, answer>>

Request(op, k, v) ==
    [op |-> op, key |-> k, value |-> v, wait |-> FALSE, change |-> FALSE,
     shared |-> FALSE, at |-> "cache"]

\* getAllObjects with a template that selects one key.
GetAllObjects(c) == \E k \in Key : Invoke(c, Request("get", k, None))

\* changeObjects: read the object, change it, update it.
ChangeObjects(c) ==
    \E k \in Member : Invoke(c, [Request("get", k, None) EXCEPT !.change = TRUE])

UpdateObject(c) ==
    \E k \in Member, v \in Value, w \in BOOLEAN :
        Invoke(c, [Request("update", k, v) EXCEPT !.wait = w])

InsertObject(c) ==
    \E k \in Member, v \in Value, w \in BOOLEAN :
        Invoke(c, [Request("insert", k, v) EXCEPT !.wait = w])

\* DataBaseNode::addUpdatePermission: insertObject, and updateObject if that
\* fails.  Not waiting for the job it never fails, so updateObject is not called.
AddUpdatePermission(c) ==
    \E k \in Row, v \in Value : Invoke(c, Request("insert", k, v))

DeleteObject(c) ==
    \E k \in Key, w \in BOOLEAN :
        Invoke(c, [Request("delete", k, None) EXCEPT !.wait = w])

\* The call of the cache; each is one critical section of _cacheMutex.
VisitCache(c) ==
    /\ call[c] # None /\ call[c].at = "cache"
    /\ LET k == call[c].key
           op == call[c].op
       IN \/ /\ op = "get" /\ cache[k] # None        \* getFromCache
             /\ answer' = [answer EXCEPT ![c] = cache[k]]
             /\ call' = [call EXCEPT ![c].at = "return", ![c].shared = TRUE]
             /\ UNCHANGED cache
          \/ /\ op = "get" /\ cache[k] = None
             /\ Goto(c, "write")
             /\ UNCHANGED <<cache, answer>>
          \/ /\ op \in {"insert", "update"}           \* insertToCache, updateCache
             /\ cache' = IF Cached(k) /\ (cache[k] = None <=> op = "insert")
                         THEN [cache EXCEPT ![k] = call[c].value]
                         ELSE cache
             /\ Goto(c, "write")
             /\ UNCHANGED answer
          \/ /\ op = "delete"                         \* deleteFromCache
             /\ cache' = [cache EXCEPT ![k] = None]
             /\ Goto(c, "queue")
             /\ UNCHANGED answer
    /\ UNCHANGED <<kind, open, changes, jobs, db, calls>>

\* pushToQueue: _changes holds one object for each action.
PushToQueue(c) ==
    /\ call[c] # None /\ call[c].at = "queue"
    /\ changes' = call[c].key
    /\ Goto(c, "write")
    /\ UNCHANGED <<kind, open, cache, jobs, db, answer, calls>>

\* The call of the writer.
CallWriter(c) ==
    /\ call[c] # None /\ call[c].at = "write"
    /\ Post(c)
    /\ UNCHANGED <<kind, open, cache, changes, db, answer, calls>>

\* Mutant: getAllObjects asks again until there is an object.
FillRetries(c) ==
    /\ call[c] # None /\ call[c].at = "fill"
    /\ Goto(c, IF answer[c] = None THEN "write" ELSE "return")
    /\ UNCHANGED <<kind, open, cache, changes, jobs, db, answer, calls>>

\* The end of getAllObjects: what was selected goes to the cache.
Fill(c) ==
    /\ call[c] # None /\ call[c].at = "fill"
    /\ LET k == call[c].key
           new == answer[c] # None /\ Cached(k) /\ cache[k] = None
       IN /\ cache' = IF new THEN [cache EXCEPT ![k] = answer[c]] ELSE cache
          /\ Goto(c, "return")
    /\ UNCHANGED <<kind, open, changes, jobs, db, answer, calls>>

\* changeObjects runs changeAction on what it read; that either refuses or goes on
\* to write it, and then the object is updated.
ChangeAction(c) ==
    /\ call[c] # None /\ call[c].at = "modify"
    /\ \/ \E v \in Value :
              call' = [call EXCEPT ![c] = [Request("update", call[c].key, v) EXCEPT
                                              !.shared = call[c].shared,
                                              !.at = "change"]]
       \/ call' = [call EXCEPT ![c] = None]
    /\ UNCHANGED <<kind, open, cache, changes, jobs, db, answer, calls>>

\* changeAction writes the object it is given, the one in the cache or a new one
\* (of several threads another could meanwhile have taken it out of the cache).
ChangeInPlace(c) ==
    /\ call[c] # None /\ call[c].at = "change"
    /\ LET k == call[c].key IN
       cache' = IF call[c].shared /\ cache[k] # None
                THEN [cache EXCEPT ![k] = call[c].value]
                ELSE cache
    /\ Goto(c, "cache")
    /\ UNCHANGED <<kind, open, changes, jobs, db, answer, calls>>

\* The call is over; changeObjects goes on with an object it found.
Return(c) ==
    /\ call[c] # None /\ call[c].at = "return"
    /\ IF call[c].change /\ answer[c] # None
       THEN Goto(c, "modify")
       ELSE call' = [call EXCEPT ![c] = None]
    /\ answer' = [answer EXCEPT ![c] = None]
    /\ UNCHANGED <<kind, open, cache, changes, jobs, db, calls>>

----------------------------------------------------------------------------
(* The node.                                                               *)

\* DataBaseNode::stop: softDelete writes what _changes holds and waits for it
\* (it skips an object without its data, which isValid() refuses), then the
\* writer and its thread go, with the jobs they have not begun.
Stop ==
    /\ open /\ \A c \in Caller : call[c] = None
    /\ open' = FALSE
    /\ \/ changes # None /\ db' = [After[Len(jobs)] EXCEPT ![changes] = None]
       \/ db' = db
    /\ cache' = [k \in Key |-> None]
    /\ changes' = None
    /\ jobs' = <<>>
    /\ UNCHANGED <<kind, call, answer, calls>>

\* DataBaseNode::run: a new cache and a new writer on the same database.
Run ==
    /\ ~open
    /\ open' = TRUE
    /\ calls' = 0
    /\ UNCHANGED <<kind, cache, changes, jobs, db, call, answer>>

Invocation(c) ==
    \/ GetAllObjects(c) \/ ChangeObjects(c) \/ UpdateObject(c)
    \/ InsertObject(c) \/ AddUpdatePermission(c) \/ DeleteObject(c)

Progress(c) ==
    \/ VisitCache(c) \/ PushToQueue(c) \/ CallWriter(c)
    \/ Fill(c) \/ ChangeAction(c) \/ ChangeInPlace(c) \/ Return(c)

Next == RunJob \/ Stop \/ Run \/ \E c \in Caller : Invocation(c) \/ Progress(c)

Spec == Init /\ [][Next]_vars

\* The threads run: one that can take a step of its program takes it.
FairSpec == Spec /\ WF_vars(RunJob) /\ \A c \in Caller : WF_vars(Progress(c))

----------------------------------------------------------------------------
(* Properties.                                                             *)

\* In SqlDBCache a deletion has its effect when the cache forgets the object.
BeingDeleted(k) ==
    \E c \in Caller : /\ call[c] # None
                      /\ call[c].op = "delete" /\ call[c].key = k
                      /\ call[c].at \in {"queue", "write"}

\* The object a reader will find: the one in the cache, else the one that is in
\* the table once the jobs already posted are done.
Stored ==
    [k \in Key |-> IF kind = "SqlDBCache" /\ BeingDeleted(k) THEN None
                   ELSE IF cache[k] # None THEN cache[k]
                   ELSE After[Len(jobs)][k]]

InProgress(c) == call[c] # None /\ call[c].at # "modify"

Effective(c) ==
    LET r == call[c] IN
    CASE r.at = "change" -> FALSE
      [] r.at = "cache" -> r.shared
      [] r.at = "queue" -> kind = "SqlDBCache"
      [] r.at = "write" -> \/ kind = "SqlDBCache" /\ r.op = "delete"
                           \/ r.op # "get" /\ cache[r.key] # None
      [] OTHER -> TRUE

\* A select finds what the jobs posted before it leave.
Answer(c) ==
    LET mine == {n \in 1 .. Len(jobs) : jobs[n].by = c /\ jobs[n].op = "get"} IN
    IF mine = {} THEN answer[c]
    ELSE LET n == CHOOSE n \in mine : TRUE IN After[n - 1][jobs[n].key]

\* What each caller asks for.
Wanted ==
    [c \in Caller |->
        IF InProgress(c)
        THEN [op |-> call[c].op, key |-> call[c].key, value |-> call[c].value]
        ELSE None]
Fulfilled == [c \in Caller |-> InProgress(c) /\ Effective(c)]
Answers == [c \in Caller |-> Answer(c)]

Store == INSTANCE ObjectStore WITH
    store <- Stored, call <- Wanted, done <- Fulfilled, answer <- Answers

\* While the node runs the cache and the writer are one store: a read returns
\* what the calls that took effect before it left, although a write returns
\* before its job is done and the cache answers without the writer.  Holds for
\* SqlDB with several threads, for SqlDBCache with one.
ImplementsStore == Store!Spec

\* A call returns: no thread waits for a job that will not be done
\* (Async::asyncLauncher).
CallsReturn == \A c \in Caller : call[c] # None ~> call[c] = None
=============================================================================
