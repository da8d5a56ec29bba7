----------------------------- MODULE KeyStorage -----------------------------
(***************************************************************************)
(* KeyStorage: threads ask for the pair of an access key; a thread of the  *)
(* storage, the generator, makes pairs for the tasks they queue and keeps  *)
(* a pool of random ones.  The pairs are written to files when the storage *)
(* is destroyed and read again when the next one is initialised.           *)
(*                                                                         *)
(* One step is a critical section of one of the three mutexes, or an       *)
(* access made without one.                                                *)
(***************************************************************************)
EXTENDS Naturals, FiniteSets

CONSTANTS
    Caller,         \* threads that use the storage
    AccessKey,
    Listed,         \* the access keys that setGenesisList may name
    Genesis,        \* genesis data; each stands for the pair made from it
    RandomPair,     \* bound: pairs that can be made at random
    PoolSize,       \* arguments of setKeyPoolSize
    Rand,           \* RAND_KEY
    Empty,          \* a CryptoPairKeys that nobody has filled
    Failed,         \* the one of a generation that failed: as invalid as Empty
    None

Pair == RandomPair \cup Genesis
Entry == Pair \cup {Empty, Failed, None}
Task == Genesis \cup {Rand, None}

ASSUME KeysAssumption ==
    /\ Listed \subseteq AccessKey
    /\ PoolSize \subseteq Nat
    /\ RandomPair \cap Genesis = {}
    /\ Rand # Empty /\ Rand # None /\ Empty # None
    /\ Failed \notin {Rand, Empty, None}
    /\ {Rand, Empty, Failed, None} \cap Pair = {}
    /\ None \notin AccessKey

VARIABLES
    life,           \* the object: in use, being destroyed, saving, or gone
    inited,         \* _inited
    stopped,        \* _stopGenerator
    poolSize,       \* _keyPoolSize
    keys,           \* _keys; None: no such key
    pool,           \* _randomKeysPool
    tasks,          \* _generateTasks
    gen,            \* where the generator is, and what it still has to do
    call,           \* the call of each thread
    file,           \* the files of the storage location
    saving,         \* the keys that saveStorage has still to write
    writing,        \* the one whose file is open, and the pair to write there
    given           \* history: the pairs handed out, for each access key

vars == <<life, inited, stopped, poolSize, keys, pool, tasks, gen, call,
          file, saving, writing, given>>
disk == <<file, saving, writing>>
memory == <<inited, stopped, poolSize, keys, pool, tasks>>

Idle == [at |-> "idle"]
Off == [at |-> "off"]

TypeOK ==
    /\ life \in {"open", "closing", "saving", "closed"}
    /\ inited \in BOOLEAN /\ stopped \in BOOLEAN
    /\ poolSize \in PoolSize \cup {1}
    /\ keys \in [AccessKey -> Entry]
    /\ pool \subseteq RandomPair \cup {Failed}
    /\ tasks \in [AccessKey -> Task]
    /\ gen.at \in {"off", "run", "loop", "next", "make", "assign", "remove",
                   "fill", "ending"}
    /\ \A c \in Caller :
          call[c].at \in {"idle", "start", "wait", "read"}
    /\ file \in [AccessKey -> Entry]
    /\ saving \subseteq AccessKey
    /\ writing \in [key : saving, pair : Entry] \cup {None}
    /\ given \in [AccessKey -> SUBSET Pair]

Init ==
    /\ life = "open"
    /\ inited = FALSE
    /\ stopped = FALSE
    /\ poolSize = 1
    /\ keys = [k \in AccessKey |-> None]
    /\ pool = {}
    /\ tasks = [k \in AccessKey |-> None]
    /\ gen = Off
    /\ call = [c \in Caller |-> Idle]
    /\ file = [k \in AccessKey |-> None]
    /\ saving = {} /\ writing = None
    /\ given = [k \in AccessKey |-> {}]

----------------------------------------------------------------------------
(* ICrypto::generate.                                                      *)

Unwritten == IF writing = None THEN {} ELSE {writing.pair}

Held == {keys[k] : k \in AccessKey} \cup {file[k] : k \in AccessKey} \cup pool
        \cup (UNION {given[k] : k \in AccessKey})
        \cup Unwritten

\* A random pair is one that nobody holds.  Bound: while there is one.
NewPair ==
    LET free == RandomPair \ Held
    IN  IF free = {} THEN {} ELSE {CHOOSE p \in free : TRUE}

\* Mutant: the pair is not filled.
GeneratedNothing(g) == {Empty}

\* generatePairKey may fail, and nobody looks.
Generated(g) == {Failed} \cup (IF g = Rand THEN NewPair ELSE {g})

----------------------------------------------------------------------------
(* The generator's thread.                                                 *)

\* The generator holds _keysMutex while an entry gets its value.
KeysLocked == gen.at = "assign"

\* QThread::start: void while the thread still runs.
StartGenerator == gen' = IF gen.at = "off" THEN [at |-> "run"] ELSE gen

GenRun ==
    /\ gen.at = "run"
    /\ gen' = [at |-> IF stopped THEN "ending" ELSE "loop"]
    /\ UNCHANGED <<life, memory, call, disk, given>>

Pending == {k \in AccessKey : tasks[k] # None}

\* The condition of the loop of run, and the copy of the tasks.
GenLoop ==
    /\ gen.at = "loop"
    /\ gen' = IF (Pending # {} \/ poolSize > Cardinality(pool)) /\ ~stopped
              THEN [at |-> "next", todo |-> tasks]
              ELSE [at |-> "ending"]
    /\ UNCHANGED <<life, memory, call, disk, given>>

GenEnd ==
    /\ gen.at = "ending"
    /\ gen' = Off
    /\ UNCHANGED <<life, memory, call, disk, given>>

\* The next of the copied tasks; the value of its key is read without a lock.
\* With none left, or stopped, the pool is next.
GenNext ==
    /\ gen.at = "next"
    /\ LET left == {k \in AccessKey : gen.todo[k] # None} IN
       IF left = {} \/ stopped
       THEN gen' = [at |-> "fill", size |-> poolSize]
       ELSE \E k \in left :
               gen' = [at |-> IF keys[k] \in Pair THEN "remove" ELSE "make",
                       key |-> k, todo |-> gen.todo]
    /\ UNCHANGED <<life, memory, call, disk, given>>

\* _keys[key] inserts an empty pair, under the mutex, if there is none.  The
\* loop of saveStorage, which takes no mutex, may or may not come to it.
GenMake ==
    /\ gen.at = "make"
    /\ keys' = [keys EXCEPT ![gen.key] = IF @ = None THEN Empty ELSE @]
    /\ gen' = [gen EXCEPT !.at = "assign"]
    /\ \/ UNCHANGED saving
       \/ saving # {} /\ keys[gen.key] = None /\ saving' = saving \cup {gen.key}
    /\ UNCHANGED <<life, inited, stopped, poolSize, pool, tasks, call, file,
                   writing, given>>

\* Mutant: the pair that is taken stays in the pool.
GenAssignKeepsPool ==
    /\ gen.at = "assign"
    /\ LET k == gen.key IN
       \/ /\ gen.todo[k] = Rand /\ pool # {}
          /\ \E p \in pool : keys' = [keys EXCEPT ![k] = p]
          /\ UNCHANGED pool
       \/ /\ ~(gen.todo[k] = Rand /\ pool # {})
          /\ \E p \in Generated(gen.todo[k]) : keys' = [keys EXCEPT ![k] = p]
          /\ UNCHANGED pool
    /\ gen' = [gen EXCEPT !.at = "remove"]
    /\ UNCHANGED <<life, inited, stopped, poolSize, tasks, call, disk,
                   given>>

\* A pair of the pool for a task without genesis, else a new one.
GenAssign ==
    /\ gen.at = "assign"
    /\ LET k == gen.key IN
       \/ /\ gen.todo[k] = Rand /\ pool # {}
          /\ \E p \in pool : /\ keys' = [keys EXCEPT ![k] = p]
                             /\ pool' = pool \ {p}
       \/ /\ ~(gen.todo[k] = Rand /\ pool # {})
          /\ \E p \in Generated(gen.todo[k]) : keys' = [keys EXCEPT ![k] = p]
          /\ UNCHANGED pool
    /\ gen' = [gen EXCEPT !.at = "remove"]
    /\ UNCHANGED <<life, inited, stopped, poolSize, tasks, call, disk,
                   given>>

\* Mutant: all the tasks are removed, not only the one that was done.
GenRemoveAll ==
    /\ gen.at = "remove"
    /\ tasks' = [k \in AccessKey |-> None]
    /\ gen' = [at |-> "next", todo |-> [gen.todo EXCEPT ![gen.key] = None]]
    /\ UNCHANGED <<life, inited, stopped, poolSize, keys, pool, call, disk,
                   given>>

GenRemove ==
    /\ gen.at = "remove"
    /\ tasks' = [tasks EXCEPT ![gen.key] = None]
    /\ gen' = [at |-> "next", todo |-> [gen.todo EXCEPT ![gen.key] = None]]
    /\ UNCHANGED <<life, inited, stopped, poolSize, keys, pool, call, disk,
                   given>>

\* generateRandomKeys: one more pair, or back to the loop of run.
GenFill ==
    /\ gen.at = "fill"
    /\ IF gen.size > Cardinality(pool) /\ ~stopped
       THEN (\E p \in Generated(Rand) : pool' = pool \cup {p}) /\ UNCHANGED gen
       ELSE gen' = [at |-> "loop"] /\ UNCHANGED pool
    /\ UNCHANGED <<life, inited, stopped, poolSize, keys, tasks, call, disk,
                   given>>

Generator ==
    \/ GenRun \/ GenLoop \/ GenEnd \/ GenNext \/ GenMake
    \/ GenAssign \/ GenRemove \/ GenFill

----------------------------------------------------------------------------
(* The calls.                                                              *)

MayCall(c) == life = "open" /\ call[c] = Idle

\* getNextPair up to genKey; it fails without a pool, and before init.  (With
\* a genesis it would not, but the nodes ask for random pairs only, until the
\* storage is initialised.)
GetNextPair(c, k, g) ==
    /\ MayCall(c)
    /\ inited /\ poolSize > 0
    /\ tasks' = [tasks EXCEPT ![k] = g]
    /\ call' = [call EXCEPT ![c] = [at |-> "start", key |-> k]]
    /\ UNCHANGED <<life, inited, stopped, poolSize, keys, pool, gen, disk, given>>

\* Mutant: a task does not start the generator.
StartNotForTasks(c) ==
    /\ call[c].at = "start"
    /\ IF call[c].key # None THEN UNCHANGED gen ELSE StartGenerator
    /\ call' = [call EXCEPT ![c] = IF call[c].key = None THEN Idle
                                   ELSE [at |-> "wait", key |-> call[c].key]]
    /\ UNCHANGED <<life, memory, disk, given>>

\* The call of start() at the end of setKeyPoolSize and setGenesisList, and
\* in the middle of getNextPair.
Start(c) ==
    /\ call[c].at = "start"
    /\ StartGenerator
    /\ call' = [call EXCEPT ![c] = IF call[c].key = None THEN Idle
                                   ELSE [at |-> "wait", key |-> call[c].key]]
    /\ UNCHANGED <<life, memory, disk, given>>

\* waitForGeneratekey: without a lock.
Found(c) ==
    /\ call[c].at = "wait"
    /\ keys[call[c].key] # None
    /\ call' = [call EXCEPT ![c].at = "read"]
    /\ UNCHANGED <<life, memory, gen, disk, given>>

Timeout(c) ==
    /\ call[c].at = "wait"
    /\ keys[call[c].key] = None
    /\ call' = [call EXCEPT ![c] = Idle]
    /\ UNCHANGED <<life, memory, gen, disk, given>>

\* Mutant: the pair is read without _keysMutex.
ReadUnlocked(c) ==
    /\ call[c].at = "read"
    /\ LET k == call[c].key IN
       given' = [given EXCEPT ![k] = @ \cup ({keys[k]} \cap Pair)]
    /\ call' = [call EXCEPT ![c] = Idle]
    /\ UNCHANGED <<life, memory, gen, disk>>

\* The end of getNextPair: the answer is the entry as it is now.
Read(c) ==
    /\ call[c].at = "read"
    /\ ~KeysLocked
    /\ LET k == call[c].key IN
       given' = [given EXCEPT ![k] = @ \cup ({keys[k]} \cap Pair)]
    /\ call' = [call EXCEPT ![c] = Idle]
    /\ UNCHANGED <<life, memory, gen, disk>>

SetKeyPoolSize(c, n) ==
    /\ MayCall(c)
    /\ poolSize' = n
    /\ call' = [call EXCEPT ![c] = [at |-> "start", key |-> None]]
    /\ UNCHANGED <<life, inited, stopped, keys, pool, tasks, gen, disk, given>>

\* setGenesisList inserts an empty pair, also where there is one: the pairs
\* given for the key are out of force.
SetGenesisList(c, list) ==
    /\ MayCall(c)
    /\ ~KeysLocked
    /\ keys' = [k \in AccessKey |-> IF k \in list THEN Empty ELSE keys[k]]
    /\ given' = [k \in AccessKey |-> IF k \in list THEN {} ELSE given[k]]
    /\ call' = [call EXCEPT ![c] = [at |-> "start", key |-> None]]
    /\ UNCHANGED <<life, inited, stopped, poolSize, pool, tasks, gen, disk>>

\* Mutant: the files are not read.
InitStorageNoLoad(c) ==
    /\ MayCall(c)
    /\ inited' = TRUE
    /\ UNCHANGED <<life, stopped, poolSize, keys, pool, tasks, gen, call, disk,
                   given>>

\* initDefaultStorageLocation: the files are read, without a lock, over what is
\* in memory.  A node does it each time it runs.  A file without a whole pair
\* (cut by a crash, or of a failed generation) makes the key lose its own.
InitStorage(c) ==
    /\ MayCall(c)
    /\ keys' = [k \in AccessKey |-> IF file[k] # None THEN file[k] ELSE keys[k]]
    /\ inited' = TRUE
    /\ given' = [k \in AccessKey |-> IF file[k] \in {Empty, Failed} THEN {}
                                   ELSE given[k]]
    /\ UNCHANGED <<life, stopped, poolSize, pool, tasks, gen, call, disk>>

Calling(c) == Start(c) \/ Found(c) \/ Read(c)

----------------------------------------------------------------------------
(* The end of the object, and of the process.                              *)

\* The destructor: stop, and wait for the generator.
Destroy ==
    /\ life = "open"
    /\ \A c \in Caller : call[c] = Idle
    /\ life' = "closing"
    /\ stopped' = TRUE
    /\ UNCHANGED <<inited, poolSize, keys, pool, tasks, gen, call, disk, given>>

\* saveStorage, when the generator has ended or WAIT_TIME is over: nobody looks
\* which.  toStorage refuses when the storage is not initialised.
BeginSave ==
    /\ life = "closing"
    /\ life' = "saving"
    /\ saving' = IF inited THEN {k \in AccessKey : keys[k] # None} ELSE {}
    /\ UNCHANGED <<memory, gen, call, file, writing, given>>

\* toStorage: the value is read, under the mutex, and the file is cut ...
CutFile(k) ==
    /\ k \in saving /\ writing = None
    /\ ~KeysLocked
    /\ file' = [file EXCEPT ![k] = Empty]
    /\ writing' = [key |-> k, pair |-> keys[k]]
    /\ UNCHANGED <<life, memory, gen, call, saving, given>>

\* ... and then written.
WriteFile ==
    /\ writing # None
    /\ file' = [file EXCEPT ![writing.key] = writing.pair]
    /\ saving' = saving \ {writing.key}
    /\ writing' = None
    /\ UNCHANGED <<life, memory, gen, call, given>>

Survivors == [k \in AccessKey |-> given[k] \cap {file[k]}]

\* A file cannot be opened: the keys after it are not saved.
SaveFails ==
    /\ saving # {} /\ writing = None
    /\ saving' = {}
    /\ given' = Survivors
    /\ UNCHANGED <<life, memory, gen, call, file, writing>>

Forget ==
    /\ inited' = FALSE
    /\ stopped' = FALSE
    /\ poolSize' = 1
    /\ keys' = [k \in AccessKey |-> None]
    /\ pool' = {}
    /\ tasks' = [k \in AccessKey |-> None]

\* The object is gone; where the generator still runs, ~QThread ends the
\* process, and it with it.
Close ==
    /\ life = "saving" /\ saving = {}
    /\ life' = "closed"
    /\ Forget
    /\ gen' = Off
    /\ UNCHANGED <<call, disk, given>>

\* The process dies: what was not saved is forgotten.
Crash ==
    /\ life # "closed"
    /\ life' = "closed"
    /\ Forget
    /\ gen' = Off
    /\ call' = [c \in Caller |-> Idle]
    /\ saving' = {} /\ writing' = None
    /\ given' = Survivors
    /\ UNCHANGED file

Construct ==
    /\ life = "closed"
    /\ life' = "open"
    /\ UNCHANGED <<memory, gen, call, disk, given>>

Destructor ==
    \/ BeginSave \/ WriteFile \/ Close
    \/ \E k \in AccessKey : CutFile(k)

Next ==
    \/ Generator
    \/ \E c \in Caller :
          \/ Calling(c) \/ Timeout(c) \/ InitStorage(c)
          \/ \E k \in AccessKey, g \in Genesis \cup {Rand} : GetNextPair(c, k, g)
          \/ \E n \in PoolSize : SetKeyPoolSize(c, n)
          \/ \E list \in SUBSET Listed \ {{}} : SetGenesisList(c, list)
    \/ Destroy \/ Destructor \/ SaveFails \/ Crash \/ Construct

Spec == Init /\ [][Next]_vars

\* The generator and the threads in a call go on.
Fairness ==
    /\ WF_vars(Generator)
    /\ \A c \in Caller : WF_vars(Calling(c))
FairSpec == Spec /\ Fairness

----------------------------------------------------------------------------
(* Properties.                                                             *)

\* A pair made at random belongs to one access key for ever, and to no key
\* while it is in the pool: getNextPair and the generator take pairs from
\* the pool while others ask for them, and restarts bring keys back.
Unshared ==
    /\ \A k, l \in AccessKey : k # l =>
          RandomPair \cap (given[k] \cup {keys[k]})
                     \cap (given[l] \cup {keys[l]}) = {}
    /\ \A k \in AccessKey : RandomPair \cap pool \cap (given[k] \cup {keys[k]}) = {}

\* getNextPair hands out one pair for an access key, however its tasks are
\* interleaved, replaced and repeated, also after a restart, though the
\* destructor may save while the generator works, and after a crash if the
\* pair had been saved.  setGenesisList, and a file that holds no pair when it
\* is read, throw pairs away.
StablePair == \A k \in AccessKey \ Listed : Cardinality(given[k]) <= 1

\* A caller that finds its key before the generator has filled the entry
\* still gets what generate made, because it reads it under _keysMutex.  (The
\* entry is empty for long only after setGenesisList, or when a file was cut.)
WholePair ==
    [][\A c \in Caller : call[c].at = "read" /\ call'[c] = Idle /\ life' = life =>
          \/ keys[call[c].key] \in Pair \cup {Failed}
          \/ call[c].key \in Listed
          \/ file[call[c].key] = Empty]_vars

\* The generator takes a task off the list only when its key has what generate
\* made for it, also if the task was replaced while it was done.
TaskRemovedDone ==
    [][\A k \in AccessKey \ Listed :
          tasks[k] # None /\ tasks'[k] = None /\ life' # "closed" =>
              keys'[k] \in Pair \cup {Failed} \/ file[k] = Empty]_vars

\* start() may be lost while the generator ends, and a task then waits; but
\* as long as somebody calls start() again, each task is done.
RetriedTaskDone ==
    []<>(\E c \in Caller : call[c].at = "start") =>
        \A k \in AccessKey : tasks[k] # None ~> tasks[k] = None

=============================================================================
