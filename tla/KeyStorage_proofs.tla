------------------------- MODULE KeyStorage_proofs --------------------------
(***************************************************************************)
(* Theorems about KeyStorage, for any number of threads, access keys and   *)
(* pairs: what the proofs of its invariants and action properties need     *)
(* besides these properties, and the proofs.                               *)
(***************************************************************************)
EXTENDS KeyStorage, TLAPS, FiniteSetTheorems

(***************************************************************************)
(* Types.  TypeOK leaves open what the generator and a call remember.      *)
(***************************************************************************)
Todo == [AccessKey -> Task]

Gen == [at : {"off", "run", "loop", "ending"}]
       \cup [at : {"next"}, todo : Todo]
       \cup [at : {"make", "assign", "remove"}, key : AccessKey, todo : Todo]
       \cup [at : {"fill"}, size : PoolSize \cup {1}]

Call == {Idle} \cup [at : {"start"}, key : AccessKey \cup {None}]
        \cup [at : {"wait", "read"}, key : AccessKey]

Types ==
    /\ TypeOK
    /\ gen \in Gen
    /\ call \in [Caller -> Call]

(***************************************************************************)
(* The pairs of a key, and of its file, are nobody else's.                 *)
(***************************************************************************)
OnTheWay(k) == IF writing # None /\ writing.key = k THEN {writing.pair} ELSE {}

PairsOf(k) == RandomPair \cap (given[k] \cup {keys[k], file[k]} \cup OnTheWay(k))

Owned ==
    /\ \A k, l \in AccessKey : k # l => PairsOf(k) \cap PairsOf(l) = {}
    /\ \A k \in AccessKey : pool \cap PairsOf(k) = {}

(***************************************************************************)
(* Who is where in the life of the object.                                 *)
(***************************************************************************)
Busy(k) == gen.at \in {"make", "assign", "remove"} /\ gen.key = k

Life ==
    /\ life # "open" => \A c \in Caller : call[c] = Idle
    /\ life = "closed" => gen = Off
    /\ life # "saving" => saving = {} /\ writing = None
    /\ \A k \in saving : keys[k] # None
    /\ life = "closed" => ~inited
    /\ ~inited =>
          /\ saving = {}
          /\ \A k \in AccessKey : tasks[k] = None
          /\ gen.at \in {"off", "run", "loop", "ending", "fill"}
                \/ (gen.at = "next" /\ \A k \in AccessKey : gen.todo[k] = None)
          /\ \A k \in AccessKey \ Listed : keys[k] = None
          /\ \A c \in Caller : call[c].at = "start" => call[c].key = None
          /\ \A c \in Caller : call[c].at \in {"idle", "start"}
    /\ \A k \in AccessKey : Busy(k) => gen.todo[k] # None

(***************************************************************************)
(* The key, the file and the answers for an access key not in Listed.  In  *)
(* use, the entry is the file's pair, and every pair given is the entry,   *)
(* which the generator then leaves alone while the destructor saves it;    *)
(* without a storage, every pair given is in the file.                     *)
(***************************************************************************)
InUse(k) ==
    /\ life \in {"open", "closing"} /\ file[k] \in Pair => keys[k] = file[k]
    /\ given[k] \subseteq {keys[k]} \cap Pair
    /\ keys[k] = Empty => file[k] = Empty \/ (gen.at = "assign" /\ gen.key = k)
    /\ gen.at \in {"make", "assign"} /\ gen.key = k => keys[k] \notin Pair
    /\ gen.at = "remove" /\ gen.key = k =>
          keys[k] \in Pair \cup {Failed} \/ file[k] = Empty
    /\ \A c \in Caller : call[c].at = "read" /\ call[c].key = k => keys[k] # None
    /\ life = "saving" /\ given[k] # {} => k \in saving \/ file[k] = keys[k]
    /\ writing # None /\ writing.key = k =>
          writing.pair = keys[k] \/ (given[k] = {} /\ keys[k] # Empty)

AtRest(k) == given[k] \subseteq {file[k]}

Stored == \A k \in AccessKey \ Listed : IF inited THEN InUse(k) ELSE AtRest(k)

Inv == Types /\ Owned /\ Life /\ Stored

(***************************************************************************)
(* Generation.                                                             *)
(***************************************************************************)
LEMMA NewPairFresh == NewPair \subseteq RandomPair \ Held
BY DEF NewPair

LEMMA GeneratedPair ==
  ASSUME NEW g \in Genesis \cup {Rand}, NEW p \in Generated(g)
  PROVE  /\ p \in Pair \cup {Failed}
         /\ p \in RandomPair => p \notin Held
         /\ g = Rand => p \in RandomPair \cup {Failed}
BY NewPairFresh, KeysAssumption DEF Generated, Pair

(***************************************************************************)
(* Type correctness.                                                       *)
(***************************************************************************)
LEMMA RestTypes == Off \in Gen /\ Idle \in Call
BY DEF Off, Gen, Idle, Call

LEMMA TypeInit == Init => Types
<1>. SUFFICES ASSUME Init PROVE Types
  OBVIOUS
<1>1. gen \in Gen /\ call \in [Caller -> Call]
  BY RestTypes DEF Init
<1>2. TypeOK
  BY KeysAssumption DEF Init, TypeOK, Off, Idle, Entry, Task
<1>. QED  BY <1>1, <1>2 DEF Types

LEMMA TypeStep == Types /\ Life /\ [Next]_vars => Types'
<1>. SUFFICES ASSUME Types, Life, [Next]_vars PROVE Types'
  OBVIOUS
<1>. USE KeysAssumption DEF Types, TypeOK
<1>1. CASE GenRun
  BY <1>1 DEF GenRun, Gen, memory, disk
<1>2. CASE GenLoop
  BY <1>2 DEF GenLoop, Gen, Todo, memory, disk
<1>3. CASE GenEnd
  BY <1>3 DEF GenEnd, Gen, Off, memory, disk
<1>4. CASE GenNext
  BY <1>4 DEF GenNext, Gen, memory, disk
<1>5. CASE GenMake
  BY <1>5 DEF GenMake, Gen, disk, Entry
<1>6. CASE GenAssign
  <2>1. gen.key \in AccessKey /\ gen.todo[gen.key] \in Genesis \cup {Rand}
    BY <1>6 DEF GenAssign, Gen, Life, Busy, Todo, Task
  <2>2. Generated(gen.todo[gen.key]) \subseteq Pair \cup {Failed}
    BY <2>1, GeneratedPair
  <2>3. gen' \in Gen
    BY <1>6 DEF GenAssign, Gen
  <2>. QED  BY <1>6, <2>1, <2>2, <2>3 DEF GenAssign, disk, Entry, Pair
<1>7. CASE GenRemove
  BY <1>7 DEF GenRemove, Gen, Todo, Task, disk
<1>8. CASE GenFill
  <2>1. Generated(Rand) \subseteq RandomPair \cup {Failed}
    BY GeneratedPair
  <2>. QED  BY <1>8, <2>1 DEF GenFill, Gen, disk
<1>9. ASSUME NEW c \in Caller, Start(c) PROVE Types'
  BY <1>9 DEF Start, StartGenerator, Gen, Call, Idle, memory, disk
<1>10. ASSUME NEW c \in Caller, Found(c) \/ Timeout(c) PROVE Types'
  BY <1>10 DEF Found, Timeout, Call, Idle, memory, disk
<1>11. ASSUME NEW c \in Caller, Read(c) PROVE Types'
  BY <1>11 DEF Read, Call, Idle, memory, disk
<1>12. ASSUME NEW c \in Caller, InitStorage(c) PROVE Types'
  BY <1>12 DEF InitStorage, disk
<1>13. ASSUME NEW c \in Caller, NEW k \in AccessKey, NEW g \in Genesis \cup {Rand},
              GetNextPair(c, k, g)
       PROVE  Types'
  BY <1>13 DEF GetNextPair, Call, Task, disk
<1>14. ASSUME NEW c \in Caller, NEW n \in PoolSize, SetKeyPoolSize(c, n) PROVE Types'
  BY <1>14 DEF SetKeyPoolSize, Call, disk
<1>15. ASSUME NEW c \in Caller, NEW list \in SUBSET Listed, SetGenesisList(c, list)
       PROVE  Types'
  BY <1>15 DEF SetGenesisList, Call, Entry, disk
<1>16. CASE Destroy
  BY <1>16 DEF Destroy, disk
<1>17. CASE BeginSave
  BY <1>17 DEF BeginSave, memory, Life
<1>18. ASSUME NEW k \in AccessKey, CutFile(k) PROVE Types'
  BY <1>18 DEF CutFile, memory, Entry
<1>24. CASE WriteFile
  BY <1>24 DEF WriteFile, memory, Entry
<1>19. CASE SaveFails
  BY <1>19 DEF SaveFails, Survivors, memory
<1>20. CASE Close
  BY <1>20, RestTypes DEF Close, Forget, disk, Entry, Task, Off
<1>21. CASE Crash
  <2>1. gen' \in Gen /\ call' \in [Caller -> Call]
    BY <1>21, RestTypes DEF Crash
  <2>. QED  BY <1>21, <2>1 DEF Crash, Forget, Survivors, Off, Idle, Entry, Task
<1>22. CASE Construct
  BY <1>22 DEF Construct, memory, disk
<1>23. CASE UNCHANGED vars
  BY <1>23 DEF vars, memory, disk
<1>. QED
  BY <1>1, <1>2, <1>3, <1>4, <1>5, <1>6, <1>7, <1>8, <1>9, <1>10, <1>11, <1>12, <1>13,
     <1>14, <1>15, <1>16, <1>17, <1>18, <1>19, <1>20, <1>21, <1>22, <1>23, <1>24
     DEF Next, Generator, Calling, Destructor

(***************************************************************************)
(* The life of the object.                                                 *)
(***************************************************************************)
LEMMA LifeInit == Init => Life
BY KeysAssumption DEF Init, Life, Off, Idle, Busy

LEMMA LifeStep == Types /\ Life /\ [Next]_vars => Life'
<1>. SUFFICES ASSUME Types, Life, [Next]_vars PROVE Life'
  OBVIOUS
<1>. USE KeysAssumption DEF Types, TypeOK, Life, Busy
<1>1. CASE GenRun
  BY <1>1 DEF GenRun, Off, memory, disk
<1>2. CASE GenLoop
  BY <1>2 DEF GenLoop, Off, memory, disk
<1>3. CASE GenEnd
  BY <1>3 DEF GenEnd, Off, memory, disk
<1>4. CASE GenNext
  BY <1>4 DEF GenNext, Off, memory, disk
<1>5. CASE GenMake
  BY <1>5 DEF GenMake, Gen, Off, disk
<1>6. CASE GenAssign
  <2>1. gen.key \in AccessKey /\ gen.todo[gen.key] \in Genesis \cup {Rand}
    BY <1>6 DEF GenAssign, Gen, Todo, Task
  <2>2. PICK p \in Pair \cup {Failed} : keys' = [keys EXCEPT ![gen.key] = p]
    <3>1. Generated(gen.todo[gen.key]) \subseteq Pair \cup {Failed}
      BY <2>1, GeneratedPair
    <3>. QED  BY <1>6, <3>1 DEF GenAssign, Pair
  <2>. QED  BY <1>6, <2>1, <2>2 DEF GenAssign, Gen, Off, disk
<1>7. CASE GenRemove
  BY <1>7 DEF GenRemove, Gen, Off, disk
<1>8. CASE GenFill
  BY <1>8 DEF GenFill, Off, disk
<1>9. ASSUME NEW c \in Caller, Start(c) PROVE Life'
  BY <1>9 DEF Start, StartGenerator, Idle, Off, Gen, memory, disk
<1>10. ASSUME NEW c \in Caller, Found(c) \/ Timeout(c) PROVE Life'
  BY <1>10 DEF Found, Timeout, Call, Idle, memory, disk
<1>11. ASSUME NEW c \in Caller, Read(c) PROVE Life'
  BY <1>11 DEF Read, Idle, memory, disk
<1>12. ASSUME NEW c \in Caller, InitStorage(c) PROVE Life'
  BY <1>12 DEF InitStorage, MayCall, disk
<1>13. ASSUME NEW c \in Caller, NEW k \in AccessKey, NEW g \in Genesis \cup {Rand},
              GetNextPair(c, k, g)
       PROVE  Life'
  BY <1>13 DEF GetNextPair, MayCall, disk
<1>14. ASSUME NEW c \in Caller, NEW n \in PoolSize, SetKeyPoolSize(c, n) PROVE Life'
  BY <1>14 DEF SetKeyPoolSize, MayCall, disk
<1>15. ASSUME NEW c \in Caller, NEW list \in SUBSET Listed, SetGenesisList(c, list)
       PROVE  Life'
  BY <1>15 DEF SetGenesisList, MayCall, disk
<1>16. CASE Destroy
  BY <1>16 DEF Destroy, disk
<1>17. CASE BeginSave
  BY <1>17 DEF BeginSave, memory
<1>18. ASSUME NEW k \in AccessKey, CutFile(k) PROVE Life'
  BY <1>18 DEF CutFile, memory
<1>24. CASE WriteFile
  BY <1>24 DEF WriteFile, memory
<1>19. CASE SaveFails
  BY <1>19 DEF SaveFails, memory
<1>20. CASE Close
  BY <1>20 DEF Close, Forget, disk, Idle, Off
<1>21. CASE Crash
  BY <1>21 DEF Crash, Forget, Idle, Off
<1>22. CASE Construct
  BY <1>22 DEF Construct, memory, disk
<1>23. CASE UNCHANGED vars
  BY <1>23 DEF vars, memory, disk
<1>. QED
  BY <1>1, <1>2, <1>3, <1>4, <1>5, <1>6, <1>7, <1>8, <1>9, <1>10, <1>11, <1>12, <1>13,
     <1>14, <1>15, <1>16, <1>17, <1>18, <1>19, <1>20, <1>21, <1>22, <1>23, <1>24
     DEF Next, Generator, Calling, Destructor

(***************************************************************************)
(* Whose a random pair is.                                                 *)
(***************************************************************************)
LEMMA OwnedInit == Init => Owned
BY KeysAssumption DEF Init, Owned, PairsOf, OnTheWay, Pair

\* A step that gives no key a pair it did not have, and adds nothing to the
\* pool, keeps the pairs apart.
LEMMA NothingGained ==
  ASSUME Owned, pool' \subseteq pool, \A k \in AccessKey : PairsOf(k)' \subseteq PairsOf(k)
  PROVE  Owned'
BY DEF Owned

LEMMA PairsAreHeld == pool \subseteq Held /\ \A k \in AccessKey : PairsOf(k) \subseteq Held
<1>1. pool \subseteq Held
  BY DEF Held
<1>2. ASSUME NEW k \in AccessKey PROVE PairsOf(k) \subseteq Held
  <2>1. keys[k] \in Held
    BY DEF Held
  <2>2. file[k] \in Held
    BY DEF Held
  <2>3. given[k] \subseteq Held
    BY DEF Held
  <2>4. OnTheWay(k) \subseteq Held
    <3>0. Unwritten \subseteq Held
      BY DEF Held
    <3>1. writing # None => writing.pair \in Held
      BY <3>0 DEF Unwritten
    <3>2. OnTheWay(k) = {} \/ (writing # None /\ OnTheWay(k) = {writing.pair})
      BY DEF OnTheWay
    <3>. QED  BY <3>1, <3>2
  <2>. QED  BY <2>1, <2>2, <2>3, <2>4 DEF PairsOf
<1>. QED  BY <1>1, <1>2

LEMMA OwnedStep == Types /\ Life /\ Owned /\ [Next]_vars => Owned'
<1>. SUFFICES ASSUME Types, Life, Owned, [Next]_vars PROVE Owned'
  OBVIOUS
<1>. USE KeysAssumption DEF Types, TypeOK
<1>1. CASE UNCHANGED <<keys, file, given, pool, writing>>
  BY <1>1 DEF Owned, PairsOf, OnTheWay
<1>2. CASE GenMake
  <2>1. \A k \in AccessKey : PairsOf(k)' \subseteq PairsOf(k)
    BY <1>2 DEF GenMake, PairsOf, OnTheWay, disk, Pair
  <2>. QED  BY <1>2, <2>1, NothingGained DEF GenMake
<1>3. CASE GenAssign
  <2>. DEFINE k == gen.key
              g == gen.todo[k]
  <2>1. k \in AccessKey /\ g \in Genesis \cup {Rand}
    BY <1>3 DEF GenAssign, Gen, Life, Busy, Todo, Task
  <2>2. ASSUME NEW p \in pool, keys' = [keys EXCEPT ![k] = p], pool' = pool \ {p}
        PROVE  Owned'
    <3>1. \A l \in AccessKey : PairsOf(l)' \subseteq PairsOf(l) \cup (IF l = k THEN {p} ELSE {})
      BY <1>3, <2>1, <2>2 DEF GenAssign, PairsOf, OnTheWay, disk
    <3>. QED  BY <2>1, <2>2, <3>1 DEF Owned
  <2>3. ASSUME NEW p \in Generated(g), keys' = [keys EXCEPT ![k] = p], pool' = pool
        PROVE  Owned'
    <3>1. p \in RandomPair => p \notin Held
      BY <2>1, GeneratedPair
    <3>2. \A l \in AccessKey : PairsOf(l)' \subseteq
             PairsOf(l) \cup (IF l = k THEN RandomPair \cap {p} ELSE {})
      BY <1>3, <2>1, <2>3 DEF GenAssign, PairsOf, OnTheWay, disk
    <3>3. p \in RandomPair => p \notin pool /\ \A l \in AccessKey : p \notin PairsOf(l)
      BY <3>1, PairsAreHeld
    <3>. QED  BY <2>1, <2>3, <3>2, <3>3 DEF Owned
  <2>. QED  BY <1>3, <2>2, <2>3 DEF GenAssign
<1>4. CASE GenFill
  <2>1. ASSUME NEW p \in Generated(Rand), pool' = pool \cup {p} PROVE Owned'
    <3>1. p \in RandomPair => p \notin Held
      BY GeneratedPair
    <3>2. \A k \in AccessKey : PairsOf(k)' = PairsOf(k) /\ PairsOf(k) \subseteq RandomPair
      BY <1>4 DEF GenFill, PairsOf, OnTheWay, disk
    <3>3. \A k \in AccessKey : p \notin PairsOf(k)
      BY <3>1, PairsAreHeld DEF PairsOf
    <3>. QED  BY <2>1, <3>2, <3>3 DEF Owned
  <2>2. CASE pool' = pool
    BY <1>1, <1>4, <2>2 DEF GenFill, disk
  <2>. QED  BY <1>4, <2>1, <2>2 DEF GenFill
<1>5. ASSUME NEW c \in Caller, Read(c) PROVE Owned'
  <2>1. \A k \in AccessKey : PairsOf(k)' \subseteq PairsOf(k)
    BY <1>5 DEF Read, PairsOf, OnTheWay, Call, Idle, memory, disk
  <2>. QED  BY <1>5, <2>1, NothingGained DEF Read, memory
<1>6. ASSUME NEW c \in Caller, InitStorage(c) PROVE Owned'
  <2>1. \A k \in AccessKey : PairsOf(k)' \subseteq PairsOf(k)
    BY <1>6 DEF InitStorage, PairsOf, OnTheWay, disk
  <2>. QED  BY <1>6, <2>1, NothingGained DEF InitStorage
<1>7. ASSUME NEW c \in Caller, NEW list \in SUBSET Listed, SetGenesisList(c, list)
      PROVE  Owned'
  <2>1. \A k \in AccessKey : PairsOf(k)' \subseteq PairsOf(k)
    BY <1>7 DEF SetGenesisList, PairsOf, OnTheWay, disk, Pair
  <2>. QED  BY <1>7, <2>1, NothingGained DEF SetGenesisList
<1>8. CASE WriteFile \/ (\E k \in AccessKey : CutFile(k))
  <2>1. \A l \in AccessKey : PairsOf(l)' \subseteq PairsOf(l)
    BY <1>8 DEF CutFile, WriteFile, PairsOf, OnTheWay, memory, Pair
  <2>. QED  BY <1>8, <2>1, NothingGained DEF CutFile, WriteFile, memory
<1>9. CASE SaveFails \/ Close \/ Crash
  <2>1. \A l \in AccessKey : PairsOf(l)' \subseteq PairsOf(l)
    BY <1>9 DEF SaveFails, Close, Crash, Forget, Survivors, PairsOf, OnTheWay, memory, disk, Pair
  <2>. QED  BY <1>9, <2>1, NothingGained DEF SaveFails, Close, Crash, Forget, memory
<1>. QED
  BY <1>1, <1>2, <1>3, <1>4, <1>5, <1>6, <1>7, <1>8, <1>9
     DEF Next, Generator, Calling, Destructor, vars, memory, disk, GenRun, GenLoop, GenEnd,
         GenNext, GenRemove, Start, Found, Timeout, GetNextPair, SetKeyPoolSize, Destroy,
         BeginSave, Construct

(***************************************************************************)
(* The entry, the file and the answers of a key.                           *)
(***************************************************************************)
LEMMA StoredInit == Init => Stored
BY KeysAssumption DEF Init, Stored, AtRest

LEMMA StoredStep == Types /\ Life /\ Stored /\ [Next]_vars => Stored'
<1>. SUFFICES ASSUME Types, Life, Stored, [Next]_vars,
                     NEW k \in AccessKey \ Listed
              PROVE  (IF inited THEN InUse(k) ELSE AtRest(k))'
  BY DEF Stored
<1>. USE KeysAssumption DEF Types, TypeOK
<1>0. IF inited THEN InUse(k) ELSE AtRest(k)
  BY DEF Stored
<1>1. CASE GenRun
  BY <1>0, <1>1 DEF GenRun, InUse, AtRest, memory, disk
<1>2. CASE GenLoop
  BY <1>0, <1>2 DEF GenLoop, InUse, AtRest, memory, disk
<1>3. CASE GenEnd
  BY <1>0, <1>3 DEF GenEnd, InUse, AtRest, Off, memory, disk
<1>4. CASE GenNext
  BY <1>0, <1>4 DEF GenNext, InUse, AtRest, memory, disk
<1>5. CASE GenMake
  BY <1>0, <1>5 DEF GenMake, InUse, AtRest, Gen, Life, Pair, disk
<1>6. CASE GenAssign
  <2>1. gen.key \in AccessKey /\ gen.todo[gen.key] \in Genesis \cup {Rand} /\ inited
    BY <1>6 DEF GenAssign, Gen, Life, Busy, Todo, Task, Off
  <2>2. gen' \in Gen /\ gen'.at = "remove" /\ gen'.key = gen.key
    BY <1>6 DEF GenAssign, Gen
  <2>3. PICK p \in Pair \cup {Failed} : keys' = [keys EXCEPT ![gen.key] = p]
    <3>1. Generated(gen.todo[gen.key]) \subseteq Pair \cup {Failed}
      BY <2>1, GeneratedPair
    <3>. QED  BY <1>6, <3>1 DEF GenAssign, Pair
  <2>. QED  BY <1>0, <1>6, <2>1, <2>2, <2>3 DEF GenAssign, InUse, disk, Pair
<1>7. CASE GenRemove
  BY <1>0, <1>7 DEF GenRemove, InUse, AtRest, disk
<1>8. CASE GenFill
  BY <1>0, <1>8 DEF GenFill, InUse, AtRest, disk
<1>9. ASSUME NEW c \in Caller, Start(c)
      PROVE  (IF inited THEN InUse(k) ELSE AtRest(k))'
  BY <1>0, <1>9 DEF Start, StartGenerator, InUse, AtRest, Idle, Off, memory, disk
<1>10. ASSUME NEW c \in Caller, Found(c) \/ Timeout(c)
       PROVE  (IF inited THEN InUse(k) ELSE AtRest(k))'
  BY <1>0, <1>10 DEF Found, Timeout, InUse, AtRest, Call, Idle, memory, disk
<1>11. ASSUME NEW c \in Caller, Read(c)
       PROVE  (IF inited THEN InUse(k) ELSE AtRest(k))'
  BY <1>0, <1>11 DEF Read, InUse, AtRest, Call, Idle, Life, memory, disk
<1>12. ASSUME NEW c \in Caller, InitStorage(c)
       PROVE  (IF inited THEN InUse(k) ELSE AtRest(k))'
  BY <1>0, <1>12 DEF InitStorage, MayCall, InUse, AtRest, Life, Entry, Pair, disk
<1>13. ASSUME NEW c \in Caller, NEW l \in AccessKey, NEW g \in Genesis \cup {Rand},
              GetNextPair(c, l, g)
       PROVE  (IF inited THEN InUse(k) ELSE AtRest(k))'
  BY <1>0, <1>13 DEF GetNextPair, MayCall, InUse, AtRest, disk
<1>14. ASSUME NEW c \in Caller, NEW n \in PoolSize, SetKeyPoolSize(c, n)
       PROVE  (IF inited THEN InUse(k) ELSE AtRest(k))'
  BY <1>0, <1>14 DEF SetKeyPoolSize, MayCall, InUse, AtRest, disk
<1>15. ASSUME NEW c \in Caller, NEW list \in SUBSET Listed, SetGenesisList(c, list)
       PROVE  (IF inited THEN InUse(k) ELSE AtRest(k))'
  BY <1>0, <1>15 DEF SetGenesisList, MayCall, InUse, AtRest, disk
<1>16. CASE Destroy
  BY <1>0, <1>16 DEF Destroy, InUse, AtRest, Idle, disk
<1>17. CASE BeginSave
  BY <1>0, <1>17 DEF BeginSave, InUse, AtRest, memory, Pair
<1>18. ASSUME NEW l \in AccessKey, CutFile(l)
       PROVE  (IF inited THEN InUse(k) ELSE AtRest(k))'
  BY <1>0, <1>18 DEF CutFile, KeysLocked, InUse, AtRest, Life, memory
<1>24. CASE WriteFile
  <2>1. /\ writing.key \in saving /\ writing.pair \in Entry /\ saving # {} /\ life = "saving"
        /\ inited /\ keys[writing.key] # None
    BY <1>24 DEF WriteFile, Life
  <2>2. file'[k] = IF k = writing.key THEN writing.pair ELSE file[k]
    BY <1>24 DEF WriteFile
  <2>3. keys[k] = Empty => file[k] = Empty \/ (gen.at = "assign" /\ gen.key = k)
    BY <1>0, <2>1 DEF InUse
  <2>4. keys[k] = Empty => file'[k] = Empty \/ (gen.at = "assign" /\ gen.key = k)
    BY <1>0, <1>24, <2>1, <2>2, <2>3 DEF WriteFile, InUse
  <2>5. gen.at = "remove" /\ gen.key = k => keys[k] \in Pair \cup {Failed} \/ file'[k] = Empty
    BY <1>0, <2>1, <2>2, <2>4 DEF InUse, Entry
  <2>6. given[k] # {} => k \in saving' \/ file'[k] = keys[k]
    BY <1>0, <1>24, <2>1, <2>2 DEF WriteFile, InUse
  <2>. QED  BY <1>0, <1>24, <2>1, <2>4, <2>5, <2>6 DEF WriteFile, InUse, memory
<1>19. CASE SaveFails
  BY <1>0, <1>19 DEF SaveFails, Survivors, InUse, AtRest, Life, memory
<1>20. CASE Close
  BY <1>0, <1>20 DEF Close, Forget, InUse, AtRest, disk
<1>21. CASE Crash
  BY <1>21 DEF Crash, Forget, Survivors, AtRest
<1>22. CASE Construct
  BY <1>0, <1>22 DEF Construct, InUse, AtRest, Life, memory, disk
<1>23. CASE UNCHANGED vars
  BY <1>0, <1>23 DEF vars, InUse, AtRest, memory, disk
<1>. QED
  BY <1>1, <1>2, <1>3, <1>4, <1>5, <1>6, <1>7, <1>8, <1>9, <1>10, <1>11, <1>12, <1>13,
     <1>14, <1>15, <1>16, <1>17, <1>18, <1>19, <1>20, <1>21, <1>22, <1>23, <1>24
     DEF Next, Generator, Calling, Destructor

(***************************************************************************)
(* The theorems.                                                           *)
(***************************************************************************)
LEMMA Invariance == Spec => []Inv
<1>1. Init => Inv
  BY TypeInit, OwnedInit, LifeInit, StoredInit DEF Inv
<1>2. Inv /\ [Next]_vars => Inv'
  BY TypeStep, OwnedStep, LifeStep, StoredStep DEF Inv
<1>. QED  BY <1>1, <1>2, PTL DEF Spec

\* Every variable of the storage keeps its type: the generator never takes a
\* pair from an empty pool, nor works for a key that is none.
THEOREM TypeCorrectness == Spec => []TypeOK
<1>1. Inv => TypeOK
  BY DEF Inv, Types
<1>. QED  BY <1>1, Invariance, PTL

\* KeyStorage never gives a random pair to two access keys, and never one that
\* is still in the pool, for any number of threads, keys and restarts.
THEOREM PairsUnshared == Spec => []Unshared
<1>1. Inv => Unshared
  BY DEF Inv, Types, TypeOK, Owned, PairsOf, Unshared
<1>. QED  BY <1>1, Invariance, PTL

\* getNextPair answers with one pair for an access key that setGenesisList
\* does not name, across saves beside the generator, failing saves, restarts
\* and crashes.
THEOREM PairsStable == Spec => []StablePair
<1>1. ASSUME Inv PROVE StablePair
  <2>. SUFFICES ASSUME NEW k \in AccessKey \ Listed PROVE Cardinality(given[k]) <= 1
    BY DEF StablePair
  <2>1. PICK p : given[k] \subseteq {p}
    BY <1>1 DEF Inv, Stored, InUse, AtRest
  <2>2. given[k] = {} \/ given[k] = {p}
    BY <2>1
  <2>3. Cardinality({}) = 0 /\ Cardinality({p}) = 1
    BY FS_EmptySet, FS_Singleton
  <2>. QED  BY <2>2, <2>3
<1>. QED  BY <1>1, Invariance, PTL

\* The entry that getNextPair reads holds what generate made, unless it was
\* emptied by setGenesisList or read from a file that a crash had cut.
THEOREM PairsWhole == Spec => WholePair
<1>1. Inv /\ [Next]_vars =>
         [\A c \in Caller : call[c].at = "read" /\ call'[c] = Idle /\ life' = life =>
            \/ keys[call[c].key] \in Pair \cup {Failed}
            \/ call[c].key \in Listed
            \/ file[call[c].key] = Empty]_vars
  <2>. SUFFICES ASSUME Inv, Next, NEW c \in Caller,
                       call[c].at = "read", call'[c] = Idle, life' = life,
                       call[c].key \notin Listed
                PROVE  keys[call[c].key] \in Pair \cup {Failed} \/ file[call[c].key] = Empty
    OBVIOUS
  <2>. USE DEF Inv, Types, TypeOK
  <2>1. ~KeysLocked /\ inited
    BY DEF Next, Generator, Calling, Destructor, vars, memory, disk, GenRun, GenLoop, GenEnd,
         GenNext, GenMake, GenAssign, GenRemove, GenFill, Start, Found, Timeout, Read,
         GetNextPair, SetKeyPoolSize, SetGenesisList, InitStorage, Destroy, MayCall,
         BeginSave, CutFile, WriteFile, SaveFails, Close, Crash, Construct, Idle, Life
  <2>2. call[c].key \in AccessKey \ Listed /\ InUse(call[c].key)
    BY <2>1 DEF Call, Idle, Stored
  <2>. QED  BY <2>1, <2>2 DEF InUse, KeysLocked, Entry
<1>. QED  BY <1>1, Invariance, PTL DEF Spec, WholePair

\* A task leaves _generateTasks only when its key has what generate made, even
\* if genKey has replaced it since the generator took its copy.
THEOREM TasksRemovedDone == Spec => TaskRemovedDone
<1>1. Inv /\ [Next]_vars =>
         [\A k \in AccessKey \ Listed :
            tasks[k] # None /\ tasks'[k] = None /\ life' # "closed" =>
               keys'[k] \in Pair \cup {Failed} \/ file[k] = Empty]_vars
  <2>. SUFFICES ASSUME Inv, Next, NEW k \in AccessKey \ Listed,
                       tasks[k] # None, tasks'[k] = None, life' # "closed"
                PROVE  keys'[k] \in Pair \cup {Failed} \/ file[k] = Empty
    OBVIOUS
  <2>. USE DEF Inv, Types, TypeOK
  <2>1. GenRemove /\ gen.key = k /\ inited
    BY KeysAssumption
       DEF Next, Generator, Calling, Destructor, vars, memory, disk, GenRun, GenLoop, GenEnd,
         GenNext, GenMake, GenAssign, GenRemove, GenFill, Start, Found, Timeout, Read,
         GetNextPair, SetKeyPoolSize, SetGenesisList, InitStorage, Destroy, MayCall,
         BeginSave, CutFile, WriteFile, SaveFails, Close, Crash, Construct, Life, Pair
  <2>. QED  BY <2>1 DEF GenRemove, Stored, InUse
<1>. QED  BY <1>1, Invariance, PTL DEF Spec, TaskRemovedDone

=============================================================================
