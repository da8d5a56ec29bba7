-------------------------- MODULE SqlDBCache_proofs --------------------------
(***************************************************************************)
(* Proofs about the database of a node, for any threads, keys and contents *)
(* of objects, and any number of calls and jobs.                           *)
(***************************************************************************)
EXTENDS SqlDBCache, SequenceTheorems, WellFoundedInduction, TLAPS

Tables == [Key -> Object]

(***************************************************************************)
(* Jobs done one after the other.                                          *)
(***************************************************************************)

\* Induction over a set: every nonempty set of naturals has a least element.
LEMMA Induction ==
    ASSUME NEW S, 0 \in S, \A n \in Nat : n \in S => n + 1 \in S
    PROVE  \A n \in Nat : n \in S
<1>. SUFFICES ASSUME NEW n \in Nat, n \notin S PROVE FALSE
  OBVIOUS
<1>. DEFINE R == OpToRel(<, Nat)
            T == Nat \ S
<1>1. IsWellFoundedOn(R, Nat)
  BY NatLessThanWellFounded DEF OpToRel
<1>2. \E x \in T : \A y \in T : ~(<<y, x>> \in R)
  <2>1. T \subseteq Nat /\ T # {}
    OBVIOUS
  <2>. HIDE DEF R, T
  <2>. QED  BY <1>1, <2>1, WFMin
<1>3. PICK x \in T : \A y \in T : ~(y < x)
  BY <1>2 DEF OpToRel
<1>4. x # 0 /\ x - 1 \in Nat /\ x - 1 < x /\ (x - 1) + 1 = x
  OBVIOUS
<1>5. x - 1 \in S
  BY <1>3, <1>4
<1>. QED  BY <1>4, <1>5

\* f[n] is what the first n jobs of q make of the tables d, up to m jobs.
IsRun(f, d, q, m) ==
    f = [n \in 0 .. m |-> IF n = 0 THEN d ELSE Exec(f[n - 1], q[n])]

LEMMA RunExists ==
    ASSUME NEW d, NEW q, NEW m \in Nat
    PROVE  \E f : IsRun(f, d, q, m)
<1>. DEFINE S == {n \in Nat : \E f : IsRun(f, d, q, n)}
<1>1. 0 \in S
  <2>1. IsRun([n \in 0 .. 0 |-> d], d, q, 0)
    BY DEF IsRun
  <2>. QED  BY <2>1
<1>2. ASSUME NEW n \in Nat, n \in S PROVE n + 1 \in S
  <2>1. PICK f : IsRun(f, d, q, n)
    BY <1>2
  <2>. DEFINE g == [k \in 0 .. n + 1 |-> IF k = n + 1 THEN Exec(f[n], q[n + 1]) ELSE f[k]]
  <2>2. ASSUME NEW k \in 0 .. n + 1
        PROVE  g[k] = IF k = 0 THEN d ELSE Exec(g[k - 1], q[k])
    <3>1. CASE k = n + 1
      <4>1. k # 0 /\ k - 1 = n /\ n \in 0 .. n + 1 /\ n # n + 1
        BY <3>1
      <4>2. g[k - 1] = f[n]
        BY <4>1
      <4>. QED  BY <3>1, <4>1, <4>2
    <3>2. CASE k # n + 1
      <4>1. k \in 0 .. n /\ g[k] = f[k]
        BY <3>2
      <4>2. f[k] = IF k = 0 THEN d ELSE Exec(f[k - 1], q[k])
        BY <2>1, <4>1 DEF IsRun
      <4>3. k # 0 => g[k - 1] = f[k - 1]
        <5>1. k # 0 => k - 1 \in 0 .. n + 1 /\ k - 1 # n + 1
          BY <4>1
        <5>. QED  BY <5>1
      <4>. QED  BY <4>1, <4>2, <4>3
    <3>. QED  BY <3>1, <3>2
  <2>3. g = [k \in 0 .. n + 1 |-> g[k]]
    OBVIOUS
  <2>. HIDE DEF g
  <2>4. IsRun(g, d, q, n + 1)
    BY <2>2, <2>3 DEF IsRun
  <2>. QED  BY <2>4
<1>. HIDE DEF S
<1>3. m \in S
  BY <1>1, <1>2, Induction
<1>. QED  BY <1>3 DEF S

\* The first m jobs of q and r are the same.
SameJobs(q, r, m) == \A n \in 1 .. m : q[n] = r[n]

LEMMA RunUnique ==
    ASSUME NEW d, NEW q, NEW r, NEW m \in Nat, NEW k \in Nat, NEW f, NEW g,
           IsRun(f, d, q, m), IsRun(g, d, r, k), SameJobs(q, r, m), m <= k
    PROVE  \A n \in 0 .. m : f[n] = g[n]
<1>. DEFINE S == {n \in Nat : n <= m => f[n] = g[n]}
<1>0. /\ \A n \in 0 .. m : f[n] = IF n = 0 THEN d ELSE Exec(f[n - 1], q[n])
      /\ \A n \in 0 .. k : g[n] = IF n = 0 THEN d ELSE Exec(g[n - 1], r[n])
  BY DEF IsRun
<1>1. 0 \in S
  BY <1>0
<1>2. ASSUME NEW n \in Nat, n \in S PROVE n + 1 \in S
  <2>1. CASE n + 1 <= m
    <3>1. /\ n + 1 \in 0 .. m /\ n + 1 \in 0 .. k /\ n + 1 \in 1 .. m
          /\ n + 1 # 0 /\ (n + 1) - 1 = n /\ n <= m
      BY <2>1
    <3>2. f[n] = g[n] /\ q[n + 1] = r[n + 1]
      BY <1>2, <3>1 DEF SameJobs
    <3>3. f[n + 1] = Exec(f[n], q[n + 1]) /\ g[n + 1] = Exec(g[n], r[n + 1])
      BY <1>0, <3>1
    <3>. QED  BY <3>2, <3>3
  <2>. QED  BY <2>1
<1>. HIDE DEF S
<1>3. \A n \in Nat : n \in S
  BY <1>1, <1>2, Induction
<1>. QED  BY <1>3 DEF S

RunOf(d, q) == CHOOSE f : IsRun(f, d, q, Len(q))

LEMMA RunFacts ==
    ASSUME NEW d, NEW q \in Seq(Job)
    PROVE  /\ IsRun(RunOf(d, q), d, q, Len(q))
           /\ RunOf(d, q)[0] = d
           /\ \A n \in 1 .. Len(q) : RunOf(d, q)[n] = Exec(RunOf(d, q)[n - 1], q[n])
<1>1. Len(q) \in Nat
  BY LenProperties
<1>2. IsRun(RunOf(d, q), d, q, Len(q))
  BY <1>1, RunExists DEF RunOf
<1>. DEFINE f == RunOf(d, q)
<1>3. \A n \in 0 .. Len(q) : f[n] = IF n = 0 THEN d ELSE Exec(f[n - 1], q[n])
  BY <1>2 DEF IsRun
<1>. QED  BY <1>1, <1>2, <1>3

LEMMA AfterIs == After = RunOf(db, jobs) /\ After' = RunOf(db', jobs')
BY DEF After, RunOf, IsRun

LEMMA ExecType ==
    ASSUME NEW d \in Tables, NEW j \in Job
    PROVE  /\ Exec(d, j) \in Tables
           /\ \A k \in Key \ {j.key} : Exec(d, j)[k] = d[k]
BY DEF Exec, Tables, Job, Object, Op

LEMMA RunType ==
    ASSUME NEW d \in Tables, NEW q \in Seq(Job)
    PROVE  \A n \in 0 .. Len(q) : RunOf(d, q)[n] \in Tables
<1>. DEFINE S == {n \in Nat : n <= Len(q) => RunOf(d, q)[n] \in Tables}
<1>0. Len(q) \in Nat
  BY LenProperties
<1>1. 0 \in S
  BY RunFacts
<1>2. ASSUME NEW n \in Nat, n \in S PROVE n + 1 \in S
  <2>1. CASE n + 1 <= Len(q)
    <3>1. n + 1 \in 1 .. Len(q) /\ (n + 1) - 1 = n /\ n <= Len(q)
      BY <1>0, <2>1
    <3>2. RunOf(d, q)[n + 1] = Exec(RunOf(d, q)[n], q[n + 1]) /\ q[n + 1] \in Job
      BY <3>1, RunFacts, ElementOfSeq
    <3>3. RunOf(d, q)[n] \in Tables
      BY <1>2, <3>1
    <3>. QED  BY <3>2, <3>3, ExecType
  <2>. QED  BY <2>1
<1>. HIDE DEF S
<1>3. \A n \in Nat : n \in S
  BY <1>1, <1>2, Induction
<1>. QED  BY <1>3 DEF S

LEMMA RunAppended ==
    ASSUME NEW d, NEW q \in Seq(Job), NEW j \in Job
    PROVE  LET r == Append(q, j) IN
           /\ \A n \in 0 .. Len(q) : RunOf(d, r)[n] = RunOf(d, q)[n]
           /\ RunOf(d, r)[Len(q) + 1] = Exec(RunOf(d, q)[Len(q)], j)
<1>. DEFINE r == Append(q, j)
<1>1. /\ Len(q) \in Nat /\ r \in Seq(Job) /\ Len(r) = Len(q) + 1
      /\ \A n \in 1 .. Len(q) : q[n] = r[n]
      /\ r[Len(q) + 1] = j
  BY LenProperties, AppendProperties
<1>. HIDE DEF r
<1>2. IsRun(RunOf(d, q), d, q, Len(q)) /\ IsRun(RunOf(d, r), d, r, Len(r))
  BY <1>1, RunFacts
<1>3. Len(r) \in Nat /\ Len(q) <= Len(r)
  BY <1>1
<1>4. \A n \in 0 .. Len(q) : RunOf(d, q)[n] = RunOf(d, r)[n]
  <2>1. Len(q) \in Nat /\ SameJobs(q, r, Len(q))
    BY <1>1 DEF SameJobs
  <2>. QED  BY <1>2, <1>3, <2>1, RunUnique
<1>5. RunOf(d, r)[Len(q) + 1] = Exec(RunOf(d, r)[Len(q)], j)
  <2>1. Len(q) + 1 \in 1 .. Len(r) /\ (Len(q) + 1) - 1 = Len(q)
    BY <1>1
  <2>. QED  BY <1>1, <2>1, RunFacts
<1>6. Len(q) \in 0 .. Len(q)
  BY <1>1
<1>. QED  BY <1>4, <1>5, <1>6 DEF r

LEMMA RunTail ==
    ASSUME NEW d, NEW q \in Seq(Job), q # <<>>
    PROVE  \A n \in 0 .. Len(q) - 1 : RunOf(Exec(d, Head(q)), Tail(q))[n] = RunOf(d, q)[n + 1]
<1>. DEFINE r == Tail(q)
            e == Exec(d, Head(q))
            f == [n \in 0 .. Len(q) - 1 |-> RunOf(d, q)[n + 1]]
<1>1. /\ Len(q) \in Nat \ {0} /\ r \in Seq(Job) /\ Len(r) = Len(q) - 1
      /\ \A n \in 1 .. Len(r) : r[n] = q[n + 1]
      /\ e = Exec(d, q[1])
  BY EmptySeq, HeadTailProperties
<1>. HIDE DEF r, e
<1>2. ASSUME NEW n \in 0 .. Len(q) - 1
      PROVE  f[n] = IF n = 0 THEN e ELSE Exec(f[n - 1], r[n])
  <2>1. n + 1 \in 1 .. Len(q) /\ (n + 1) - 1 = n
    BY <1>1
  <2>2. RunOf(d, q)[n + 1] = Exec(RunOf(d, q)[n], q[n + 1]) /\ RunOf(d, q)[0] = d
    BY <2>1, RunFacts
  <2>3. CASE n = 0
    BY <1>1, <2>2, <2>3
  <2>4. CASE n # 0
    <3>1. n \in 1 .. Len(r) /\ n - 1 \in 0 .. Len(q) - 1 /\ (n - 1) + 1 = n
      BY <1>1, <2>4
    <3>. QED  BY <1>1, <2>2, <2>4, <3>1
  <2>. QED  BY <2>3, <2>4
<1>3. f = [n \in 0 .. Len(q) - 1 |-> f[n]]
  OBVIOUS
<1>4. \A n \in 0 .. Len(q) - 1 : f[n] = RunOf(d, q)[n + 1]
  OBVIOUS
<1>. HIDE DEF f
<1>5. IsRun(f, e, r, Len(r))
  BY <1>1, <1>2, <1>3 DEF IsRun
<1>6. IsRun(RunOf(e, r), e, r, Len(r))
  BY <1>1, RunFacts
<1>7. \A n \in 0 .. Len(r) : RunOf(e, r)[n] = f[n]
  <2>1. Len(r) \in Nat /\ SameJobs(r, r, Len(r))
    BY <1>1 DEF SameJobs
  <2>. QED  BY <1>5, <1>6, <2>1, RunUnique
<1>. QED  BY <1>1, <1>4, <1>7 DEF r, e

(***************************************************************************)
(* Types.  A job that somebody waits for is the only one of its call.      *)
(***************************************************************************)

Awaited ==
    /\ \A n \in 1 .. Len(jobs) : jobs[n].by # None =>
          /\ call[jobs[n].by] # None /\ call[jobs[n].by].at = "await"
          /\ call[jobs[n].by].op = jobs[n].op /\ call[jobs[n].by].key = jobs[n].key
    /\ \A n, m \in 1 .. Len(jobs) : jobs[n].by # None /\ jobs[n].by = jobs[m].by => n = m

TypeInv == TypeOK /\ Awaited

\* A call goes from one step to another.
LEMMA Moved ==
    ASSUME TypeOK, NEW c \in Caller, call[c] # None, NEW s \in Step, Goto(c, s)
    PROVE  /\ call' \in [Caller -> CallState \cup {None}]
           /\ call'[c] = [call[c] EXCEPT !.at = s] /\ call'[c] \in CallState
           /\ call'[c] # None /\ call'[c].at = s
           /\ call'[c].op = call[c].op /\ call'[c].key = call[c].key
           /\ call'[c].value = call[c].value /\ call'[c].change = call[c].change
           /\ call'[c].shared = call[c].shared
           /\ \A d \in Caller \ {c} : call'[d] = call[d]
<1>1. call[c] \in CallState
  BY DEF TypeOK
<1>2. call'[c] = [call[c] EXCEPT !.at = s] /\ \A d \in Caller \ {c} : call'[d] = call[d]
  BY DEF Goto, TypeOK
<1>3. [call[c] EXCEPT !.at = s] \in CallState
  BY <1>1 DEF CallState
<1>4. call' \in [Caller -> CallState \cup {None}]
  BY <1>3 DEF Goto, TypeOK
<1>5. [call[c] EXCEPT !.at = s].at = s
  BY <1>1 DEF CallState
<1>6. /\ [call[c] EXCEPT !.at = s].op = call[c].op
      /\ [call[c] EXCEPT !.at = s].key = call[c].key
      /\ [call[c] EXCEPT !.at = s].value = call[c].value
      /\ [call[c] EXCEPT !.at = s].change = call[c].change
      /\ [call[c] EXCEPT !.at = s].shared = call[c].shared
  BY <1>1 DEF CallState
<1>. QED  BY <1>2, <1>3, <1>4, <1>5, <1>6, ConstantsAssumption

\* The step of a call from the cache; a read that finds its object shares it.
LEMMA VisitCacheMoves ==
    ASSUME TypeOK, NEW c \in Caller, VisitCache(c)
    PROVE  \E s \in Step :
              /\ s = IF call[c].op = "get"
                     THEN (IF cache[call[c].key] # None THEN "return" ELSE "write")
                     ELSE IF call[c].op = "delete" THEN "queue" ELSE "write"
              /\ call' \in [Caller -> CallState \cup {None}]
              /\ call'[c] # None /\ call'[c].at = s
              /\ call'[c].op = call[c].op /\ call'[c].key = call[c].key
              /\ call'[c].value = call[c].value /\ call'[c].change = call[c].change
              /\ s # "return" => call'[c].shared = call[c].shared
              /\ \A d \in Caller \ {c} : call'[d] = call[d]
<1>1. call[c] # None /\ call[c] \in CallState
  BY DEF VisitCache, TypeOK
<1>2. CASE call[c].op = "get" /\ cache[call[c].key] # None
  <2>1. call' = [call EXCEPT ![c].at = "return", ![c].shared = TRUE]
    BY <1>2 DEF VisitCache
  <2>. DEFINE r == [call[c] EXCEPT !.at = "return", !.shared = TRUE]
  <2>2. /\ r \in CallState /\ r.at = "return" /\ r.op = call[c].op /\ r.key = call[c].key
        /\ r.value = call[c].value /\ r.change = call[c].change
    BY <1>1 DEF CallState, Step
  <2>3. call'[c] = r /\ \A d \in Caller \ {c} : call'[d] = call[d]
    BY <2>1 DEF TypeOK
  <2>4. call' = [call EXCEPT ![c] = r]
    BY <2>1 DEF TypeOK
  <2>. HIDE DEF r
  <2>5. call' \in [Caller -> CallState \cup {None}]
    BY <2>2, <2>4 DEF TypeOK
  <2>6. "return" \in Step
    BY DEF Step
  <2>. QED  BY <1>2, <2>2, <2>3, <2>5, <2>6, ConstantsAssumption
<1>3. CASE ~(call[c].op = "get" /\ cache[call[c].key] # None)
  <2>1. PICK s \in Step : Goto(c, s) /\ s = IF call[c].op = "get"
                                             THEN (IF cache[call[c].key] # None THEN "return" ELSE "write")
                                             ELSE IF call[c].op = "delete" THEN "queue" ELSE "write"
    BY <1>3 DEF VisitCache, Step
  <2>. QED  BY <1>1, <2>1, Moved
<1>. QED  BY <1>2, <1>3

\* A call is posted: its job is the last one.
LEMMA Posted ==
    ASSUME TypeOK, NEW c \in Caller, call[c] # None, Post(c)
    PROVE  \E j \in Job, s \in {"await", "return"} :
              /\ j.op = call[c].op /\ j.key = call[c].key /\ j.value = call[c].value
              /\ s = "await" => j.by = c
              /\ s = "return" => j.by = None /\ j.op # "get"
              /\ Goto(c, s)
              /\ jobs' = Append(jobs, j) /\ jobs' \in Seq(Job) /\ Len(jobs') = Len(jobs) + 1
              /\ \A n \in 1 .. Len(jobs) : jobs'[n] = jobs[n]
              /\ jobs'[Len(jobs) + 1] = j
<1>. DEFINE w == call[c].wait \/ call[c].op = "get"
            j == [op |-> call[c].op, key |-> call[c].key, value |-> call[c].value,
                  by |-> IF w THEN c ELSE None]
            s == IF w THEN "await" ELSE "return"
<1>1. call[c] \in CallState
  BY DEF TypeOK
<1>2. j \in Job /\ s \in {"await", "return"}
  BY <1>1 DEF CallState, Job
<1>3. jobs' = Append(jobs, j) /\ Goto(c, s)
  BY DEF Post
<1>4. /\ s = "await" => j.by = c
      /\ s = "return" => j.by = None /\ j.op # "get"
  OBVIOUS
<1>5. j.op = call[c].op /\ j.key = call[c].key /\ j.value = call[c].value
  OBVIOUS
<1>. HIDE DEF j, s
<1>6. /\ jobs' \in Seq(Job) /\ Len(jobs') = Len(jobs) + 1
      /\ \A n \in 1 .. Len(jobs) : jobs'[n] = jobs[n]
      /\ jobs'[Len(jobs) + 1] = j
  BY <1>2, <1>3, AppendProperties DEF TypeOK
<1>. QED  BY <1>2, <1>3, <1>4, <1>5, <1>6

\* The first job is done and its caller goes on.
LEMMA JobDone ==
    ASSUME TypeInv, RunJob
    PROVE  /\ jobs # <<>> /\ jobs[1] \in Job /\ Len(jobs) \in Nat \ {0}
           /\ jobs' \in Seq(Job) /\ Len(jobs') = Len(jobs) - 1
           /\ \A n \in 1 .. Len(jobs') : jobs'[n] = jobs[n + 1]
           /\ db' = Exec(db, jobs[1]) /\ db' \in Tables
           /\ jobs[1].by = None => UNCHANGED <<call, answer>>
           /\ jobs[1].by # None =>
                 /\ jobs[1].by \in Caller /\ call[jobs[1].by] # None
                 /\ call[jobs[1].by].op = jobs[1].op /\ call[jobs[1].by].key = jobs[1].key
                 /\ call[jobs[1].by].at = "await"
                 /\ IF jobs[1].op = "get"
                    THEN /\ Goto(jobs[1].by, "fill")
                         /\ answer' = [answer EXCEPT ![jobs[1].by] = db[jobs[1].key]]
                    ELSE Goto(jobs[1].by, "return") /\ UNCHANGED answer
<1>1. /\ jobs # <<>> /\ jobs' = Tail(jobs) /\ jobs \in Seq(Job) /\ db \in Tables
  BY DEF RunJob, TypeInv, TypeOK, Tables
<1>2. /\ jobs[1] \in Job /\ Len(jobs) \in Nat \ {0}
      /\ jobs' \in Seq(Job) /\ Len(jobs') = Len(jobs) - 1
      /\ \A n \in 1 .. Len(jobs') : jobs'[n] = jobs[n + 1]
      /\ Head(jobs) = jobs[1]
  BY <1>1, EmptySeq, HeadTailProperties
<1>3. db' = Exec(db, jobs[1]) /\ db' \in Tables
  BY <1>1, <1>2, ExecType DEF RunJob
<1>4. jobs[1].by # None =>
                 /\ jobs[1].by \in Caller /\ call[jobs[1].by] # None
                 /\ call[jobs[1].by].op = jobs[1].op /\ call[jobs[1].by].key = jobs[1].key
                 /\ call[jobs[1].by].at = "await"
  BY <1>2 DEF Job, TypeInv, Awaited
<1>. QED  BY <1>1, <1>2, <1>3, <1>4 DEF RunJob

\* What a call begins with.
Initial(r) ==
    /\ r \in CallState /\ r.at = "cache" /\ ~r.shared
    /\ r.change => r.op = "get" /\ r.key \in Member
    /\ r.op = "update" => r.key \in Member
    /\ r.op \in {"insert", "update"} => r.value \in Value

LEMMA Requested ==
    ASSUME NEW op \in Op, NEW k \in Key, NEW v \in Object, NEW w \in BOOLEAN,
           op = "update" => k \in Member,
           op \in {"insert", "update"} => v \in Value
    PROVE  /\ Initial(Request(op, k, v))
           /\ Initial([Request(op, k, v) EXCEPT !.wait = w])
           /\ op = "get" /\ k \in Member => Initial([Request(op, k, v) EXCEPT !.change = TRUE])
<1>. DEFINE r == Request(op, k, v)
<1>1. r \in CallState
  BY DEF Request, CallState, Step
<1>2. r.op = op /\ r.key = k /\ r.value = v /\ r.at = "cache" /\ r.change = FALSE
      /\ r.shared = FALSE
  BY DEF Request
<1>3. Initial(r)
  BY <1>1, <1>2 DEF Initial
<1>. HIDE DEF r
<1>4. Initial([r EXCEPT !.wait = w])
  BY <1>1, <1>2 DEF CallState, Initial
<1>5. op = "get" /\ k \in Member => Initial([r EXCEPT !.change = TRUE])
  BY <1>1, <1>2 DEF CallState, Initial
<1>. QED  BY <1>3, <1>4, <1>5 DEF r

\* What a change of an object goes on with.
Changed(r, q) ==
    /\ r \in CallState /\ r # None /\ r.at = "change" /\ r.op = "update"
    /\ r.key = q.key /\ r.value \in Value /\ ~r.change /\ r.shared = q.shared

LEMMA ChangeActionMoves ==
    ASSUME TypeOK, NEW c \in Caller, ChangeAction(c), call[c].key \in Member
    PROVE  /\ call' \in [Caller -> CallState \cup {None}]
           /\ call'[c] = None \/ Changed(call'[c], call[c])
           /\ \A d \in Caller \ {c} : call'[d] = call[d]
<1>1. call[c] # None /\ call[c] \in CallState
  BY DEF ChangeAction, TypeOK
<1>2. CASE call' = [call EXCEPT ![c] = None]
  BY <1>2 DEF TypeOK
<1>3. ASSUME NEW v \in Value,
             call' = [call EXCEPT ![c] = [Request("update", call[c].key, v) EXCEPT
                                              !.shared = call[c].shared,
                                              !.at = "change"]]
      PROVE  /\ call' \in [Caller -> CallState \cup {None}]
             /\ Changed(call'[c], call[c])
             /\ \A d \in Caller \ {c} : call'[d] = call[d]
  <2>. DEFINE q == Request("update", call[c].key, v)
              r == [q EXCEPT !.shared = call[c].shared, !.at = "change"]
  <2>1. call[c].shared \in BOOLEAN /\ call[c].key \in Member
    BY <1>1 DEF CallState
  <2>2. /\ q \in CallState /\ q.op = "update" /\ q.key = call[c].key /\ q.value = v
        /\ q.change = FALSE
    <3>1. "update" \in Op /\ call[c].key \in Key /\ v \in Object
      BY <2>1 DEF Op, Object, Key
    <3>2. Initial(q)
      BY <2>1, <3>1, Requested
    <3>3. q.op = "update" /\ q.key = call[c].key /\ q.value = v /\ q.change = FALSE
      BY DEF Request
    <3>. QED  BY <3>2, <3>3 DEF Initial
  <2>. HIDE DEF q
  <2>4. /\ r \in CallState /\ r.op = "update" /\ r.key = call[c].key /\ r.value = v
        /\ r.change = FALSE /\ r.shared = call[c].shared /\ r.at = "change"
    BY <2>1, <2>2 DEF CallState, Step
  <2>. HIDE DEF r
  <2>5. Changed(r, call[c])
    BY <2>4, ConstantsAssumption DEF Changed
  <2>3. call' = [call EXCEPT ![c] = r]
    BY <1>3 DEF q, r
  <2>. QED  BY <2>3, <2>5 DEF Changed, TypeOK
<1>. QED  BY <1>2, <1>3 DEF ChangeAction

\* A call is begun.
LEMMA Invoked ==
    ASSUME TypeOK, NEW c \in Caller, Invocation(c)
    PROVE  \E r \in CallState :
              /\ Initial(r) /\ r # None
              /\ Invoke(c, r) /\ call[c] = None /\ call' \in [Caller -> CallState \cup {None}]
              /\ call'[c] = r /\ \A d \in Caller \ {c} : call'[d] = call[d]
<1>. USE DEF Op, Key, Object
<1>1. \E r : Invoke(c, r) /\ Initial(r)
  <2>1. CASE GetAllObjects(c)
    BY <2>1, Requested DEF GetAllObjects
  <2>2. CASE ChangeObjects(c)
    BY <2>2, Requested DEF ChangeObjects
  <2>3. CASE UpdateObject(c)
    BY <2>3, Requested DEF UpdateObject
  <2>4. CASE InsertObject(c)
    BY <2>4, Requested DEF InsertObject
  <2>5. CASE AddUpdatePermission(c)
    BY <2>5, Requested, ConstantsAssumption DEF AddUpdatePermission
  <2>6. CASE DeleteObject(c)
    BY <2>6, Requested DEF DeleteObject
  <2>. QED  BY <2>1, <2>2, <2>3, <2>4, <2>5, <2>6 DEF Invocation
<1>2. PICK r : Invoke(c, r) /\ Initial(r)
  BY <1>1
<1>3. /\ call[c] = None /\ call' = [call EXCEPT ![c] = r] /\ r \in CallState
  BY <1>2 DEF Invoke, Initial
<1>4. /\ call' \in [Caller -> CallState \cup {None}]
      /\ call'[c] = r /\ \A d \in Caller \ {c} : call'[d] = call[d]
  BY <1>3 DEF TypeOK
<1>. QED  BY <1>2, <1>3, <1>4, ConstantsAssumption

LEMMA InitTypes == Init => TypeInv
<1>. SUFFICES ASSUME Init PROVE TypeInv
  OBVIOUS
<1>1. TypeOK
  BY EmptySeq, ConstantsAssumption DEF Init, TypeOK, Object
<1>2. Awaited
  BY EmptySeq DEF Init, Awaited
<1>. QED  BY <1>1, <1>2 DEF TypeInv

LEMMA InvocationTypes ==
    ASSUME TypeInv, NEW c \in Caller, Invocation(c) PROVE TypeInv'
<1>1. PICK r \in CallState :
              /\ Invoke(c, r) /\ call[c] = None /\ call' \in [Caller -> CallState \cup {None}]
              /\ call'[c] = r /\ \A d \in Caller \ {c} : call'[d] = call[d]
  BY Invoked DEF TypeInv
<1>2. TypeOK'
  BY <1>1, ConstantsAssumption DEF TypeInv, TypeOK, Invoke
<1>3. Awaited'
  BY <1>1 DEF TypeInv, Awaited, Invoke
<1>. QED  BY <1>2, <1>3 DEF TypeInv

\* A step after which no job is new and its caller does not wait.
LEMMA StillAwaited ==
    ASSUME Awaited, NEW c \in Caller, call[c] = None \/ call[c].at # "await",
           UNCHANGED jobs, \A d \in Caller \ {c} : call'[d] = call[d], jobs \in Seq(Job)
    PROVE  Awaited'
<1>1. \A n \in 1 .. Len(jobs) : jobs[n].by # None => jobs[n].by \in Caller \ {c}
  <2>1. \A n \in 1 .. Len(jobs) : jobs[n] \in Job
    BY ElementOfSeq
  <2>. QED  BY <2>1 DEF Awaited, Job
<1>. QED  BY <1>1 DEF Awaited

LEMMA VisitCacheTypes ==
    ASSUME TypeInv, NEW c \in Caller, VisitCache(c) PROVE TypeInv'
<1>2. call[c] # None /\ call[c] \in CallState /\ call[c].at = "cache"
  BY DEF VisitCache, TypeInv, TypeOK
<1>3. /\ call' \in [Caller -> CallState \cup {None}]
      /\ \A d \in Caller \ {c} : call'[d] = call[d]
  BY VisitCacheMoves DEF TypeInv
<1>4. cache' \in [Key -> Object] /\ answer' \in [Caller -> Object]
  BY <1>2 DEF VisitCache, TypeInv, TypeOK, CallState, Object
<1>5. TypeOK'
  BY <1>3, <1>4 DEF VisitCache, TypeInv, TypeOK
<1>6. Awaited'
  BY <1>2, <1>3, StillAwaited DEF VisitCache, TypeInv, TypeOK
<1>. QED  BY <1>5, <1>6 DEF TypeInv

LEMMA PushToQueueTypes ==
    ASSUME TypeInv, NEW c \in Caller, PushToQueue(c) PROVE TypeInv'
<1>1. Goto(c, "write") /\ "write" \in Step
  BY DEF PushToQueue, Step
<1>2. call[c] # None /\ call[c] \in CallState /\ call[c].at = "queue"
  BY DEF PushToQueue, TypeInv, TypeOK
<1>3. /\ call' \in [Caller -> CallState \cup {None}]
      /\ \A d \in Caller \ {c} : call'[d] = call[d]
  BY <1>1, <1>2, Moved DEF TypeInv
<1>4. TypeOK'
  BY <1>2, <1>3 DEF PushToQueue, TypeInv, TypeOK, CallState
<1>5. Awaited'
  BY <1>2, <1>3, StillAwaited DEF PushToQueue, TypeInv, TypeOK
<1>. QED  BY <1>4, <1>5 DEF TypeInv

LEMMA FillTypes ==
    ASSUME TypeInv, NEW c \in Caller, Fill(c) PROVE TypeInv'
<1>1. Goto(c, "return") /\ "return" \in Step
  BY DEF Fill, Step
<1>2. call[c] # None /\ call[c] \in CallState /\ call[c].at = "fill"
  BY DEF Fill, TypeInv, TypeOK
<1>3. /\ call' \in [Caller -> CallState \cup {None}]
      /\ \A d \in Caller \ {c} : call'[d] = call[d]
  BY <1>1, <1>2, Moved DEF TypeInv
<1>4. TypeOK'
  BY <1>2, <1>3 DEF Fill, TypeInv, TypeOK, CallState
<1>5. Awaited'
  BY <1>2, <1>3, StillAwaited DEF Fill, TypeInv, TypeOK
<1>. QED  BY <1>4, <1>5 DEF TypeInv

LEMMA ReturnTypes ==
    ASSUME TypeInv, NEW c \in Caller, Return(c) PROVE TypeInv'
<1>2. call[c] # None /\ call[c] \in CallState /\ call[c].at = "return"
  BY DEF Return, TypeInv, TypeOK
<1>3. /\ call' \in [Caller -> CallState \cup {None}]
      /\ \A d \in Caller \ {c} : call'[d] = call[d]
  <2>1. CASE Goto(c, "modify")
    <3>1. "modify" \in Step
      BY DEF Step
    <3>. QED  BY <1>2, <2>1, <3>1, Moved DEF TypeInv
  <2>2. CASE call' = [call EXCEPT ![c] = None]
    BY <2>2 DEF TypeInv, TypeOK
  <2>. QED  BY <2>1, <2>2 DEF Return
<1>4. TypeOK'
  BY <1>2, <1>3 DEF Return, TypeInv, TypeOK, Object
<1>5. Awaited'
  BY <1>2, <1>3, StillAwaited DEF Return, TypeInv, TypeOK
<1>. QED  BY <1>4, <1>5 DEF TypeInv

LEMMA ChangeActionTypes ==
    ASSUME TypeInv, NEW c \in Caller, ChangeAction(c), call[c].key \in Member
    PROVE  TypeInv'
<1>2. call[c] # None /\ call[c] \in CallState /\ call[c].at = "modify"
  BY DEF ChangeAction, TypeInv, TypeOK
<1>3. /\ call' \in [Caller -> CallState \cup {None}]
      /\ \A d \in Caller \ {c} : call'[d] = call[d]
  BY ChangeActionMoves DEF TypeInv
<1>4. TypeOK'
  BY <1>2, <1>3 DEF ChangeAction, TypeInv, TypeOK
<1>5. Awaited'
  BY <1>2, <1>3, StillAwaited DEF ChangeAction, TypeInv, TypeOK
<1>. QED  BY <1>4, <1>5 DEF TypeInv

LEMMA ChangeInPlaceTypes ==
    ASSUME TypeInv, NEW c \in Caller, ChangeInPlace(c) PROVE TypeInv'
<1>1. Goto(c, "cache") /\ "cache" \in Step
  BY DEF ChangeInPlace, Step
<1>2. call[c] # None /\ call[c] \in CallState /\ call[c].at = "change"
  BY DEF ChangeInPlace, TypeInv, TypeOK
<1>3. /\ call' \in [Caller -> CallState \cup {None}]
      /\ \A d \in Caller \ {c} : call'[d] = call[d]
  BY <1>1, <1>2, Moved DEF TypeInv
<1>4. TypeOK'
  BY <1>2, <1>3 DEF ChangeInPlace, TypeInv, TypeOK, CallState
<1>5. Awaited'
  BY <1>2, <1>3, StillAwaited DEF ChangeInPlace, TypeInv, TypeOK
<1>. QED  BY <1>4, <1>5 DEF TypeInv

LEMMA CallWriterTypes ==
    ASSUME TypeInv, NEW c \in Caller, CallWriter(c) PROVE TypeInv'
<1>1. call[c] # None /\ call[c].at = "write" /\ Post(c)
  BY DEF CallWriter
<1>2. PICK j \in Job, s \in {"await", "return"} :
              /\ j.op = call[c].op /\ j.key = call[c].key /\ j.value = call[c].value
              /\ s = "await" => j.by = c
              /\ s = "return" => j.by = None /\ j.op # "get"
              /\ Goto(c, s)
              /\ jobs' = Append(jobs, j) /\ jobs' \in Seq(Job) /\ Len(jobs') = Len(jobs) + 1
              /\ \A n \in 1 .. Len(jobs) : jobs'[n] = jobs[n]
              /\ jobs'[Len(jobs) + 1] = j
  BY <1>1, Posted DEF TypeInv
<1>3. /\ call' \in [Caller -> CallState \cup {None}]
      /\ call'[c] # None /\ call'[c].at = s
      /\ call'[c].op = call[c].op /\ call'[c].key = call[c].key
      /\ \A d \in Caller \ {c} : call'[d] = call[d]
  BY <1>1, <1>2, Moved DEF TypeInv, Step
<1>4. TypeOK'
  BY <1>2, <1>3 DEF CallWriter, TypeInv, TypeOK
<1>5. Awaited'
  <2>1. Len(jobs) \in Nat /\ \A n \in 1 .. Len(jobs) : jobs[n] \in Job
    BY LenProperties, ElementOfSeq DEF TypeInv, TypeOK
  <2>2. \A n \in 1 .. Len(jobs) : jobs[n].by # None => jobs[n].by \in Caller \ {c}
    BY <1>1, <2>1 DEF TypeInv, Awaited, Job
  <2>3. ASSUME NEW n \in 1 .. Len(jobs'), jobs'[n].by # None
        PROVE  /\ call'[jobs'[n].by] # None /\ call'[jobs'[n].by].at = "await"
               /\ call'[jobs'[n].by].op = jobs'[n].op /\ call'[jobs'[n].by].key = jobs'[n].key
    <3>1. CASE n = Len(jobs) + 1
      BY <1>2, <1>3, <2>3, <3>1
    <3>2. CASE n # Len(jobs) + 1
      <4>1. n \in 1 .. Len(jobs) /\ jobs'[n] = jobs[n]
        BY <1>2, <2>1, <3>2
      <4>. QED  BY <1>3, <2>2, <2>3, <4>1 DEF TypeInv, Awaited
    <3>. QED  BY <3>1, <3>2
  <2>4. ASSUME NEW n \in 1 .. Len(jobs'), NEW m \in 1 .. Len(jobs'),
               jobs'[n].by # None, jobs'[n].by = jobs'[m].by
        PROVE  n = m
    <3>1. \A k \in 1 .. Len(jobs') : k = Len(jobs) + 1 \/ k \in 1 .. Len(jobs)
      BY <1>2, <2>1
    <3>. QED  BY <1>2, <2>2, <2>4, <3>1 DEF TypeInv, Awaited
  <2>. QED  BY <2>3, <2>4 DEF Awaited
<1>. QED  BY <1>4, <1>5 DEF TypeInv

LEMMA RunJobTypes == ASSUME TypeInv, RunJob PROVE TypeInv'
<1>. DEFINE j == jobs[1]
<1>1. /\ j \in Job /\ Len(jobs) \in Nat \ {0}
      /\ jobs' \in Seq(Job) /\ Len(jobs') = Len(jobs) - 1
      /\ \A n \in 1 .. Len(jobs') : jobs'[n] = jobs[n + 1]
      /\ db' \in Tables
  BY JobDone
<1>2. CASE j.by = None
  <2>1. UNCHANGED <<call, answer>>
    BY <1>2, JobDone
  <2>2. TypeOK'
    BY <1>1, <2>1 DEF RunJob, TypeInv, TypeOK, Tables
  <2>3. \A n \in 1 .. Len(jobs') : n + 1 \in 1 .. Len(jobs) /\ jobs'[n] = jobs[n + 1]
    BY <1>1
  <2>4. ASSUME NEW n \in 1 .. Len(jobs'), NEW m \in 1 .. Len(jobs'),
               jobs'[n].by # None, jobs'[n].by = jobs'[m].by
        PROVE  n = m
    <3>1. PICK i \in 1 .. Len(jobs), l \in 1 .. Len(jobs) : i = n + 1 /\ l = m + 1
      BY <2>3
    <3>2. jobs[i].by # None /\ jobs[i].by = jobs[l].by
      BY <2>3, <2>4, <3>1
    <3>3. i = l
      BY <3>2 DEF TypeInv, Awaited
    <3>. QED  BY <1>1, <3>1, <3>3
  <2>5. ASSUME NEW n \in 1 .. Len(jobs'), jobs'[n].by # None
        PROVE  /\ call'[jobs'[n].by] # None /\ call'[jobs'[n].by].at = "await"
               /\ call'[jobs'[n].by].op = jobs'[n].op /\ call'[jobs'[n].by].key = jobs'[n].key
    BY <2>1, <2>3, <2>5 DEF TypeInv, Awaited
  <2>6. Awaited'
    BY <2>4, <2>5 DEF Awaited
  <2>. QED  BY <2>2, <2>6 DEF TypeInv
<1>3. CASE j.by # None
  <2>1. j.by \in Caller /\ call[j.by] # None
    BY <1>3, JobDone
  <2>2. PICK s \in {"fill", "return"} : Goto(j.by, s)
    BY <1>3, JobDone
  <2>3. /\ call' \in [Caller -> CallState \cup {None}]
        /\ \A d \in Caller \ {j.by} : call'[d] = call[d]
    BY <2>1, <2>2, Moved DEF TypeInv, Step
  <2>4. answer' \in [Caller -> Object]
    <3>1. answer' = [answer EXCEPT ![j.by] = db[j.key]] \/ answer' = answer
      BY <1>3, JobDone
    <3>. QED  BY <1>1, <3>1 DEF TypeInv, TypeOK, Job
  <2>5. TypeOK'
    BY <1>1, <2>3, <2>4 DEF RunJob, TypeInv, TypeOK, Tables
  <2>6. \A n \in 1 .. Len(jobs') : n + 1 \in 1 .. Len(jobs) /\ n + 1 # 1
    BY <1>1
  <2>7. \A n \in 1 .. Len(jobs') : jobs'[n].by # j.by
    <3>1. 1 \in 1 .. Len(jobs)
      BY <1>1
    <3>. QED  BY <1>1, <1>3, <2>6, <3>1 DEF TypeInv, Awaited
  <2>8. \A n \in 1 .. Len(jobs') : jobs'[n].by # None => jobs'[n].by \in Caller
    <3>1. \A n \in 1 .. Len(jobs') : jobs'[n] \in Job
      BY <1>1, ElementOfSeq
    <3>. QED  BY <3>1 DEF Job
  <2>9. ASSUME NEW n \in 1 .. Len(jobs'), jobs'[n].by # None
        PROVE  /\ call'[jobs'[n].by] # None /\ call'[jobs'[n].by].at = "await"
               /\ call'[jobs'[n].by].op = jobs'[n].op /\ call'[jobs'[n].by].key = jobs'[n].key
    BY <1>1, <2>3, <2>6, <2>7, <2>8, <2>9 DEF TypeInv, Awaited
  <2>10. ASSUME NEW n \in 1 .. Len(jobs'), NEW m \in 1 .. Len(jobs'),
                jobs'[n].by # None, jobs'[n].by = jobs'[m].by
         PROVE  n = m
    <3>1. n + 1 = m + 1
      BY <1>1, <2>6, <2>10 DEF TypeInv, Awaited
    <3>. QED  BY <1>1, <3>1
  <2>11. Awaited'
    BY <2>9, <2>10 DEF Awaited
  <2>. QED  BY <2>5, <2>11 DEF TypeInv
<1>. QED  BY <1>2, <1>3

LEMMA NodeTypes ==
    ASSUME TypeInv, Stop \/ Run \/ UNCHANGED vars PROVE TypeInv'
<1>1. CASE Stop
  <2>1. After[Len(jobs)] \in Tables
    BY AfterIs, RunType, LenProperties DEF TypeInv, TypeOK, Tables
  <2>2. db' \in Tables
    BY <1>1, <2>1, ConstantsAssumption DEF Stop, Tables, TypeInv, TypeOK, Object
  <2>3. TypeOK'
    BY <1>1, <2>2, EmptySeq, ConstantsAssumption DEF Stop, TypeInv, TypeOK, Tables, Object
  <2>4. Awaited'
    BY <1>1, EmptySeq DEF Stop, Awaited
  <2>. QED  BY <2>3, <2>4 DEF TypeInv
<1>2. CASE Run
  BY <1>2, ConstantsAssumption DEF Run, TypeInv, TypeOK, Awaited
<1>3. CASE UNCHANGED vars
  BY <1>3 DEF vars, TypeInv, TypeOK, Awaited
<1>. QED  BY <1>1, <1>2, <1>3

(***************************************************************************)
(* What a call is at each of its steps, and what is left when the node     *)
(* does not run.                                                           *)
(***************************************************************************)

\* Call r of a caller whose select has found a.
Phase(r, a) ==
    /\ a # None => r # None /\ r.op = "get" /\ r.at \in {"fill", "return"}
    /\ r # None =>
          /\ r.at \in {"fill", "modify"} => r.op = "get"
          /\ r.at = "queue" => r.op = "delete"
          /\ r.at = "modify" => r.change
          /\ r.at = "change" => r.op = "update"
          /\ r.at = "cache" /\ r.shared => r.op = "update"
          /\ r.change => r.op = "get" /\ r.key \in Member
          /\ r.op = "update" => r.key \in Member
          /\ r.op \in {"insert", "update"} => r.value \in Value

Phases == \A c \in Caller : Phase(call[c], answer[c])

Closed == ~open => jobs = <<>> /\ \A c \in Caller : call[c] = None

CacheOnly == \A k \in Key : cache[k] # None => Cached(k)

Sharing == \A c \in Caller : call[c] # None /\ call[c].shared => kind = "SqlDBCache"

Inv == TypeInv /\ Phases /\ Closed /\ CacheOnly /\ Sharing

LEMMA InitInv == Init => Inv
BY InitTypes DEF Init, Inv, Phases, Phase, Closed, CacheOnly, Sharing

\* A caller takes a step while the node runs.
LEMMA StillPhases ==
    ASSUME Inv, NEW c \in Caller, UNCHANGED <<open, kind>>,
           \A d \in Caller \ {c} : call'[d] = call[d] /\ answer'[d] = answer[d],
           Phase(call'[c], answer'[c]), call[c] # None,
           call'[c] = None \/ call'[c].shared = call[c].shared \/ kind = "SqlDBCache"
    PROVE  Phases' /\ Closed' /\ Sharing'
<1>1. Phases'
  BY DEF Inv, Phases
<1>2. open
  BY DEF Inv, Closed
<1>3. Sharing'
  BY DEF Inv, Sharing
<1>. QED  BY <1>1, <1>2, <1>3 DEF Closed

LEMMA InvocationInv ==
    ASSUME Inv, NEW c \in Caller, Invocation(c) PROVE Inv'
<1>1. PICK r \in CallState :
              /\ Initial(r) /\ r # None
              /\ Invoke(c, r) /\ call[c] = None /\ call' \in [Caller -> CallState \cup {None}]
              /\ call'[c] = r /\ \A d \in Caller \ {c} : call'[d] = call[d]
  BY Invoked DEF Inv, TypeInv
<1>2. TypeInv'
  BY InvocationTypes DEF Inv
<1>3. Phases'
  BY <1>1 DEF Inv, Phases, Phase, Invoke, Initial
<1>4. Closed' /\ CacheOnly' /\ Sharing'
  BY <1>1 DEF Inv, Closed, CacheOnly, Sharing, Cached, Invoke, Initial
<1>. QED  BY <1>2, <1>3, <1>4 DEF Inv

LEMMA VisitCacheInv ==
    ASSUME Inv, NEW c \in Caller, VisitCache(c) PROVE Inv'
<1>2. call[c] # None /\ call[c] \in CallState /\ call[c].at = "cache"
  BY DEF VisitCache, Inv, TypeInv, TypeOK
<1>3. PICK s \in Step :
        /\ s = IF call[c].op = "get"
               THEN (IF cache[call[c].key] # None THEN "return" ELSE "write")
               ELSE IF call[c].op = "delete" THEN "queue" ELSE "write"
        /\ call'[c] # None /\ call'[c].at = s
        /\ call'[c].op = call[c].op /\ call'[c].key = call[c].key
        /\ call'[c].value = call[c].value /\ call'[c].change = call[c].change
        /\ s # "return" => call'[c].shared = call[c].shared
        /\ \A d \in Caller \ {c} : call'[d] = call[d]
  BY VisitCacheMoves DEF Inv, TypeInv
<1>4. /\ answer'[c] = IF s = "return" THEN cache[call[c].key] ELSE answer[c]
      /\ \A d \in Caller \ {c} : answer'[d] = answer[d]
  BY <1>3 DEF VisitCache, Inv, TypeInv, TypeOK
<1>5. Phase(call'[c], answer'[c])
  <2>1. Phase(call[c], answer[c])
    BY DEF Inv, Phases
  <2>. QED  BY <1>2, <1>3, <1>4, <2>1 DEF Phase
<1>8. s = "return" => kind = "SqlDBCache"
  BY <1>2, <1>3 DEF Inv, CacheOnly, Cached, CallState
<1>6. Phases' /\ Closed' /\ Sharing'
  BY <1>2, <1>3, <1>4, <1>5, <1>8, StillPhases DEF VisitCache
<1>7. CacheOnly'
  BY DEF VisitCache, Inv, CacheOnly, Cached, TypeInv, TypeOK
<1>. QED  BY <1>6, <1>7, VisitCacheTypes DEF Inv

LEMMA PushToQueueInv ==
    ASSUME Inv, NEW c \in Caller, PushToQueue(c) PROVE Inv'
<1>1. Goto(c, "write") /\ call[c] # None /\ "write" \in Step /\ call[c].at = "queue"
  BY DEF PushToQueue, Step
<1>2. /\ call'[c] # None /\ call'[c].at = "write"
      /\ call'[c].op = call[c].op /\ call'[c].key = call[c].key
      /\ call'[c].value = call[c].value /\ call'[c].change = call[c].change
      /\ call'[c].shared = call[c].shared
      /\ \A d \in Caller \ {c} : call'[d] = call[d]
  BY <1>1, Moved DEF Inv, TypeInv
<1>3. Phase(call'[c], answer'[c])
  <2>1. Phase(call[c], answer[c])
    BY DEF Inv, Phases
  <2>. QED  BY <1>1, <1>2, <2>1 DEF Phase, PushToQueue
<1>4. Phases' /\ Closed' /\ Sharing'
  BY <1>1, <1>2, <1>3, StillPhases DEF PushToQueue
<1>5. CacheOnly'
  BY DEF PushToQueue, Inv, CacheOnly, Cached
<1>. QED  BY <1>4, <1>5, PushToQueueTypes DEF Inv

LEMMA CallWriterInv ==
    ASSUME Inv, NEW c \in Caller, CallWriter(c) PROVE Inv'
<1>1. call[c] # None /\ call[c].at = "write" /\ Post(c)
  BY DEF CallWriter
<1>2. PICK s \in {"await", "return"} : Goto(c, s)
  BY <1>1, Posted DEF Inv, TypeInv
<1>3. /\ call'[c] # None /\ call'[c].at = s
      /\ call'[c].op = call[c].op /\ call'[c].key = call[c].key
      /\ call'[c].value = call[c].value /\ call'[c].change = call[c].change
      /\ call'[c].shared = call[c].shared
      /\ \A d \in Caller \ {c} : call'[d] = call[d]
  BY <1>1, <1>2, Moved DEF Inv, TypeInv, Step
<1>4. Phase(call'[c], answer'[c])
  <2>1. Phase(call[c], answer[c])
    BY DEF Inv, Phases
  <2>. QED  BY <1>1, <1>3, <2>1 DEF Phase, CallWriter
<1>5. Phases' /\ Closed' /\ Sharing'
  BY <1>1, <1>3, <1>4, StillPhases DEF CallWriter
<1>6. CacheOnly'
  BY DEF CallWriter, Inv, CacheOnly, Cached
<1>. QED  BY <1>5, <1>6, CallWriterTypes DEF Inv

LEMMA FillInv ==
    ASSUME Inv, NEW c \in Caller, Fill(c) PROVE Inv'
<1>1. Goto(c, "return") /\ call[c] # None /\ "return" \in Step /\ call[c].at = "fill"
  BY DEF Fill, Step
<1>2. /\ call'[c] # None /\ call'[c].at = "return"
      /\ call'[c].op = call[c].op /\ call'[c].key = call[c].key
      /\ call'[c].value = call[c].value /\ call'[c].change = call[c].change
      /\ call'[c].shared = call[c].shared
      /\ \A d \in Caller \ {c} : call'[d] = call[d]
  BY <1>1, Moved DEF Inv, TypeInv
<1>3. Phase(call'[c], answer'[c])
  <2>1. Phase(call[c], answer[c])
    BY DEF Inv, Phases
  <2>. QED  BY <1>1, <1>2, <2>1 DEF Phase, Fill
<1>4. Phases' /\ Closed' /\ Sharing'
  BY <1>1, <1>2, <1>3, StillPhases DEF Fill
<1>5. CacheOnly'
  BY DEF Fill, Inv, CacheOnly, Cached, TypeInv, TypeOK
<1>. QED  BY <1>4, <1>5, FillTypes DEF Inv

LEMMA ChangeActionInv ==
    ASSUME Inv, NEW c \in Caller, ChangeAction(c) PROVE Inv'
<1>1. call[c] # None /\ call[c] \in CallState /\ call[c].at = "modify"
  BY DEF ChangeAction, Inv, TypeInv, TypeOK
<1>2. call[c].key \in Member /\ answer[c] = None
  BY <1>1 DEF Inv, Phases, Phase
<1>3. TypeInv'
  BY <1>2, ChangeActionTypes DEF Inv
<1>4. /\ call'[c] = None \/ Changed(call'[c], call[c])
      /\ \A d \in Caller \ {c} : call'[d] = call[d]
  BY <1>2, ChangeActionMoves DEF Inv, TypeInv
<1>5. UNCHANGED <<answer, open, kind>>
  BY DEF ChangeAction
<1>6. Phase(call'[c], answer'[c])
  BY <1>2, <1>4, <1>5 DEF Phase, Changed
<1>7. Phases' /\ Closed' /\ Sharing'
  BY <1>1, <1>4, <1>5, <1>6, StillPhases DEF Changed
<1>8. CacheOnly'
  BY DEF ChangeAction, Inv, CacheOnly, Cached
<1>. QED  BY <1>3, <1>7, <1>8 DEF Inv

LEMMA ChangeInPlaceInv ==
    ASSUME Inv, NEW c \in Caller, ChangeInPlace(c) PROVE Inv'
<1>1. Goto(c, "cache") /\ call[c] # None /\ "cache" \in Step /\ call[c].at = "change"
  BY DEF ChangeInPlace, Step
<1>2. /\ call'[c] # None /\ call'[c].at = "cache"
      /\ call'[c].op = call[c].op /\ call'[c].key = call[c].key
      /\ call'[c].value = call[c].value /\ call'[c].change = call[c].change
      /\ call'[c].shared = call[c].shared
      /\ \A d \in Caller \ {c} : call'[d] = call[d]
  BY <1>1, Moved DEF Inv, TypeInv
<1>3. Phase(call'[c], answer'[c])
  <2>1. Phase(call[c], answer[c])
    BY DEF Inv, Phases
  <2>. QED  BY <1>1, <1>2, <2>1 DEF Phase, ChangeInPlace
<1>4. Phases' /\ Closed' /\ Sharing'
  BY <1>1, <1>2, <1>3, StillPhases DEF ChangeInPlace
<1>5. CacheOnly'
  BY DEF ChangeInPlace, Inv, CacheOnly, Cached, TypeInv, TypeOK
<1>. QED  BY <1>4, <1>5, ChangeInPlaceTypes DEF Inv

LEMMA ReturnInv ==
    ASSUME Inv, NEW c \in Caller, Return(c) PROVE Inv'
<1>1. call[c] # None /\ "modify" \in Step /\ call[c].at = "return"
  BY DEF Return, Step
<1>2. answer'[c] = None /\ \A d \in Caller \ {c} : answer'[d] = answer[d]
  BY DEF Return, Inv, TypeInv, TypeOK
<1>3. CASE Goto(c, "modify") /\ call[c].change
  <2>1. /\ call'[c] # None /\ call'[c].at = "modify"
        /\ call'[c].op = call[c].op /\ call'[c].key = call[c].key
        /\ call'[c].value = call[c].value /\ call'[c].change = call[c].change
        /\ call'[c].shared = call[c].shared
        /\ \A d \in Caller \ {c} : call'[d] = call[d]
    BY <1>1, <1>3, Moved DEF Inv, TypeInv
  <2>2. Phase(call[c], answer[c])
    BY DEF Inv, Phases
  <2>3. Phase(call'[c], answer'[c])
    BY <1>1, <1>2, <1>3, <2>1, <2>2 DEF Phase
  <2>. QED  BY <1>1, <1>2, <2>1, <2>3, StillPhases, ReturnTypes DEF Return, Inv, CacheOnly, Cached
<1>4. CASE call' = [call EXCEPT ![c] = None]
  <2>1. call'[c] = None /\ \A d \in Caller \ {c} : call'[d] = call[d]
    BY <1>4 DEF Inv, TypeInv, TypeOK
  <2>2. Phase(call'[c], answer'[c])
    BY <1>2, <2>1 DEF Phase
  <2>. QED  BY <1>1, <1>2, <2>1, <2>2, StillPhases, ReturnTypes DEF Return, Inv, CacheOnly, Cached
<1>. QED  BY <1>3, <1>4 DEF Return

LEMMA RunJobInv == ASSUME Inv, RunJob PROVE Inv'
<1>. DEFINE j == jobs[1]
<1>1. TypeInv'
  BY RunJobTypes DEF Inv
<1>2. CacheOnly'
  BY DEF RunJob, Inv, CacheOnly, Cached
<1>3. Phases' /\ Closed' /\ Sharing'
  <2>1. CASE j.by = None
    <3>1. UNCHANGED <<call, answer>>
      BY <2>1, JobDone DEF Inv
    <3>2. open
      BY JobDone DEF Inv, Closed
    <3>. QED  BY <3>1, <3>2 DEF Inv, Phases, Closed, Sharing, RunJob
  <2>2. CASE j.by # None
    <3>. DEFINE c == j.by
    <3>1. /\ c \in Caller /\ call[c] # None /\ call[c].at = "await"
          /\ call[c].op = j.op
      BY <2>2, JobDone DEF Inv
    <3>2. PICK s \in {"fill", "return"} : Goto(c, s) /\ (s = "fill" <=> j.op = "get")
      <4>1. IF j.op = "get" THEN Goto(c, "fill") ELSE Goto(c, "return")
        BY <2>2, JobDone DEF Inv
      <4>. HIDE DEF c, j
      <4>. QED  BY <4>1
    <3>3. /\ call'[c] # None /\ call'[c].at = s
          /\ call'[c].op = call[c].op /\ call'[c].key = call[c].key
          /\ call'[c].value = call[c].value /\ call'[c].change = call[c].change
          /\ call'[c].shared = call[c].shared
          /\ \A d \in Caller \ {c} : call'[d] = call[d]
      <4>1. TypeOK /\ s \in Step
        BY DEF Inv, TypeInv, Step
      <4>. HIDE DEF c, j
      <4>. QED  BY <3>1, <3>2, <4>1, Moved
    <3>4. /\ \A d \in Caller \ {c} : answer'[d] = answer[d]
          /\ j.op # "get" => answer'[c] = answer[c]
      <4>1. (j.op = "get" /\ answer' = [answer EXCEPT ![c] = db[j.key]]) \/ answer' = answer
        BY <2>2, <3>2, JobDone DEF Inv
      <4>. HIDE DEF c
      <4>. QED  BY <4>1 DEF Inv, TypeInv, TypeOK
    <3>5. Phase(call'[c], answer'[c])
      <4>1. Phase(call[c], answer[c])
        BY <3>1 DEF Inv, Phases
      <4>. HIDE DEF c, j
      <4>2. CASE j.op = "get"
        BY <3>1, <3>2, <3>3, <4>1, <4>2 DEF Phase
      <4>3. CASE j.op # "get"
        BY <3>1, <3>2, <3>3, <3>4, <4>1, <4>3 DEF Phase
      <4>. QED  BY <4>2, <4>3
    <3>. HIDE DEF c
    <3>. QED  BY <3>1, <3>3, <3>4, <3>5, StillPhases DEF RunJob
  <2>. QED  BY <2>1, <2>2
<1>. QED  BY <1>1, <1>2, <1>3 DEF Inv

LEMMA NodeInv == ASSUME Inv, Stop \/ Run \/ UNCHANGED vars PROVE Inv'
<1>1. TypeInv'
  BY NodeTypes DEF Inv
<1>2. CASE Stop
  BY <1>1, <1>2 DEF Stop, Inv, Phases, Closed, CacheOnly, Sharing, Cached
<1>3. CASE Run
  BY <1>1, <1>3 DEF Run, Inv, Phases, Closed, CacheOnly, Sharing, Cached
<1>4. CASE UNCHANGED vars
  BY <1>1, <1>4 DEF vars, Inv, Phases, Closed, CacheOnly, Sharing, Cached
<1>. QED  BY <1>2, <1>3, <1>4

LEMMA InvHolds == Spec => []Inv
<1>1. ASSUME Inv, [Next]_vars PROVE Inv'
  <2>1. ASSUME NEW c \in Caller, Progress(c) PROVE Inv'
    BY <1>1, <2>1, VisitCacheInv, PushToQueueInv, CallWriterInv, FillInv, ChangeActionInv,
       ChangeInPlaceInv, ReturnInv DEF Progress
  <2>2. ASSUME NEW c \in Caller, Invocation(c) PROVE Inv'
    BY <1>1, <2>2, InvocationInv
  <2>. QED  BY <1>1, <2>1, <2>2, RunJobInv, NodeInv DEF Next
<1>. QED  BY <1>1, InitInv, PTL DEF Spec

(***************************************************************************)
(* Type correctness.                                                       *)
(***************************************************************************)

\* The cache, the tables and the jobs hold objects and keys, and every call is
\* at one of its steps.
THEOREM TypeCorrectness == Spec => []TypeOK
<1>1. Inv => TypeOK
  BY DEF Inv, TypeInv
<1>. QED  BY <1>1, InvHolds, PTL

(***************************************************************************)
(* A cache that one thread uses.                                           *)
(***************************************************************************)

\* The condition under which the cache and the writer are one store.
OneCached == \A c, d \in CachedCaller : c = d

\* Where the call of that thread has come to, the cache tells of its key what
\* the jobs that are left will make of it.
Alone ==
    kind = "SqlDBCache" => \A c \in Caller : call[c] # None =>
       /\ c \in CachedCaller
       /\ call[c].at = "write" /\ call[c].op \in {"get", "delete"} => cache[call[c].key] = None
       /\ call[c].at = "queue" => cache[call[c].key] = None
       /\ call[c].at = "await" => jobs # <<>> /\ jobs[Len(jobs)].by = c
       /\ call[c].at = "fill" => jobs = <<>> /\ answer[c] = db[call[c].key]
       /\ call[c].shared => call[c].op \in {"get", "update"} /\ cache[call[c].key] # None
       /\ call[c].shared /\ call[c].at = "cache" => cache[call[c].key] = call[c].value

\* With a cache, only the caller that takes the step is in a call.
LEMMA OthersIdle ==
    ASSUME OneCached, Alone, kind = "SqlDBCache", NEW c \in Caller, call[c] # None
    PROVE  \A d \in Caller \ {c} : call[d] = None
BY DEF OneCached, Alone

LEMMA InitAlone == Init => Alone
BY DEF Init, Alone

LEMMA InvocationAlone ==
    ASSUME Inv, Alone, NEW c \in Caller, Invocation(c) PROVE Alone'
<1>1. PICK r \in CallState :
              /\ Initial(r) /\ r # None
              /\ Invoke(c, r) /\ call[c] = None /\ call' \in [Caller -> CallState \cup {None}]
              /\ call'[c] = r /\ \A d \in Caller \ {c} : call'[d] = call[d]
  BY Invoked DEF Inv, TypeInv
<1>. QED  BY <1>1 DEF Alone, Invoke, Initial

LEMMA ProgressAlone ==
    ASSUME OneCached, Inv, Alone, NEW c \in Caller, Progress(c) PROVE Alone'
<1>. SUFFICES ASSUME kind = "SqlDBCache" PROVE Alone'
  <2>1. kind' = kind
    BY DEF Progress, VisitCache, PushToQueue, CallWriter, Fill, ChangeAction,
           ChangeInPlace, Return
  <2>. QED  BY <2>1 DEF Alone
<1>1. call[c] # None /\ kind' = kind /\ call[c] \in CallState
  BY DEF Progress, VisitCache, PushToQueue, CallWriter, Fill, ChangeAction,
           ChangeInPlace, Return,
         Inv, TypeInv, TypeOK
<1>2. \A d \in Caller \ {c} : call[d] = None
  BY <1>1, OthersIdle
<1>3. c \in CachedCaller
  BY <1>1 DEF Alone
\* The conditions at each step.
<1>. DEFINE Ok(q, d, h, r, a) ==
       r # None =>
         /\ r.at = "write" /\ r.op \in {"get", "delete"} => h[r.key] = None
         /\ r.at = "queue" => h[r.key] = None
         /\ r.at = "await" => q # <<>> /\ q[Len(q)].by = c
         /\ r.at = "fill" => q = <<>> /\ a = d[r.key]
         /\ r.shared => r.op \in {"get", "update"} /\ h[r.key] # None
         /\ r.shared /\ r.at = "cache" => h[r.key] = r.value
<1>4. Ok(jobs, db, cache, call[c], answer[c])
  BY DEF Alone
<1>5. SUFFICES /\ \A d \in Caller \ {c} : call'[d] = call[d]
               /\ Ok(jobs', db', cache', call'[c], answer'[c])
  BY <1>1, <1>2, <1>3 DEF Alone
<1>6. CASE VisitCache(c)
  <2>1. PICK s \in Step :
          /\ s = IF call[c].op = "get"
                 THEN (IF cache[call[c].key] # None THEN "return" ELSE "write")
                 ELSE IF call[c].op = "delete" THEN "queue" ELSE "write"
          /\ call'[c] # None /\ call'[c].at = s
          /\ call'[c].op = call[c].op /\ call'[c].key = call[c].key
          /\ s # "return" => call'[c].shared = call[c].shared
          /\ \A d \in Caller \ {c} : call'[d] = call[d]
    BY <1>6, VisitCacheMoves DEF Inv, TypeInv
  <2>2. call[c].op = "insert" \/ call[c].op = "update" => call[c].value # None
    BY <1>1, ConstantsAssumption DEF Inv, Phases, Phase
  <2>3. /\ call[c].op = "delete" => cache'[call[c].key] = None
        /\ call[c].op = "get" => cache' = cache
        /\ call[c].op \in {"insert", "update"} /\ cache[call[c].key] # None
              => cache'[call[c].key] # None
    BY <1>1, <1>6, <2>2 DEF VisitCache, Inv, TypeInv, TypeOK, CallState
  <2>4. call[c].shared => call[c].op = "update"
    BY <1>1, <1>6 DEF VisitCache, Inv, Phases, Phase
  <2>5. call'[c].shared =>
          call'[c].op \in {"get", "update"} /\ cache'[call'[c].key] # None
    BY <1>1, <1>4, <2>1, <2>3, <2>4
  <2>. QED  BY <2>1, <2>3, <2>5
<1>7. CASE PushToQueue(c)
  <2>1. Goto(c, "write") /\ "write" \in Step /\ UNCHANGED <<jobs, cache, db, answer>>
        /\ call[c].at = "queue"
    BY <1>7 DEF PushToQueue, Step
  <2>2. /\ call'[c] # None /\ call'[c].at = "write"
        /\ call'[c].shared = call[c].shared
        /\ call'[c].op = call[c].op /\ call'[c].key = call[c].key
        /\ \A d \in Caller \ {c} : call'[d] = call[d]
    BY <1>1, <2>1, Moved DEF Inv, TypeInv
  <2>. QED  BY <1>1, <1>4, <2>1, <2>2
<1>8. CASE CallWriter(c)
  <2>1. PICK j \in Job, s \in {"await", "return"} :
          /\ s = "await" => j.by = c
          /\ Goto(c, s)
          /\ jobs' = Append(jobs, j) /\ jobs' \in Seq(Job) /\ Len(jobs') = Len(jobs) + 1
          /\ jobs'[Len(jobs) + 1] = j
    BY <1>1, <1>8, Posted DEF Inv, TypeInv, CallWriter
  <2>2. /\ call'[c] # None /\ call'[c].at = s
        /\ call'[c].op = call[c].op /\ call'[c].key = call[c].key
        /\ call'[c].shared = call[c].shared
        /\ \A d \in Caller \ {c} : call'[d] = call[d]
    BY <1>1, <2>1, Moved DEF Inv, TypeInv, Step
  <2>3. jobs' # <<>>
    <3>1. Len(jobs) \in Nat
      BY LenProperties DEF Inv, TypeInv, TypeOK
    <3>. QED  BY <2>1, <3>1, EmptySeq
  <2>4. cache' = cache
    BY <1>8 DEF CallWriter
  <2>. QED  BY <1>1, <1>4, <2>1, <2>2, <2>3, <2>4
<1>9. CASE Fill(c)
  <2>1. Goto(c, "return") /\ "return" \in Step
    BY <1>9 DEF Fill, Step
  <2>2. /\ call'[c] # None /\ call'[c].at = "return"
        /\ call'[c].op = call[c].op /\ call'[c].key = call[c].key
        /\ call'[c].shared = call[c].shared
        /\ \A d \in Caller \ {c} : call'[d] = call[d]
    BY <1>1, <2>1, Moved DEF Inv, TypeInv
  <2>3. cache[call[c].key] # None => cache'[call[c].key] # None
    BY <1>9 DEF Fill
  <2>. QED  BY <1>1, <1>4, <2>2, <2>3
<1>10. CASE ChangeAction(c)
  <2>1. call[c].key \in Member /\ cache' = cache
    BY <1>1, <1>10 DEF Inv, Phases, Phase, ChangeAction
  <2>2. /\ \A d \in Caller \ {c} : call'[d] = call[d]
        /\ call'[c] = None \/ Changed(call'[c], call[c])
    BY <1>10, <2>1, ChangeActionMoves DEF Inv, TypeInv
  <2>. QED  BY <1>1, <1>4, <2>1, <2>2 DEF Changed
<1>11. CASE ChangeInPlace(c)
  <2>1. Goto(c, "cache") /\ "cache" \in Step /\ call[c].at = "change"
    BY <1>11 DEF ChangeInPlace, Step
  <2>2. /\ call'[c] # None /\ call'[c].at = "cache"
        /\ call'[c].op = call[c].op /\ call'[c].key = call[c].key
        /\ call'[c].value = call[c].value /\ call'[c].shared = call[c].shared
        /\ \A d \in Caller \ {c} : call'[d] = call[d]
    BY <1>1, <2>1, Moved DEF Inv, TypeInv
  <2>3. call[c].shared => cache'[call[c].key] = call[c].value /\ call[c].value # None
    <3>1. call[c].value \in Value /\ call[c].key \in Key
      BY <1>1, <2>1 DEF Inv, Phases, Phase, CallState
    <3>. QED  BY <1>1, <1>4, <1>11, <3>1, ConstantsAssumption
              DEF ChangeInPlace, Inv, TypeInv, TypeOK
  <2>. QED  BY <1>1, <1>4, <2>2, <2>3
<1>12. CASE Return(c)
  <2>1. CASE Goto(c, "modify")
    <3>1. /\ call'[c] # None /\ call'[c].at = "modify"
          /\ call'[c].op = call[c].op /\ call'[c].key = call[c].key
          /\ call'[c].shared = call[c].shared
          /\ \A d \in Caller \ {c} : call'[d] = call[d]
      BY <1>1, <2>1, Moved DEF Inv, TypeInv, Step
    <3>2. cache' = cache
      BY <1>12 DEF Return
    <3>. QED  BY <1>1, <1>4, <3>1, <3>2
  <2>2. CASE call' = [call EXCEPT ![c] = None]
    BY <2>2 DEF Inv, TypeInv, TypeOK
  <2>. QED  BY <1>12, <2>1, <2>2 DEF Return
<1>. QED  BY <1>6, <1>7, <1>8, <1>9, <1>10, <1>11, <1>12 DEF Progress

LEMMA RunJobAlone ==
    ASSUME OneCached, Inv, Alone, RunJob PROVE Alone'
<1>. SUFFICES ASSUME kind = "SqlDBCache" PROVE Alone'
  BY DEF RunJob, Alone
<1>. DEFINE j == jobs[1]
<1>1. /\ j \in Job /\ Len(jobs) \in Nat \ {0}
      /\ jobs' \in Seq(Job) /\ Len(jobs') = Len(jobs) - 1
      /\ \A n \in 1 .. Len(jobs') : jobs'[n] = jobs[n + 1]
      /\ kind' = kind /\ cache' = cache
  BY JobDone DEF Inv, RunJob
<1>2. CASE j.by = None
  <2>1. UNCHANGED <<call, answer>>
    BY <1>2, JobDone DEF Inv
  <2>2. ASSUME NEW c \in Caller, call[c] # None, call[c].at = "await"
        PROVE  jobs' # <<>> /\ jobs'[Len(jobs')].by = c
    <3>1. jobs[Len(jobs)].by = c /\ c # None
      BY <2>2, ConstantsAssumption DEF Alone
    <3>2. Len(jobs) # 1
      BY <1>2, <3>1
    <3>3. Len(jobs') \in 1 .. Len(jobs') /\ Len(jobs') + 1 = Len(jobs)
      BY <1>1, <3>2
    <3>. QED  BY <1>1, <3>1, <3>3, EmptySeq
  <2>3. \A c \in Caller : call[c] # None => call[c].at # "fill"
    BY <1>1, EmptySeq DEF Alone
  <2>. QED  BY <1>1, <2>1, <2>2, <2>3 DEF Alone
<1>3. CASE j.by # None
  <2>1. PICK c \in Caller : /\ c = j.by /\ call[c] # None /\ call[c].at = "await"
                            /\ call[c].op = j.op /\ call[c].key = j.key
    BY <1>3, JobDone DEF Inv
  <2>2. PICK s \in {"fill", "return"} :
           /\ Goto(c, s)
           /\ s = "fill" => answer' = [answer EXCEPT ![c] = db[j.key]] /\ j.op = "get"
    BY <1>3, <2>1, JobDone DEF Inv
  <2>. s \in Step /\ TypeOK
    BY DEF Step, Inv, TypeInv
  <2>3. /\ call'[c] # None /\ call'[c].at = s /\ call'[c].key = call[c].key
        /\ call'[c].op = call[c].op /\ call'[c].shared = call[c].shared
        /\ \A d \in Caller \ {c} : call'[d] = call[d]
    BY <2>1, <2>2, Moved
  <2>4. \A d \in Caller \ {c} : call'[d] = None
    BY <2>1, <2>3, OthersIdle
  <2>5. c \in CachedCaller
    BY <2>1 DEF Alone
  <2>6. jobs' = <<>>
    <3>1. jobs[Len(jobs)].by = c
      BY <2>1 DEF Alone
    <3>2. Len(jobs) = 1
      <4>1. 1 \in 1 .. Len(jobs) /\ Len(jobs) \in 1 .. Len(jobs)
        BY <1>1
      <4>. QED  BY <1>3, <2>1, <3>1, <4>1 DEF Inv, TypeInv, Awaited
    <3>. QED  BY <1>1, <3>2, EmptySeq
  <2>7. s = "fill" => answer'[c] = db'[call'[c].key]
    <3>1. s = "fill" => answer'[c] = db[j.key]
      BY <2>2 DEF Inv, TypeInv, TypeOK
    <3>2. j.op = "get" => db' = db
      BY JobDone DEF Inv, Exec
    <3>. QED  BY <2>1, <2>2, <2>3, <3>1, <3>2
  <2>8. call'[c].shared => call'[c].op \in {"get", "update"} /\ cache'[call'[c].key] # None
    BY <1>1, <2>1, <2>3 DEF Alone
  <2>. QED  BY <2>2, <2>3, <2>4, <2>5, <2>6, <2>7, <2>8 DEF Alone
<1>. QED  BY <1>2, <1>3

LEMMA AloneHolds == OneCached => (Spec => []Alone)
<1>. SUFFICES ASSUME OneCached PROVE Spec => []Alone
  OBVIOUS
<1>1. ASSUME Inv, Alone, [Next]_vars PROVE Alone'
  <2>1. CASE Stop \/ Run \/ UNCHANGED vars
    BY <1>1, <2>1 DEF Stop, Run, vars, Alone, Inv, Closed
  <2>2. ASSUME NEW c \in Caller, Invocation(c) PROVE Alone'
    BY <1>1, <2>2, InvocationAlone
  <2>3. ASSUME NEW c \in Caller, Progress(c) PROVE Alone'
    BY <1>1, <2>3, ProgressAlone
  <2>. QED  BY <1>1, <2>1, <2>2, <2>3, RunJobAlone DEF Next
<1>. QED  BY <1>1, InitAlone, InvHolds, PTL DEF Spec

(***************************************************************************)
(* The store, as the variables show it.                                    *)
(***************************************************************************)

\* The tables d once all jobs of q are done.
LeftOf(d, q) == RunOf(d, q)[Len(q)]

LEMMA LeftFacts ==
    ASSUME NEW d \in Tables, NEW q \in Seq(Job)
    PROVE  /\ LeftOf(d, q) \in Tables
           /\ \A j \in Job : LeftOf(d, Append(q, j)) = Exec(LeftOf(d, q), j)
           /\ q = <<>> => LeftOf(d, q) = d
           /\ q # <<>> => LeftOf(Exec(d, q[1]), Tail(q)) = LeftOf(d, q)
<1>1. Len(q) \in Nat
  BY LenProperties
<1>2. LeftOf(d, q) \in Tables
  BY <1>1, RunType DEF LeftOf
<1>3. \A j \in Job : LeftOf(d, Append(q, j)) = Exec(LeftOf(d, q), j)
  BY RunAppended, AppendProperties DEF LeftOf
<1>4. q = <<>> => LeftOf(d, q) = d
  BY RunFacts, EmptySeq DEF LeftOf
<1>5. ASSUME q # <<>> PROVE LeftOf(Exec(d, q[1]), Tail(q)) = LeftOf(d, q)
  <2>1. Len(q) \in Nat \ {0} /\ Len(Tail(q)) = Len(q) - 1 /\ Head(q) = q[1]
    BY <1>5, EmptySeq, HeadTailProperties
  <2>2. Len(q) - 1 \in 0 .. Len(q) - 1 /\ (Len(q) - 1) + 1 = Len(q)
    BY <2>1
  <2>3. RunOf(Exec(d, q[1]), Tail(q))[Len(q) - 1] = RunOf(d, q)[(Len(q) - 1) + 1]
    BY <1>5, <2>1, <2>2, RunTail
  <2>. QED  BY <2>1, <2>2, <2>3 DEF LeftOf
<1>. QED  BY <1>2, <1>3, <1>4, <1>5

\* What a reader of key k will find.
Reading(kd, cl, h, t, k) ==
    IF /\ kd = "SqlDBCache"
       /\ \E c \in Caller : /\ cl[c] # None
                            /\ cl[c].op = "delete" /\ cl[c].key = k
                            /\ cl[c].at \in {"queue", "write"}
    THEN None
    ELSE IF h[k] # None THEN h[k] ELSE t[k]

LEMMA StoredIs ==
    /\ \A k \in Key : Stored[k] = Reading(kind, call, cache, LeftOf(db, jobs), k)
    /\ \A k \in Key : Stored'[k] = Reading(kind', call', cache', LeftOf(db', jobs'), k)
BY AfterIs DEF Stored, BeingDeleted, Reading, LeftOf

LEMMA StoredType == TypeInv => Stored \in Tables
<1>. SUFFICES ASSUME TypeInv PROVE Stored \in Tables
  OBVIOUS
<1>1. After[Len(jobs)] \in Tables
  BY AfterIs, RunType, LenProperties DEF TypeInv, TypeOK, Tables
<1>. QED  BY <1>1 DEF Stored, TypeInv, TypeOK, Tables, Object

\* What the select of caller c finds, or has found (a).
Found(d, q, a, c) ==
    LET mine == {n \in 1 .. Len(q) : q[n].by = c /\ q[n].op = "get"} IN
    IF mine = {} THEN a
    ELSE LET n == CHOOSE n \in mine : TRUE IN RunOf(d, q)[n - 1][q[n].key]

LEMMA AnswersAre ==
    /\ \A c \in Caller : Answers[c] = Found(db, jobs, answer[c], c)
    /\ \A c \in Caller : Answers'[c] = Found(db', jobs', answer'[c], c)
BY AfterIs DEF Answers, Answer, Found

OneJob(q, c) == \A n, m \in 1 .. Len(q) : q[n].by = c /\ q[n].by = q[m].by => n = m

LEMMA FoundNone ==
    ASSUME NEW d, NEW q, NEW a, NEW c,
           \A n \in 1 .. Len(q) : q[n].by = c => q[n].op # "get"
    PROVE  Found(d, q, a, c) = a
BY DEF Found

LEMMA FoundAt ==
    ASSUME NEW d, NEW q, NEW a, NEW c, OneJob(q, c),
           NEW n \in 1 .. Len(q), q[n].by = c, q[n].op = "get"
    PROVE  Found(d, q, a, c) = RunOf(d, q)[n - 1][q[n].key]
<1>. DEFINE mine == {k \in 1 .. Len(q) : q[k].by = c /\ q[k].op = "get"}
<1>1. n \in mine /\ \A k \in mine : k = n
  BY DEF OneJob
<1>2. (CHOOSE k \in mine : TRUE) = n
  <2>. HIDE DEF mine
  <2>. QED  BY <1>1
<1>. QED  BY <1>1, <1>2 DEF Found

LEMMA FoundAppended ==
    ASSUME NEW d, NEW q \in Seq(Job), NEW j \in Job, NEW a, NEW c \in Caller,
           OneJob(Append(q, j), c)
    PROVE  Found(d, Append(q, j), a, c) =
              IF j.by = c /\ j.op = "get" THEN LeftOf(d, q)[j.key] ELSE Found(d, q, a, c)
<1>. DEFINE r == Append(q, j)
<1>1. /\ Len(q) \in Nat /\ Len(r) = Len(q) + 1
      /\ \A n \in 1 .. Len(q) : n \in 1 .. Len(r) /\ r[n] = q[n]
      /\ Len(q) + 1 \in 1 .. Len(r) /\ r[Len(q) + 1] = j
      /\ \A n \in 1 .. Len(r) : n \in 1 .. Len(q) \/ n = Len(q) + 1
      /\ \A n \in 0 .. Len(q) : RunOf(d, r)[n] = RunOf(d, q)[n]
  BY LenProperties, AppendProperties, RunAppended
<1>2. OneJob(r, c)
  OBVIOUS
<1>. HIDE DEF r
<1>3. CASE j.by = c /\ j.op = "get"
  <2>1. Found(d, r, a, c) = RunOf(d, r)[(Len(q) + 1) - 1][r[Len(q) + 1].key]
    BY <1>1, <1>2, <1>3, FoundAt
  <2>2. (Len(q) + 1) - 1 = Len(q) /\ Len(q) \in 0 .. Len(q)
    BY <1>1
  <2>. QED  BY <1>1, <1>3, <2>1, <2>2 DEF LeftOf, r
<1>4. CASE ~(j.by = c /\ j.op = "get")
  <2>1. CASE \E n \in 1 .. Len(q) : q[n].by = c /\ q[n].op = "get"
    <3>1. PICK n \in 1 .. Len(q) : q[n].by = c /\ q[n].op = "get"
      BY <2>1
    <3>2. OneJob(q, c)
      BY <1>1, <1>2 DEF OneJob
    <3>3. Found(d, q, a, c) = RunOf(d, q)[n - 1][q[n].key]
      BY <3>1, <3>2, FoundAt
    <3>4. n \in 1 .. Len(r) /\ r[n] = q[n]
      BY <1>1
    <3>5. Found(d, r, a, c) = RunOf(d, r)[n - 1][r[n].key]
      BY <1>2, <3>1, <3>4, FoundAt
    <3>6. n - 1 \in 0 .. Len(q)
      BY <1>1
    <3>. QED  BY <1>1, <1>4, <3>3, <3>4, <3>5, <3>6 DEF r
  <2>2. CASE \A n \in 1 .. Len(q) : ~(q[n].by = c /\ q[n].op = "get")
    <3>1. Found(d, q, a, c) = a
      BY <2>2, FoundNone
    <3>2. \A n \in 1 .. Len(r) : r[n].by = c => r[n].op # "get"
      BY <1>1, <1>4, <2>2
    <3>3. Found(d, r, a, c) = a
      BY <3>2, FoundNone
    <3>. QED  BY <1>4, <3>1, <3>3 DEF r
  <2>. QED  BY <2>1, <2>2
<1>. QED  BY <1>3, <1>4

LEMMA FoundTail ==
    ASSUME NEW d, NEW q \in Seq(Job), q # <<>>, NEW a, NEW c \in Caller, OneJob(q, c)
    PROVE  Found(Exec(d, q[1]), Tail(q),
                 IF q[1].by = c /\ q[1].op = "get" THEN d[q[1].key] ELSE a, c)
             = Found(d, q, a, c)
<1>. DEFINE r == Tail(q)
            e == Exec(d, q[1])
            b == IF q[1].by = c /\ q[1].op = "get" THEN d[q[1].key] ELSE a
<1>1. /\ Len(q) \in Nat \ {0} /\ Len(r) = Len(q) - 1 /\ Head(q) = q[1]
      /\ \A n \in 1 .. Len(r) : r[n] = q[n + 1]
  BY EmptySeq, HeadTailProperties
<1>2. \A n \in 0 .. Len(q) - 1 : RunOf(e, r)[n] = RunOf(d, q)[n + 1]
  BY <1>1, RunTail
<1>3. RunOf(d, q)[0] = d
  BY RunFacts
<1>4. /\ 1 \in 1 .. Len(q)
      /\ \A n \in 1 .. Len(r) : n + 1 \in 1 .. Len(q) /\ n + 1 # 1
      /\ \A n \in 1 .. Len(q) : n # 1 => n - 1 \in 1 .. Len(r) /\ (n - 1) + 1 = n
  BY <1>1
<1>. HIDE DEF r, e
<1>5. CASE q[1].by = c /\ q[1].op = "get"
  <2>1. Found(d, q, a, c) = RunOf(d, q)[1 - 1][q[1].key]
    BY <1>4, <1>5, FoundAt
  <2>2. \A n \in 1 .. Len(r) : r[n].by # c
    BY <1>1, <1>4, <1>5 DEF OneJob
  <2>3. Found(e, r, b, c) = b
    BY <2>2, FoundNone
  <2>. QED  BY <1>3, <1>5, <2>1, <2>3 DEF r, e
<1>6. CASE ~(q[1].by = c /\ q[1].op = "get")
  <2>1. CASE \E n \in 1 .. Len(q) : q[n].by = c /\ q[n].op = "get"
    <3>1. PICK n \in 1 .. Len(q) : q[n].by = c /\ q[n].op = "get"
      BY <2>1
    <3>2. Found(d, q, a, c) = RunOf(d, q)[n - 1][q[n].key]
      BY <3>1, FoundAt
    <3>3. n # 1
      BY <1>6, <3>1
    <3>4. n - 1 \in 1 .. Len(r) /\ (n - 1) + 1 = n
      BY <1>4, <3>3
    <3>5. r[n - 1] = q[n]
      BY <1>1, <3>4
    <3>6. OneJob(r, c)
      <4>1. ASSUME NEW i \in 1 .. Len(r), NEW m \in 1 .. Len(r), r[i].by = c, r[i].by = r[m].by
            PROVE  i = m
        <5>1. r[i] = q[i + 1] /\ r[m] = q[m + 1]
          BY <1>1
        <5>2. i + 1 = m + 1
          BY <1>4, <4>1, <5>1 DEF OneJob
        <5>. QED  BY <1>1, <5>2
      <4>. QED  BY <4>1 DEF OneJob
    <3>7. Found(e, r, b, c) = RunOf(e, r)[(n - 1) - 1][r[n - 1].key]
      <4>. HIDE DEF b
      <4>. QED  BY <3>1, <3>4, <3>5, <3>6, FoundAt
    <3>8. (n - 1) - 1 \in 0 .. Len(q) - 1 /\ ((n - 1) - 1) + 1 = n - 1
      BY <1>1, <3>4
    <3>9. RunOf(e, r)[(n - 1) - 1] = RunOf(d, q)[n - 1]
      BY <1>2, <3>8
    <3>. QED  BY <3>2, <3>5, <3>7, <3>9 DEF r, e
  <2>2. CASE \A n \in 1 .. Len(q) : ~(q[n].by = c /\ q[n].op = "get")
    <3>1. Found(d, q, a, c) = a
      BY <2>2, FoundNone
    <3>2. \A n \in 1 .. Len(r) : r[n].by = c => r[n].op # "get"
      BY <1>1, <1>4, <2>2
    <3>3. Found(e, r, b, c) = b
      BY <3>2, FoundNone
    <3>. QED  BY <1>6, <3>1, <3>3 DEF r, e
  <2>. QED  BY <2>1, <2>2
<1>. QED  BY <1>5, <1>6

(***************************************************************************)
(* Steps of the store.                                                     *)
(***************************************************************************)

\* What caller c asks for, and whether it was done, stay as they are.
Untouched(c) == Wanted'[c] = Wanted[c] /\ Fulfilled'[c] = Fulfilled[c] /\ Answers'[c] = Answers[c]

LEMMA Domains ==
    /\ Stored = [k \in Key |-> Stored[k]] /\ Stored' = [k \in Key |-> Stored'[k]]
    /\ Wanted = [c \in Caller |-> Wanted[c]] /\ Wanted' = [c \in Caller |-> Wanted'[c]]
    /\ Fulfilled = [c \in Caller |-> Fulfilled[c]]
    /\ Fulfilled' = [c \in Caller |-> Fulfilled'[c]]
    /\ Answers = [c \in Caller |-> Answers[c]] /\ Answers' = [c \in Caller |-> Answers'[c]]
BY DEF Stored, Wanted, Fulfilled, Answers

LEMMA IsStutter ==
    ASSUME UNCHANGED open, \A k \in Key : Stored'[k] = Stored[k],
           \A c \in Caller : Untouched(c)
    PROVE  UNCHANGED Store!vars
<1>1. Stored' = Stored
  BY Domains
<1>2. Wanted' = Wanted
  BY Domains DEF Untouched
<1>3. Fulfilled' = Fulfilled
  BY Domains DEF Untouched
<1>4. Answers' = Answers
  BY Domains DEF Untouched
<1>. QED  BY <1>1, <1>2, <1>3, <1>4 DEF Store!vars

LEMMA IsBegin ==
    ASSUME NEW c \in Caller, open, UNCHANGED open, \A k \in Key : Stored'[k] = Stored[k],
           \A d \in Caller \ {c} : Untouched(d),
           Wanted[c] = None, Wanted'[c] \in Store!Call,
           Fulfilled'[c] = Fulfilled[c], Answers'[c] = Answers[c]
    PROVE  Store!Begin(c)
<1>1. Stored' = Stored
  BY Domains
<1>2. Wanted' = [Wanted EXCEPT ![c] = Wanted'[c]]
  BY Domains DEF Untouched
<1>3. Fulfilled' = Fulfilled
  BY Domains DEF Untouched
<1>4. Answers' = Answers
  BY Domains DEF Untouched
<1>. QED  BY <1>1, <1>2, <1>3, <1>4 DEF Store!Begin

LEMMA IsEnd ==
    ASSUME NEW c \in Caller, UNCHANGED open, \A k \in Key : Stored'[k] = Stored[k],
           \A d \in Caller \ {c} : Untouched(d),
           Fulfilled[c], Wanted'[c] = None, ~Fulfilled'[c], Answers'[c] = None
    PROVE  Store!End(c)
<1>1. Stored' = Stored
  BY Domains
<1>2. Wanted' = [Wanted EXCEPT ![c] = None]
  BY Domains DEF Untouched
<1>3. Fulfilled'[c] = FALSE
  BY DEF Fulfilled
<1>4. Fulfilled' = [Fulfilled EXCEPT ![c] = FALSE]
  BY <1>3, Domains DEF Untouched
<1>5. Answers' = [Answers EXCEPT ![c] = None]
  BY Domains DEF Untouched
<1>. QED  BY <1>1, <1>2, <1>4, <1>5 DEF Store!End

LEMMA IsDo ==
    ASSUME NEW c \in Caller, UNCHANGED open, Wanted[c] # None, Wanted[c].key \in Key,
           \A d \in Caller \ {c} : Untouched(d),
           Wanted'[c] = Wanted[c], ~Fulfilled[c], Fulfilled'[c],
           Stored'[Wanted[c].key] \in Store!Effect(Wanted[c]),
           \A k \in Key : k # Wanted[c].key => Stored'[k] = Stored[k],
           Answers'[c] = IF Wanted[c].op = "get" THEN Stored[Wanted[c].key] ELSE Answers[c]
    PROVE  Store!Do(c)
<1>1. Stored' = [Stored EXCEPT ![Wanted[c].key] = Stored'[Wanted[c].key]]
  BY Domains
<1>2. Wanted' = Wanted
  BY Domains DEF Untouched
<1>3. Fulfilled'[c] = TRUE
  BY DEF Fulfilled
<1>4. Fulfilled' = [Fulfilled EXCEPT ![c] = TRUE]
  BY <1>3, Domains DEF Untouched
<1>5. Answers' = IF Wanted[c].op = "get"
                 THEN [Answers EXCEPT ![c] = Stored[Wanted[c].key]] ELSE Answers
  BY Domains DEF Untouched
<1>. QED  BY <1>1, <1>2, <1>4, <1>5 DEF Store!Do

\* What the calls mean to the store.
LEMMA Meaning ==
    ASSUME TypeInv, TypeInv', CacheOnly, CacheOnly', NEW c \in Caller
    PROVE  /\ call[c] # None /\ call[c].at # "modify" =>
                /\ Wanted[c] # None /\ Wanted[c].op = call[c].op
                /\ Wanted[c].key = call[c].key /\ Wanted[c].value = call[c].value
           /\ call[c] = None \/ call[c].at = "modify" => Wanted[c] = None
           /\ Fulfilled[c] <=>
                /\ call[c] # None /\ call[c].at # "modify" /\ call[c].at # "change"
                /\ call[c].at = "cache" => call[c].shared
                /\ call[c].at = "queue" => kind = "SqlDBCache"
                /\ call[c].at = "write" => /\ kind = "SqlDBCache"
                                           /\ call[c].op # "get"
                                           /\ call[c].op # "delete" => cache[call[c].key] # None
           /\ Fulfilled'[c] <=>
                /\ call'[c] # None /\ call'[c].at # "modify" /\ call'[c].at # "change"
                /\ call'[c].at = "cache" => call'[c].shared
                /\ call'[c].at = "queue" => kind' = "SqlDBCache"
                /\ call'[c].at = "write" => /\ kind' = "SqlDBCache"
                                            /\ call'[c].op # "get"
                                            /\ call'[c].op # "delete" => cache'[call'[c].key] # None
           /\ Fulfilled[c] \in BOOLEAN /\ Fulfilled'[c] \in BOOLEAN
<1>1. call[c] \in CallState \cup {None} /\ call'[c] \in CallState \cup {None}
  BY DEF TypeInv, TypeOK
<1>2. /\ call[c] # None => call[c].key \in Key /\ call[c].at \in Step /\ call[c].op \in Op
      /\ call[c] # None => call[c].shared \in BOOLEAN
      /\ call'[c] # None => call'[c].shared \in BOOLEAN
      /\ call'[c] # None => call'[c].key \in Key /\ call'[c].at \in Step /\ call'[c].op \in Op
  BY <1>1 DEF CallState
<1>3. call[c] # None /\ call[c].at # "modify" =>
        /\ Wanted[c] # None /\ Wanted[c].op = call[c].op
        /\ Wanted[c].key = call[c].key /\ Wanted[c].value = call[c].value
  <2>. SUFFICES ASSUME call[c] # None, call[c].at # "modify"
                PROVE  /\ Wanted[c] # None /\ Wanted[c].op = call[c].op
                       /\ Wanted[c].key = call[c].key /\ Wanted[c].value = call[c].value
    OBVIOUS
  <2>1. Wanted[c] = [op |-> call[c].op, key |-> call[c].key, value |-> call[c].value]
    BY DEF Wanted, InProgress
  <2>2. Wanted[c] \in Want
    BY <1>1, <2>1 DEF CallState, Want
  <2>. QED  BY <2>1, <2>2, ConstantsAssumption
<1>4. call[c] = None \/ call[c].at = "modify" => Wanted[c] = None
  BY DEF Wanted, InProgress
<1>5. \A k \in Key : (cache[k] # None => kind = "SqlDBCache") /\ (cache'[k] # None => kind' = "SqlDBCache")
  BY DEF CacheOnly, Cached
<1>6. Fulfilled[c] <=>
                /\ call[c] # None /\ call[c].at # "modify" /\ call[c].at # "change"
                /\ call[c].at = "cache" => call[c].shared
                /\ call[c].at = "queue" => kind = "SqlDBCache"
                /\ call[c].at = "write" => /\ kind = "SqlDBCache"
                                           /\ call[c].op # "get"
                                           /\ call[c].op # "delete" => cache[call[c].key] # None
  BY <1>2, <1>5 DEF Fulfilled, InProgress, Effective, Step, Op
<1>7. Fulfilled'[c] <=>
                /\ call'[c] # None /\ call'[c].at # "modify" /\ call'[c].at # "change"
                /\ call'[c].at = "cache" => call'[c].shared
                /\ call'[c].at = "queue" => kind' = "SqlDBCache"
                /\ call'[c].at = "write" => /\ kind' = "SqlDBCache"
                                            /\ call'[c].op # "get"
                                            /\ call'[c].op # "delete" => cache'[call'[c].key] # None
  BY <1>2, <1>5 DEF Fulfilled, InProgress, Effective, Step, Op
<1>8. Fulfilled[c] \in BOOLEAN /\ Fulfilled'[c] \in BOOLEAN
  BY <1>2 DEF Fulfilled, InProgress, Effective, Step, Op
<1>. QED  BY <1>3, <1>4, <1>6, <1>7, <1>8

LEMMA OthersUntouched ==
    ASSUME OneCached, Inv, Inv', Alone, NEW c \in Caller, UNCHANGED kind,
           UNCHANGED cache \/ call[c] # None,
           \A d \in Caller \ {c} : call'[d] = call[d] /\ Answers'[d] = Answers[d]
    PROVE  \A d \in Caller \ {c} : Untouched(d)
<1>. SUFFICES ASSUME NEW d \in Caller \ {c} PROVE Untouched(d)
  OBVIOUS
<1>1. Wanted'[d] = Wanted[d]
  BY DEF Wanted, InProgress
<1>2. Fulfilled'[d] <=> Fulfilled[d]
  <2>1. CASE UNCHANGED cache
    BY <2>1, Meaning DEF Inv
  <2>2. CASE call[c] # None /\ kind = "SqlDBCache"
    <3>1. call[d] = None
      BY <2>2, OthersIdle
    <3>. QED  BY <3>1, Meaning DEF Inv
  <2>3. CASE kind # "SqlDBCache"
    BY <2>3, Meaning DEF Inv
  <2>. QED  BY <2>1, <2>2, <2>3
<1>3. Fulfilled'[d] \in BOOLEAN /\ Fulfilled[d] \in BOOLEAN
  BY Meaning DEF Inv
<1>. QED  BY <1>1, <1>2, <1>3 DEF Untouched

\* A caller that does not wait for a job has the answer it has.
LEMMA AnswersThere ==
    ASSUME Inv, NEW c \in Caller, call[c] = None \/ call[c].at # "await"
    PROVE  Answers[c] = answer[c]
<1>1. \A n \in 1 .. Len(jobs) : jobs[n].by # c
  BY ConstantsAssumption DEF Inv, TypeInv, Awaited
<1>. QED  BY <1>1, FoundNone, AnswersAre

\* While no job comes or goes the answers are what the callers have.
LEMMA AnswersStay ==
    ASSUME UNCHANGED <<jobs, db>>, NEW c \in Caller, answer'[c] = answer[c]
    PROVE  Answers'[c] = Answers[c]
BY AnswersAre

LEMMA AnswersNew ==
    ASSUME Inv, UNCHANGED <<jobs, db>>, NEW c \in Caller, call[c] = None \/ call[c].at # "await"
    PROVE  Answers'[c] = answer'[c]
<1>1. \A n \in 1 .. Len(jobs) : jobs[n].by # c
  BY ConstantsAssumption DEF Inv, TypeInv, Awaited
<1>. QED  BY <1>1, FoundNone, AnswersAre

LEMMA InvocationBegins ==
    ASSUME OneCached, Inv, Inv', Alone, NEW c \in Caller, Invocation(c)
    PROVE  Store!Begin(c)
<1>1. PICK r \in CallState :
              /\ Initial(r) /\ r # None
              /\ Invoke(c, r) /\ call[c] = None /\ call' \in [Caller -> CallState \cup {None}]
              /\ call'[c] = r /\ \A d \in Caller \ {c} : call'[d] = call[d]
  BY Invoked DEF Inv, TypeInv
<1>2. UNCHANGED <<kind, open, cache, changes, jobs, db, answer>> /\ open
  BY <1>1 DEF Invoke
<1>3. \A d \in Caller : Answers'[d] = Answers[d]
  BY <1>2, AnswersStay
<1>4. \A d \in Caller \ {c} : Untouched(d)
  BY <1>1, <1>2, <1>3, OthersUntouched
<1>5. Wanted[c] = None /\ ~Fulfilled[c] /\ ~Fulfilled'[c]
  BY <1>1, Meaning DEF Inv, Initial
<1>6. Fulfilled'[c] = Fulfilled[c]
  BY <1>5, Meaning DEF Inv
<1>7. Wanted'[c] = [op |-> r.op, key |-> r.key, value |-> r.value]
  BY <1>1 DEF Wanted, InProgress, Initial
<1>8. Wanted'[c] \in Store!Call
  BY <1>7 DEF Store!Call, Store!Object, CallState, Op, Object
<1>9. \A k \in Key : Stored'[k] = Stored[k]
  <2>1. \A k \in Key : Reading(kind', call', cache', LeftOf(db', jobs'), k)
                         = Reading(kind, call, cache, LeftOf(db, jobs), k)
    BY <1>1, <1>2 DEF Reading, Initial
  <2>. QED  BY <2>1, StoredIs
<1>. QED  BY <1>2, <1>3, <1>4, <1>5, <1>6, <1>8, <1>9, IsBegin

LEMMA ChangeActionBegins ==
    ASSUME OneCached, Inv, Inv', Alone, NEW c \in Caller, ChangeAction(c)
    PROVE  Store!Begin(c) \/ UNCHANGED Store!vars
<1>1. /\ call[c] # None /\ call[c] \in CallState /\ call[c].at = "modify"
      /\ UNCHANGED <<kind, open, cache, changes, jobs, db, answer>>
  BY DEF ChangeAction, Inv, TypeInv, TypeOK
<1>2. open /\ call[c].key \in Member /\ call[c].op = "get"
  BY <1>1 DEF Inv, Closed, Phases, Phase
<1>3. \A d \in Caller \ {c} : call'[d] = call[d]
  BY <1>2, ChangeActionMoves DEF Inv, TypeInv
<1>4. \A d \in Caller : Answers'[d] = Answers[d]
  BY <1>1, AnswersStay
<1>5. \A d \in Caller \ {c} : Untouched(d)
  BY <1>1, <1>3, <1>4, OthersUntouched
<1>6. Wanted[c] = None /\ ~Fulfilled[c]
  BY <1>1, Meaning DEF Inv
<1>7. call'[c] = None \/ Changed(call'[c], call[c])
  BY <1>2, ChangeActionMoves DEF Inv, TypeInv
<1>8. ~Fulfilled'[c]
  BY <1>7, Meaning DEF Inv, Changed
<1>9. Fulfilled'[c] = Fulfilled[c]
  BY <1>6, <1>8, Meaning DEF Inv
<1>10. \A k \in Key : Stored'[k] = Stored[k]
  <2>1. \A k \in Key : Reading(kind', call', cache', LeftOf(db', jobs'), k)
                         = Reading(kind, call, cache, LeftOf(db, jobs), k)
    BY <1>1, <1>2, <1>3, <1>7 DEF Reading, Changed
  <2>. QED  BY <2>1, StoredIs
<1>11. CASE call'[c] = None
  <2>1. Wanted'[c] = None
    BY <1>11 DEF Wanted, InProgress
  <2>2. \A d \in Caller : Untouched(d)
    BY <1>4, <1>5, <1>6, <1>9, <2>1 DEF Untouched
  <2>. QED  BY <1>1, <1>10, <2>2, IsStutter
<1>12. CASE call'[c] # None
  <2>1. Changed(call'[c], call[c])
    BY <1>7, <1>12
  <2>2. Wanted'[c] = [op |-> call'[c].op, key |-> call'[c].key, value |-> call'[c].value]
    BY <1>12, <2>1 DEF Wanted, InProgress, Changed
  <2>3. Wanted'[c] \in Store!Call
    BY <2>1, <2>2 DEF Store!Call, Store!Object, CallState, Op, Object, Changed
  <2>. QED  BY <1>1, <1>2, <1>4, <1>5, <1>6, <1>9, <1>10, <2>3, IsBegin
<1>. QED  BY <1>11, <1>12

LEMMA ChangeInPlaceDoes ==
    ASSUME OneCached, Inv, Inv', Alone, NEW c \in Caller, ChangeInPlace(c)
    PROVE  Store!Do(c) \/ UNCHANGED Store!vars
<1>. DEFINE k == call[c].key
<1>1. /\ call[c] # None /\ call[c] \in CallState /\ call[c].at = "change"
      /\ k \in Key /\ Goto(c, "cache") /\ "cache" \in Step
      /\ UNCHANGED <<kind, open, jobs, db, answer>>
  BY DEF ChangeInPlace, Inv, TypeInv, TypeOK, CallState, Step
<1>2. call[c].op = "update" /\ call[c].value # None
  BY <1>1, ConstantsAssumption DEF Inv, Phases, Phase
<1>3. /\ call'[c] # None /\ call'[c].at = "cache"
      /\ call'[c].op = call[c].op /\ call'[c].key = k
      /\ call'[c].value = call[c].value /\ call'[c].shared = call[c].shared
      /\ \A d \in Caller \ {c} : call'[d] = call[d]
  BY <1>1, Moved DEF Inv, TypeInv
<1>4. \A d \in Caller : Answers'[d] = Answers[d]
  BY <1>1, AnswersStay
<1>5. \A d \in Caller \ {c} : Untouched(d)
  BY <1>1, <1>3, <1>4, OthersUntouched
<1>6. Wanted'[c] = Wanted[c]
  BY <1>1, <1>3 DEF Wanted, InProgress
<1>7. /\ Wanted[c] # None /\ Wanted[c].op = "update"
      /\ Wanted[c].key = k /\ Wanted[c].value = call[c].value /\ ~Fulfilled[c]
  BY <1>1, <1>2, Meaning DEF Inv
<1>8. Fulfilled'[c] <=> call[c].shared
  BY <1>3, Meaning DEF Inv
<1>. DEFINE t == LeftOf(db, jobs)
<1>9. LeftOf(db', jobs') = t
  BY <1>1
<1>10. /\ \A i \in Key : Stored[i] = Reading(kind, call, cache, t, i)
       /\ \A i \in Key : Stored'[i] = Reading(kind', call', cache', t, i)
  BY <1>9, StoredIs
<1>. HIDE DEF t
<1>11. CASE call[c].shared
  <2>1. kind = "SqlDBCache" /\ cache[k] # None
    BY <1>1, <1>11 DEF Inv, Sharing, Alone
  <2>2. /\ cache'[k] = call[c].value
        /\ \A i \in Key : i # k => cache'[i] = cache[i]
    BY <1>1, <1>11, <2>1 DEF ChangeInPlace, Inv, TypeInv, TypeOK
  <2>3. \A d \in Caller \ {c} : call[d] = None /\ call'[d] = None
    BY <1>1, <1>3, <2>1, OthersIdle
  <2>4. \A i \in Key : i # k => Stored'[i] = Stored[i]
    BY <1>1, <1>2, <1>3, <1>10, <2>2, <2>3 DEF Reading
  <2>5. Stored[k] # None /\ Stored'[k] = call[c].value
    BY <1>1, <1>2, <1>3, <1>10, <2>1, <2>2, <2>3 DEF Reading
  <2>6. Stored'[k] \in Store!Effect(Wanted[c])
    BY <1>7, <2>5 DEF Store!Effect
  <2>. QED  BY <1>1, <1>4, <1>5, <1>6, <1>7, <1>8, <1>11, <2>4, <2>6, IsDo
<1>12. CASE ~call[c].shared
  <2>1. cache' = cache
    BY <1>12 DEF ChangeInPlace
  <2>2. \A i \in Key : Stored'[i] = Stored[i]
    BY <1>1, <1>2, <1>3, <1>10, <2>1 DEF Reading
  <2>3. Fulfilled'[c] = Fulfilled[c]
    BY <1>7, <1>8, <1>12, Meaning DEF Inv
  <2>4. \A d \in Caller : Untouched(d)
    BY <1>4, <1>5, <1>6, <2>3 DEF Untouched
  <2>. QED  BY <1>1, <2>2, <2>4, IsStutter
<1>. QED  BY <1>11, <1>12

LEMMA ReturnEnds ==
    ASSUME OneCached, Inv, Inv', Alone, NEW c \in Caller, Return(c)
    PROVE  Store!End(c)
<1>1. /\ call[c] # None /\ call[c].at = "return" /\ "modify" \in Step
      /\ UNCHANGED <<kind, open, cache, jobs, db>>
  BY DEF Return, Step
<1>2. answer'[c] = None /\ \A d \in Caller \ {c} : answer'[d] = answer[d]
  BY DEF Return, Inv, TypeInv, TypeOK
<1>3. /\ \A d \in Caller \ {c} : call'[d] = call[d]
      /\ call'[c] # None => call'[c].at = "modify"
  <2>1. CASE Goto(c, "modify")
    BY <1>1, <2>1, Moved DEF Inv, TypeInv
  <2>2. CASE call' = [call EXCEPT ![c] = None]
    BY <2>2 DEF Inv, TypeInv, TypeOK
  <2>. QED  BY <2>1, <2>2 DEF Return
<1>4. \A d \in Caller \ {c} : Answers'[d] = Answers[d]
  BY <1>1, <1>2, AnswersStay
<1>5. Answers'[c] = None
  BY <1>1, <1>2, AnswersNew
<1>6. \A d \in Caller \ {c} : Untouched(d)
  BY <1>1, <1>3, <1>4, OthersUntouched
<1>7. Fulfilled[c] /\ ~Fulfilled'[c]
  BY <1>1, <1>3, Meaning DEF Inv
<1>8. Wanted'[c] = None
  BY <1>3 DEF Wanted, InProgress
<1>9. \A k \in Key : Stored'[k] = Stored[k]
  <2>1. \A k \in Key : Reading(kind', call', cache', LeftOf(db', jobs'), k)
                         = Reading(kind, call, cache, LeftOf(db, jobs), k)
    BY <1>1, <1>3 DEF Reading
  <2>. QED  BY <2>1, StoredIs
<1>. QED  BY <1>1, <1>5, <1>6, <1>7, <1>8, <1>9, IsEnd

LEMMA PushToQueueStutters ==
    ASSUME OneCached, Inv, Inv', Alone, NEW c \in Caller, PushToQueue(c)
    PROVE  UNCHANGED Store!vars
<1>1. /\ call[c] # None /\ call[c].at = "queue" /\ Goto(c, "write") /\ "write" \in Step
      /\ UNCHANGED <<kind, open, cache, jobs, db, answer>>
  BY DEF PushToQueue, Step
<1>2. /\ call'[c] # None /\ call'[c].at = "write"
      /\ call'[c].op = call[c].op /\ call'[c].key = call[c].key
      /\ call'[c].value = call[c].value
      /\ \A d \in Caller \ {c} : call'[d] = call[d]
  BY <1>1, Moved DEF Inv, TypeInv
<1>3. call[c].op = "delete"
  BY <1>1 DEF Inv, Phases, Phase
<1>4. \A d \in Caller : Answers'[d] = Answers[d]
  BY <1>1, AnswersStay
<1>5. \A d \in Caller \ {c} : Untouched(d)
  BY <1>1, <1>2, <1>4, OthersUntouched
<1>6. Wanted'[c] = Wanted[c]
  BY <1>1, <1>2 DEF Wanted, InProgress
<1>7. Fulfilled'[c] = Fulfilled[c]
  BY <1>1, <1>2, <1>3, Meaning DEF Inv
<1>8. \A d \in Caller : Untouched(d)
  BY <1>4, <1>5, <1>6, <1>7 DEF Untouched
<1>9. \A k \in Key : Stored'[k] = Stored[k]
  <2>1. \A k \in Key : Reading(kind', call', cache', LeftOf(db', jobs'), k)
                         = Reading(kind, call, cache, LeftOf(db, jobs), k)
    BY <1>1, <1>2 DEF Reading
  <2>. QED  BY <2>1, StoredIs
<1>. QED  BY <1>1, <1>8, <1>9, IsStutter

LEMMA FillStutters ==
    ASSUME OneCached, Inv, Inv', Alone, NEW c \in Caller, Fill(c)
    PROVE  UNCHANGED Store!vars
<1>1. /\ call[c] # None /\ call[c].at = "fill" /\ Goto(c, "return") /\ "return" \in Step
      /\ UNCHANGED <<kind, open, jobs, db, answer>>
  BY DEF Fill, Step
<1>2. /\ call'[c] # None /\ call'[c].at = "return"
      /\ call'[c].op = call[c].op /\ call'[c].key = call[c].key
      /\ call'[c].value = call[c].value
      /\ \A d \in Caller \ {c} : call'[d] = call[d]
  BY <1>1, Moved DEF Inv, TypeInv
<1>4. \A d \in Caller : Answers'[d] = Answers[d]
  BY <1>1, AnswersStay
<1>5. \A d \in Caller \ {c} : Untouched(d)
  BY <1>1, <1>2, <1>4, OthersUntouched
<1>6. Wanted'[c] = Wanted[c]
  BY <1>1, <1>2 DEF Wanted, InProgress
<1>7. Fulfilled'[c] = Fulfilled[c]
  BY <1>1, <1>2, Meaning DEF Inv
<1>8. \A d \in Caller : Untouched(d)
  BY <1>4, <1>5, <1>6, <1>7 DEF Untouched
<1>9. \A k \in Key : Stored'[k] = Stored[k]
  <2>1. CASE UNCHANGED cache
    <3>1. \A k \in Key : Reading(kind', call', cache', LeftOf(db', jobs'), k)
                           = Reading(kind, call, cache, LeftOf(db, jobs), k)
      BY <1>1, <1>2, <2>1 DEF Reading
    <3>. QED  BY <3>1, StoredIs
  <2>2. CASE cache' # cache
    <3>1. /\ kind = "SqlDBCache" /\ cache[call[c].key] = None
          /\ cache' = [cache EXCEPT ![call[c].key] = answer[c]] /\ answer[c] # None
      BY <2>2 DEF Fill, Cached
    <3>2. jobs = <<>> /\ answer[c] = db[call[c].key]
      BY <1>1, <3>1 DEF Alone
    <3>3. LeftOf(db, jobs) = db
      BY <3>2, LeftFacts DEF Inv, TypeInv, TypeOK, Tables
    <3>4. \A k \in Key : IF k = call[c].key THEN cache'[k] = answer[c] ELSE cache'[k] = cache[k]
      BY <3>1 DEF Inv, TypeInv, TypeOK
    <3>5. \A k \in Key : Reading(kind', call', cache', db, k)
                           = Reading(kind, call, cache, db, k)
      BY <1>1, <1>2, <3>1, <3>2, <3>4 DEF Reading
    <3>. QED  BY <1>1, <3>3, <3>5, StoredIs
  <2>. QED  BY <2>1, <2>2
<1>. QED  BY <1>1, <1>8, <1>9, IsStutter

LEMMA RunJobStutters ==
    ASSUME OneCached, Inv, Inv', Alone, RunJob
    PROVE  UNCHANGED Store!vars
<1>. DEFINE j == jobs[1]
<1>1. /\ j \in Job /\ jobs # <<>> /\ jobs \in Seq(Job) /\ db \in Tables
      /\ jobs' = Tail(jobs) /\ db' = Exec(db, j)
      /\ UNCHANGED <<kind, open, cache>>
  BY JobDone DEF Inv, RunJob, TypeInv, TypeOK, Tables
<1>2. LeftOf(db', jobs') = LeftOf(db, jobs)
  BY <1>1, LeftFacts
<1>3. \A c \in Caller : /\ call'[c] = call[c] \/ c = j.by
                        /\ answer'[c] = IF j.by = c /\ j.op = "get" THEN db[j.key] ELSE answer[c]
  <2>1. CASE j.by = None
    BY <2>1, JobDone, ConstantsAssumption DEF Inv
  <2>2. CASE j.by # None
    <3>1. /\ j.by \in Caller /\ call[j.by] # None
          /\ \E s \in Step : Goto(j.by, s)
          /\ j.op = "get" => answer' = [answer EXCEPT ![j.by] = db[j.key]]
          /\ j.op # "get" => answer' = answer
      BY <2>2, JobDone DEF Inv, Step
    <3>2. \A c \in Caller : call'[c] = call[c] \/ c = j.by
      <4>1. PICK s \in Step : Goto(j.by, s)
        BY <3>1
      <4>2. TypeOK
        BY DEF Inv, TypeInv
      <4>3. PICK b \in Caller : b = j.by
        BY <3>1
      <4>4. call[b] # None /\ Goto(b, s)
        BY <3>1, <4>1, <4>3
      <4>5. \A d \in Caller \ {b} : call'[d] = call[d]
        BY <4>2, <4>4, Moved
      <4>. QED  BY <4>3, <4>5
    <3>. HIDE DEF j
    <3>. QED  BY <3>1, <3>2 DEF Inv, TypeInv, TypeOK
  <2>. QED  BY <2>1, <2>2
<1>4. j.by # None =>
        /\ j.by \in Caller /\ call[j.by] # None /\ call[j.by].at = "await"
        /\ call'[j.by] # None /\ call'[j.by].at \in {"fill", "return"}
        /\ call'[j.by].op = call[j.by].op /\ call'[j.by].key = call[j.by].key
        /\ call'[j.by].value = call[j.by].value
  <2>. SUFFICES ASSUME j.by # None
                PROVE  /\ j.by \in Caller /\ call[j.by] # None /\ call[j.by].at = "await"
                       /\ call'[j.by] # None /\ call'[j.by].at \in {"fill", "return"}
                       /\ call'[j.by].op = call[j.by].op /\ call'[j.by].key = call[j.by].key
                       /\ call'[j.by].value = call[j.by].value
    OBVIOUS
  <2>1. /\ j.by \in Caller /\ call[j.by] # None /\ call[j.by].at = "await"
        /\ \E s \in {"fill", "return"} : Goto(j.by, s) /\ s \in Step
    BY JobDone DEF Inv, Step
  <2>. QED  BY <2>1, Moved DEF Inv, TypeInv
<1>5. \A c \in Caller : Answers'[c] = Answers[c]
  <2>. SUFFICES ASSUME NEW c \in Caller PROVE Answers'[c] = Answers[c]
    OBVIOUS
  <2>1. OneJob(jobs, c)
    BY ConstantsAssumption DEF OneJob, Inv, TypeInv, Awaited
  <2>2. Found(Exec(db, jobs[1]), Tail(jobs),
              IF jobs[1].by = c /\ jobs[1].op = "get" THEN db[jobs[1].key] ELSE answer[c], c)
          = Found(db, jobs, answer[c], c)
    BY <1>1, <2>1, FoundTail
  <2>. QED  BY <1>1, <1>3, <2>2, AnswersAre
<1>6. \A c \in Caller : Wanted'[c] = Wanted[c]
  <2>. SUFFICES ASSUME NEW c \in Caller PROVE Wanted'[c] = Wanted[c]
    OBVIOUS
  <2>1. CASE call'[c] = call[c]
    BY <2>1 DEF Wanted, InProgress
  <2>2. CASE call'[c] # call[c]
    <3>1. c = j.by /\ j.by # None
      BY <1>3, <2>2, ConstantsAssumption
    <3>. QED  BY <1>4, <3>1 DEF Wanted, InProgress
  <2>. QED  BY <2>1, <2>2
<1>7. \A c \in Caller : Fulfilled'[c] = Fulfilled[c]
  <2>. SUFFICES ASSUME NEW c \in Caller PROVE Fulfilled'[c] = Fulfilled[c]
    OBVIOUS
  <2>1. CASE call'[c] = call[c]
    <3>1. Fulfilled'[c] <=> Fulfilled[c]
      BY <1>1, <2>1, Meaning DEF Inv
    <3>. QED  BY <3>1, Meaning DEF Inv
  <2>2. CASE call'[c] # call[c]
    <3>1. c = j.by /\ j.by # None
      BY <1>3, <2>2, ConstantsAssumption
    <3>2. Fulfilled'[c] /\ Fulfilled[c]
      BY <1>4, <3>1, Meaning DEF Inv
    <3>. QED  BY <3>2, Meaning DEF Inv
  <2>. QED  BY <2>1, <2>2
<1>8. \A k \in Key : Stored'[k] = Stored[k]
  <2>1. \A c \in Caller :
          /\ call[c] # None /\ call[c].op = "delete" /\ call[c].at \in {"queue", "write"}
               => call'[c] = call[c]
          /\ call'[c] # None /\ call'[c].op = "delete" /\ call'[c].at \in {"queue", "write"}
               => call'[c] = call[c]
    <3>. SUFFICES ASSUME NEW c \in Caller, call'[c] # call[c]
                  PROVE  /\ call[c] # None => call[c].at = "await"
                         /\ call'[c] # None => call'[c].at \in {"fill", "return"}
      OBVIOUS
    <3>1. c = j.by /\ j.by # None
      BY <1>3, ConstantsAssumption
    <3>. QED  BY <1>4, <3>1
  <2>2. \A k \in Key : Reading(kind', call', cache', LeftOf(db', jobs'), k)
                         = Reading(kind, call, cache, LeftOf(db, jobs), k)
    BY <1>1, <1>2, <2>1 DEF Reading
  <2>. QED  BY <2>2, StoredIs
<1>9. \A c \in Caller : Untouched(c)
  BY <1>5, <1>6, <1>7 DEF Untouched
<1>. QED  BY <1>1, <1>8, <1>9, IsStutter

LEMMA VisitCacheDoes ==
    ASSUME OneCached, Inv, Inv', Alone, NEW c \in Caller, VisitCache(c)
    PROVE  Store!Do(c) \/ UNCHANGED Store!vars
<1>. DEFINE k == call[c].key
            op == call[c].op
<1>1. /\ call[c] # None /\ call[c] \in CallState /\ call[c].at = "cache"
      /\ k \in Key /\ op \in Op
      /\ UNCHANGED <<kind, open, jobs, db>>
  BY DEF VisitCache, Inv, TypeInv, TypeOK, CallState
<1>2. PICK s \in Step :
        /\ s = IF call[c].op = "get"
               THEN (IF cache[call[c].key] # None THEN "return" ELSE "write")
               ELSE IF call[c].op = "delete" THEN "queue" ELSE "write"
        /\ call'[c] # None /\ call'[c].at = s
        /\ call'[c].op = call[c].op /\ call'[c].key = call[c].key
        /\ call'[c].value = call[c].value
        /\ s # "return" => call'[c].shared = call[c].shared
        /\ \A d \in Caller \ {c} : call'[d] = call[d]
  BY VisitCacheMoves DEF Inv, TypeInv
<1>3. /\ call'[c] # None /\ call'[c].at = s
      /\ call'[c].op = op /\ call'[c].key = k
      /\ call'[c].value = call[c].value
      /\ s # "return" => call'[c].shared = call[c].shared
      /\ \A d \in Caller \ {c} : call'[d] = call[d]
  BY <1>2
<1>4. /\ answer'[c] = IF op = "get" /\ cache[k] # None THEN cache[k] ELSE answer[c]
      /\ \A d \in Caller \ {c} : answer'[d] = answer[d]
  BY <1>1 DEF VisitCache, Inv, TypeInv, TypeOK
<1>5. \A d \in Caller \ {c} : Answers'[d] = Answers[d]
  BY <1>1, <1>4, AnswersStay
<1>6. Answers[c] = answer[c] /\ Answers'[c] = answer'[c]
  BY <1>1, AnswersThere, AnswersNew
<1>7. \A d \in Caller \ {c} : Untouched(d)
  BY <1>1, <1>3, <1>5, OthersUntouched
<1>8. Wanted'[c] = Wanted[c]
  BY <1>1, <1>2, <1>3 DEF Wanted, InProgress
<1>9. /\ Wanted[c] # None /\ Wanted[c].op = op
      /\ Wanted[c].key = k /\ Wanted[c].value = call[c].value
      /\ Fulfilled[c] <=> call[c].shared
  BY <1>1, Meaning DEF Inv
<1>. DEFINE new == op \in {"insert", "update"} /\ Cached(k) /\ (cache[k] = None <=> op = "insert")
<1>10. /\ cache'[k] = IF op = "delete" THEN None ELSE IF new THEN call[c].value ELSE cache[k]
       /\ \A i \in Key : i # k => cache'[i] = cache[i]
  BY <1>1 DEF VisitCache, Inv, TypeInv, TypeOK
<1>11. op \in {"insert", "update"} => call[c].value # None
  BY <1>1, ConstantsAssumption DEF Inv, Phases, Phase
<1>. DEFINE t == LeftOf(db, jobs)
<1>12. LeftOf(db', jobs') = t
  BY <1>1
<1>13. /\ \A i \in Key : Stored[i] = Reading(kind, call, cache, t, i)
       /\ \A i \in Key : Stored'[i] = Reading(kind', call', cache', t, i)
  BY <1>12, StoredIs
<1>14. kind = "SqlDBCache" => \A d \in Caller \ {c} : call[d] = None /\ call'[d] = None
  BY <1>1, <1>3, OthersIdle
<1>15. \A i \in Key : Stored[i] = IF cache[i] # None THEN cache[i] ELSE t[i]
  BY <1>1, <1>13, <1>14 DEF Reading
<1>16. kind # "SqlDBCache" => \A i \in Key : cache[i] = None /\ cache'[i] = None
  BY <1>1 DEF Inv, CacheOnly, Cached
<1>. HIDE DEF t
<1>19. CASE Fulfilled[c]
  <2>1. /\ call[c].shared /\ op = "update" /\ kind = "SqlDBCache"
        /\ cache[k] = call[c].value /\ cache[k] # None
    BY <1>1, <1>9, <1>19 DEF Inv, Phases, Phase, Sharing, Alone
  <2>2. \A i \in Key : cache'[i] = cache[i]
    BY <1>1, <1>10, <2>1
  <2>3. Fulfilled'[c]
    BY <1>1, <1>2, <1>3, <2>1, <2>2, Meaning DEF Inv
  <2>4. Fulfilled'[c] = Fulfilled[c]
    BY <1>19, <2>3, Meaning DEF Inv
  <2>5. Answers'[c] = Answers[c]
    BY <1>4, <1>6, <2>1
  <2>6. \A d \in Caller : Untouched(d)
    BY <1>7, <1>8, <2>4, <2>5 DEF Untouched
  <2>7. \A i \in Key : Stored'[i] = Stored[i]
    BY <1>1, <1>2, <1>3, <1>13, <1>14, <2>1, <2>2 DEF Reading
  <2>. QED  BY <1>1, <2>6, <2>7, IsStutter
<1>17. CASE ~Fulfilled[c] /\ Fulfilled'[c]
  <2>1. \A i \in Key : i # k => Stored'[i] = Stored[i]
    BY <1>1, <1>3, <1>10, <1>13, <1>14, <1>15 DEF Reading
  <2>2. CASE op = "get"
    <3>1. cache[k] # None
      BY <1>2, <1>3, <1>17, <2>2, Meaning DEF Inv
    <3>2. Stored'[k] = Stored[k] /\ Stored[k] = cache[k]
      BY <1>1, <1>2, <1>3, <1>10, <1>13, <1>14, <1>15, <2>2, <3>1 DEF Reading
    <3>3. Stored'[Wanted[c].key] \in Store!Effect(Wanted[c])
      BY <1>9, <2>2, <3>2 DEF Store!Effect
    <3>4. Answers'[c] = Stored[Wanted[c].key]
      BY <1>4, <1>6, <1>9, <2>2, <3>1, <3>2
    <3>. QED  BY <1>1, <1>7, <1>8, <1>9, <1>17, <2>1, <2>2, <3>3, <3>4, IsDo
  <2>3. CASE op # "get"
    <3>1. Answers'[c] = Answers[c]
      BY <1>4, <1>6, <2>3
    <3>2. Stored'[k] \in Store!Effect(Wanted[c])
      <4>1. CASE op = "delete"
        <5>1. kind = "SqlDBCache"
          BY <1>1, <1>2, <1>3, <1>17, <4>1, Meaning DEF Inv
        <5>2. Stored'[k] = None
          BY <1>1, <1>2, <1>3, <1>13, <4>1, <5>1 DEF Reading
        <5>. QED  BY <1>9, <4>1, <5>2 DEF Store!Effect
      <4>2. CASE op \in {"insert", "update"}
        <5>1. cache'[k] # None
          BY <1>1, <1>2, <1>3, <1>17, <4>2, Meaning DEF Inv
        <5>2. Stored'[k] = cache'[k]
          BY <1>1, <1>2, <1>3, <1>13, <1>14, <1>16, <4>2, <5>1 DEF Reading
        <5>3. CASE op = "insert"
          <6>1. cache'[k] = call[c].value \/ (cache'[k] = cache[k] /\ cache[k] = Stored[k])
            BY <1>1, <1>10, <1>15, <5>1, <5>3
          <6>. QED  BY <1>9, <5>1, <5>2, <5>3, <6>1 DEF Store!Effect
        <5>4. CASE op = "update"
          <6>1. k \in Member
            BY <1>1, <5>4 DEF Inv, Phases, Phase
          <6>2. cache[k] # None
            BY <1>10, <5>1, <5>4
          <6>3. Stored[k] = cache[k]
            BY <1>1, <1>15, <6>2
          <6>4. cache'[k] = call[c].value
            BY <1>1, <1>10, <1>16, <5>4, <6>1, <6>2 DEF Cached, Inv, CacheOnly
          <6>. QED  BY <1>9, <5>2, <5>4, <6>2, <6>3, <6>4 DEF Store!Effect
        <5>. QED  BY <4>2, <5>3, <5>4
      <4>. QED  BY <1>1, <2>3, <4>1, <4>2 DEF Op
    <3>. QED  BY <1>1, <1>7, <1>8, <1>9, <1>17, <2>1, <2>3, <3>1, <3>2, IsDo
  <2>. QED  BY <2>2, <2>3
<1>18. CASE ~Fulfilled[c] /\ ~Fulfilled'[c]
  <2>1. Fulfilled'[c] = Fulfilled[c]
    BY <1>18, Meaning DEF Inv
  <2>2. op = "get" => cache[k] = None
    BY <1>1, <1>2, <1>3, <1>18, Meaning DEF Inv
  <2>3. Answers'[c] = Answers[c]
    BY <1>4, <1>6, <2>2
  <2>4. \A d \in Caller : Untouched(d)
    BY <1>7, <1>8, <2>1, <2>3 DEF Untouched
  <2>5. kind = "SqlDBCache" => op # "delete" /\ (op \in {"insert", "update"} => cache'[k] = None)
    BY <1>1, <1>2, <1>3, <1>18, Meaning DEF Inv
  <2>6. \A i \in Key : cache'[i] = cache[i]
    BY <1>1, <1>10, <1>11, <1>16, <2>5 DEF Op
  <2>7. \A i \in Key : Stored'[i] = Stored[i]
    BY <1>1, <1>3, <1>13, <1>14, <1>15, <2>5, <2>6 DEF Reading
  <2>. QED  BY <1>1, <2>4, <2>7, IsStutter
<1>. QED  BY <1>17, <1>18, <1>19

LEMMA CallWriterDoes ==
    ASSUME OneCached, Inv, Inv', Alone, NEW c \in Caller, CallWriter(c)
    PROVE  Store!Do(c) \/ UNCHANGED Store!vars
<1>. DEFINE k == call[c].key
            op == call[c].op
            t == LeftOf(db, jobs)
            u == LeftOf(db', jobs')
<1>1. /\ call[c] # None /\ call[c] \in CallState /\ call[c].at = "write" /\ Post(c)
      /\ k \in Key /\ op \in Op
      /\ UNCHANGED <<kind, open, cache, db, answer>>
  BY DEF CallWriter, Inv, TypeInv, TypeOK, CallState
<1>2. PICK j \in Job, s \in {"await", "return"} :
              /\ j.op = op /\ j.key = k /\ j.value = call[c].value
              /\ s = "await" => j.by = c
              /\ s = "return" => j.by = None /\ j.op # "get"
              /\ Goto(c, s)
              /\ jobs' = Append(jobs, j)
  BY <1>1, Posted DEF Inv, TypeInv
<1>3. /\ call'[c] # None /\ call'[c].at = s
      /\ call'[c].op = op /\ call'[c].key = k
      /\ call'[c].value = call[c].value
      /\ \A d \in Caller \ {c} : call'[d] = call[d]
  BY <1>1, <1>2, Moved DEF Inv, TypeInv, Step
<1>4. jobs \in Seq(Job) /\ db \in Tables
  BY DEF Inv, TypeInv, TypeOK, Tables
<1>5. u = Exec(t, j) /\ t \in Tables
  BY <1>1, <1>2, <1>4, LeftFacts
<1>6. \A d \in Caller : Answers'[d] = IF j.by = d /\ op = "get" THEN t[k] ELSE Answers[d]
  <2>. SUFFICES ASSUME NEW d \in Caller
                PROVE  Answers'[d] = IF j.by = d /\ op = "get" THEN t[k] ELSE Answers[d]
    OBVIOUS
  <2>1. OneJob(jobs', d)
    BY ConstantsAssumption DEF OneJob, Inv, TypeInv, Awaited
  <2>2. Found(db, Append(jobs, j), answer[d], d) =
          IF j.by = d /\ j.op = "get" THEN LeftOf(db, jobs)[j.key] ELSE Found(db, jobs, answer[d], d)
    BY <1>2, <1>4, <2>1, FoundAppended
  <2>. QED  BY <1>1, <1>2, <2>2, AnswersAre
<1>7. op = "get" => j.by = c
  BY <1>2
<1>8. j.by \in {c, None} /\ c # None /\ None \notin Caller
  BY <1>2, ConstantsAssumption
<1>9. \A d \in Caller \ {c} : Answers'[d] = Answers[d]
  BY <1>6, <1>8
<1>10. Answers'[c] = IF op = "get" THEN t[k] ELSE Answers[c]
  BY <1>6, <1>7
<1>. HIDE DEF t, u
<1>11. \A d \in Caller \ {c} : Untouched(d)
  BY <1>1, <1>3, <1>9, OthersUntouched
<1>12. Wanted'[c] = Wanted[c]
  BY <1>1, <1>2, <1>3 DEF Wanted, InProgress
<1>13. /\ Wanted[c] # None /\ Wanted[c].op = op
       /\ Wanted[c].key = k /\ Wanted[c].value = call[c].value /\ Fulfilled'[c]
  BY <1>1, <1>2, <1>3, Meaning DEF Inv
<1>14. \A i \in Key : i # k => u[i] = t[i]
  BY <1>2, <1>5, ExecType
<1>15. /\ \A i \in Key : Stored[i] = Reading(kind, call, cache, t, i)
       /\ \A i \in Key : Stored'[i] = Reading(kind', call', cache', u, i)
  BY StoredIs DEF t, u
<1>16. kind = "SqlDBCache" => \A d \in Caller \ {c} : call[d] = None /\ call'[d] = None
  BY <1>1, <1>3, OthersIdle
<1>17. \A i \in Key : Stored'[i] = IF cache[i] # None THEN cache[i] ELSE u[i]
  BY <1>1, <1>2, <1>3, <1>15, <1>16 DEF Reading
<1>18. \A i \in Key : i # k => Stored[i] = IF cache[i] # None THEN cache[i] ELSE t[i]
  BY <1>1, <1>15, <1>16 DEF Reading
<1>19. op # "delete" \/ kind # "SqlDBCache"
         => Stored[k] = IF cache[k] # None THEN cache[k] ELSE t[k]
  BY <1>1, <1>15, <1>16 DEF Reading
<1>20. \A i \in Key : i # k => Stored'[i] = Stored[i]
  BY <1>14, <1>17, <1>18
<1>21. op = "delete" => u[k] = None
  BY <1>1, <1>2, <1>5 DEF Exec, Tables
<1>22. CASE Fulfilled[c]
  <2>1. kind = "SqlDBCache" /\ op # "get" /\ (op # "delete" => cache[k] # None)
    BY <1>1, <1>22, Meaning DEF Inv
  <2>2. Stored'[k] = Stored[k]
    <3>1. CASE op = "delete"
      <4>1. cache[k] = None
        BY <1>1, <2>1, <3>1 DEF Alone
      <4>2. Stored'[k] = None
        BY <1>1, <1>17, <1>21, <3>1, <4>1
      <4>3. Stored[k] = None
        BY <1>1, <1>15, <2>1, <3>1 DEF Reading
      <4>. QED  BY <4>2, <4>3
    <3>2. CASE op # "delete"
      BY <1>1, <1>17, <1>19, <2>1, <3>2
    <3>. QED  BY <3>1, <3>2
  <2>3. Untouched(c)
    <3>1. Fulfilled'[c] = Fulfilled[c]
      BY <1>13, <1>22, Meaning DEF Inv
    <3>. QED  BY <1>10, <1>12, <2>1, <3>1 DEF Untouched
  <2>. QED  BY <1>1, <1>11, <1>20, <2>2, <2>3, IsStutter
<1>23. CASE ~Fulfilled[c]
  <2>1. op = "delete" => kind # "SqlDBCache"
    BY <1>1, <1>23, Meaning DEF Inv
  <2>2. cache[k] = None
    <3>1. CASE kind = "SqlDBCache" /\ op # "get"
      BY <1>1, <1>23, <3>1, Meaning DEF Inv
    <3>2. CASE kind = "SqlDBCache" /\ op = "get"
      BY <1>1, <3>2 DEF Alone
    <3>3. CASE kind # "SqlDBCache"
      BY <1>1, <3>3 DEF Inv, CacheOnly, Cached
    <3>. QED  BY <3>1, <3>2, <3>3
  <2>3. Stored[k] = t[k] /\ Stored'[k] = u[k]
    BY <1>1, <1>17, <1>19, <2>1, <2>2
  <2>4. /\ op = "update" => k \in Member
        /\ op \in {"insert", "update"} => call[c].value # None
    BY <1>1, ConstantsAssumption DEF Inv, Phases, Phase
  <2>5. u[k] \in Store!Effect(Wanted[c])
    <3>1. CASE op = "get"
      <4>1. u = t
        BY <1>2, <1>5, <3>1 DEF Exec
      <4>. QED  BY <1>13, <2>3, <3>1, <4>1 DEF Store!Effect
    <3>2. CASE op = "delete"
      BY <1>13, <1>21, <3>2 DEF Store!Effect
    <3>3. CASE op = "update"
      <4>1. u[k] = IF t[k] = None THEN None ELSE call[c].value
        BY <1>1, <1>2, <1>5, <2>4, <3>3 DEF Exec, Tables
      <4>. QED  BY <1>13, <2>3, <3>3, <4>1 DEF Store!Effect
    <3>4. CASE op = "insert"
      <4>1. u[k] = IF t[k] = None THEN call[c].value ELSE t[k]
        BY <1>1, <1>2, <1>5, <3>4 DEF Exec, Tables
      <4>. QED  BY <1>13, <2>3, <3>4, <4>1 DEF Store!Effect
    <3>. QED  BY <1>1, <3>1, <3>2, <3>3, <3>4 DEF Op
  <2>6. Answers'[c] = IF Wanted[c].op = "get" THEN Stored[Wanted[c].key] ELSE Answers[c]
    BY <1>10, <1>13, <2>3
  <2>. QED  BY <1>1, <1>11, <1>12, <1>13, <1>20, <1>23, <2>3, <2>5, <2>6, IsDo
<1>. QED  BY <1>22, <1>23

(***************************************************************************)
(* The cache and the writer are one store, when nobody else uses the cache.*)
(***************************************************************************)

LEMMA InitStore == Init => Store!Init
<1>. SUFFICES ASSUME Init PROVE Store!Init
  OBVIOUS
<1>1. Stored \in [Key -> Store!Object]
  BY InitTypes, StoredType DEF Tables, Object, Store!Object
<1>2. Wanted = [c \in Caller |-> None] /\ Fulfilled = [c \in Caller |-> FALSE]
  BY DEF Init, Wanted, Fulfilled, InProgress
<1>3. Answers = [c \in Caller |-> None]
  <2>1. \A c \in Caller : Answers[c] = None
    BY AnswersThere, InitInv DEF Init
  <2>. QED  BY <2>1, Domains
<1>. QED  BY <1>1, <1>2, <1>3 DEF Init, Store!Init

LEMMA StopStops ==
    ASSUME Inv, Inv', Stop PROVE Store!Stop
<1>1. /\ open /\ open' = FALSE /\ \A c \in Caller : call[c] = None
      /\ UNCHANGED <<kind, call, answer>>
  BY DEF Stop
<1>2. Stored' \in [Key -> Store!Object]
  <2>1. db' \in Tables /\ jobs' \in Seq(Job)
    BY DEF Inv, TypeInv, TypeOK, Tables
  <2>2. LeftOf(db', jobs') \in Tables
    BY <2>1, LeftFacts
  <2>3. \A k \in Key : Stored'[k] \in Object
    BY <2>2, StoredIs DEF Reading, Inv, TypeInv, TypeOK, Tables, Object
  <2>. QED  BY <2>3, Domains DEF Object, Store!Object
<1>3. Wanted' = Wanted /\ \A c \in Caller : Wanted[c] = None
  BY <1>1 DEF Wanted, InProgress
<1>4. Fulfilled' = Fulfilled
  BY <1>1 DEF Fulfilled, InProgress
<1>5. Answers' = Answers
  <2>1. \A c \in Caller : Answers[c] = answer[c]
    BY <1>1, AnswersThere
  <2>2. jobs' = <<>>
    BY DEF Stop
  <2>3. \A c \in Caller : Answers'[c] = answer'[c]
    BY <2>2, EmptySeq, FoundNone, AnswersAre
  <2>. QED  BY <1>1, <2>1, <2>3, Domains
<1>. QED  BY <1>1, <1>2, <1>3, <1>4, <1>5 DEF Store!Stop

LEMMA RunStarts ==
    ASSUME Inv, Inv', Run PROVE Store!Start
<1>1. /\ ~open /\ open' = TRUE
      /\ UNCHANGED <<kind, cache, jobs, db, call, answer>>
  BY DEF Run
<1>2. Stored' = Stored
  <2>1. \A k \in Key : Stored'[k] = Stored[k]
    BY <1>1, StoredIs
  <2>. QED  BY <2>1, Domains
<1>3. Wanted' = Wanted
  BY <1>1 DEF Wanted, InProgress
<1>4. Fulfilled' = Fulfilled
  BY <1>1 DEF Fulfilled, InProgress, Effective
<1>5. Answers' = Answers
  BY <1>1, AnswersStay, Domains
<1>. QED  BY <1>1, <1>2, <1>3, <1>4, <1>5 DEF Store!Start

\* Whatever the class of the cache, its keys and the threads of the node: as
\* long as at most one thread uses an SqlDBCache, the calls of the database have
\* their effect one after the other, each between its beginning and its end, and
\* a read returns what the effects before it left (ISqlDBCache, AsyncSqlDBWriter).
THEOREM CacheAndWriterAreOneStore == OneCached => (Spec => ImplementsStore)
<1>. SUFFICES ASSUME OneCached PROVE Spec => ImplementsStore
  OBVIOUS
<1>1. ASSUME Inv, Inv', Alone, [Next]_vars PROVE [Store!Next]_(Store!vars)
  <2>1. CASE UNCHANGED vars
    <3>1. \A k \in Key : Stored'[k] = Stored[k]
      BY <2>1, StoredIs DEF vars
    <3>2. \A c \in Caller : Answers'[c] = Answers[c]
      BY <2>1, AnswersStay DEF vars
    <3>3. \A c \in Caller : Wanted'[c] = Wanted[c] /\ Fulfilled'[c] = Fulfilled[c]
      BY <2>1 DEF vars, Wanted, Fulfilled, InProgress, Effective
    <3>. QED  BY <2>1, <3>1, <3>2, <3>3, IsStutter DEF vars, Untouched
  <2>2. CASE RunJob
    BY <1>1, <2>2, RunJobStutters
  <2>3. CASE Stop
    BY <1>1, <2>3, StopStops DEF Store!Next
  <2>4. CASE Run
    BY <1>1, <2>4, RunStarts DEF Store!Next
  <2>5. ASSUME NEW c \in Caller, Invocation(c)
        PROVE  [Store!Next]_(Store!vars)
    BY <1>1, <2>5, InvocationBegins DEF Store!Next
  <2>6. ASSUME NEW c \in Caller, Progress(c)
        PROVE  [Store!Next]_(Store!vars)
    <3>1. Store!Begin(c) \/ Store!Do(c) \/ Store!End(c) \/ UNCHANGED Store!vars
      BY <1>1, <2>6, VisitCacheDoes, PushToQueueStutters, CallWriterDoes, FillStutters,
         ChangeActionBegins, ChangeInPlaceDoes, ReturnEnds DEF Progress
    <3>. QED  BY <3>1 DEF Store!Next
  <2>. QED  BY <1>1, <2>1, <2>2, <2>3, <2>4, <2>5, <2>6 DEF Next
<1>. QED  BY <1>1, InitStore, InvHolds, AloneHolds, PTL DEF Spec, ImplementsStore, Store!Spec
=============================================================================
