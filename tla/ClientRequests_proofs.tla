------------------------ MODULE ClientRequests_proofs ------------------------
(***************************************************************************)
(* Theorems about ClientRequests, for any number of threads, items,        *)
(* requests and queries.                                                   *)
(***************************************************************************)
EXTENDS ClientRequests, TLAPS

Hash == Query \cup {List}

Message == [id : Nat, cmd : {"subscribe", "unsubscribe"}, arg : Item]
           \cup [id : Nat, cmd : {"list"}, arg : {List}]
           \cup [id : Nat, cmd : {"rest"}, arg : Query]
Answer == [id : Nat, cmd : {"list"}, arg : {List}, items : SUBSET Item]
          \cup [id : Nat, cmd : {"rest"}, arg : Query, items : SUBSET Item]

Call == [at : {"lock", "send", "note", "register"},
         cmd : {"subscribe", "unsubscribe", "list", "rest"}, arg : Item \cup Hash, id : Nat]

TypeOK ==
    /\ sent \in Nat
    /\ call \in [Caller -> {Idle} \cup Call]
    /\ \A c \in Caller : call[c] # Idle => [cmd |-> call[c].cmd, arg |-> call[c].arg] \in Command
    /\ way \subseteq Message
    /\ answers \subseteq Answer
    /\ subscribes \subseteq Item /\ served \subseteq Item
    /\ handlers \in [Hash -> Nat]
    /\ running \in {None} \cup [id : Nat, of : Answer]
    /\ ran \subseteq Nat

LEMMA TypeStep == TypeOK /\ [Next]_vars => TypeOK'
<1>. SUFFICES ASSUME TypeOK, [Next]_vars PROVE TypeOK'
  OBVIOUS
<1>. USE DEF TypeOK
<1>1. ASSUME NEW c \in Caller, Begin(c) PROVE TypeOK'
  <2>1. PICK r \in Command :
          call' = [call EXCEPT ![c] = [at |-> IF r.cmd = "list" THEN "lock" ELSE "send",
                                       cmd |-> r.cmd, arg |-> r.arg, id |-> 0]]
    BY <1>1 DEF Begin
  <2>2. call'[c] \in Call /\ [cmd |-> call'[c].cmd, arg |-> call'[c].arg] \in Command
    BY <2>1 DEF Call, Command, Hash
  <2>3. \A d \in Caller \ {c} : call'[d] = call[d]
    BY <2>1
  <2>. QED  BY <1>1, <2>1, <2>2, <2>3 DEF Begin, list, rest
<1>2. ASSUME NEW c \in Caller, NEW j \in {Idle} \cup Call,
             call' = [call EXCEPT ![c] = j],
             j # Idle => [cmd |-> j.cmd, arg |-> j.arg] \in Command
      PROVE  /\ call' \in [Caller -> {Idle} \cup Call]
             /\ \A d \in Caller : call'[d] # Idle =>
                   [cmd |-> call'[d].cmd, arg |-> call'[d].arg] \in Command
  BY <1>2
<1>3. ASSUME NEW c \in Caller, call[c].at # "idle",
             NEW a \in {"lock", "send", "note", "register"}, NEW i \in Nat,
             call' = [call EXCEPT ![c].at = a, ![c].id = i]
      PROVE  /\ call' \in [Caller -> {Idle} \cup Call]
             /\ \A d \in Caller : call'[d] # Idle =>
                   [cmd |-> call'[d].cmd, arg |-> call'[d].arg] \in Command
  <2>. DEFINE j == [call[c] EXCEPT !.at = a, !.id = i]
  <2>1. call[c] \in Call /\ call[c] # Idle
    BY <1>3 DEF Idle
  <2>2. j \in Call /\ j.cmd = call[c].cmd /\ j.arg = call[c].arg
    BY <2>1 DEF Call
  <2>3. call' = [call EXCEPT ![c] = j]
    BY <1>3
  <2>. QED  BY <1>2, <2>1, <2>2, <2>3
<1>4. ASSUME NEW c \in Caller, Done(c)
      PROVE  /\ call' \in [Caller -> {Idle} \cup Call]
             /\ \A d \in Caller : call'[d] # Idle =>
                   [cmd |-> call'[d].cmd, arg |-> call'[d].arg] \in Command
  BY <1>2, <1>4 DEF Done
<1>5. ASSUME NEW c \in Caller, Lock(c) PROVE TypeOK'
  <2>1. call[c] \in Call
    BY <1>5 DEF Lock, Idle
  <2>2. call' = [call EXCEPT ![c].at = "send", ![c].id = call[c].id]
    BY <1>5, <2>1 DEF Lock, Call
  <2>3. call[c].id \in Nat
    BY <2>1 DEF Call
  <2>. QED  BY <1>3, <1>5, <2>2, <2>3 DEF Lock, rest, history
<1>6. ASSUME NEW c \in Caller, Send(c) PROVE TypeOK'
  <2>1. call[c] \in Call /\ call[c] # Idle
    BY <1>6 DEF Send, Idle
  <2>2. [id |-> sent', cmd |-> call[c].cmd, arg |-> call[c].arg] \in Message
    <3>1. [cmd |-> call[c].cmd, arg |-> call[c].arg] \in Command /\ sent' \in Nat
      BY <1>6, <2>1 DEF Send
    <3>. QED  BY <3>1 DEF Command, Message
  <2>3. PICK a \in {"note", "register"} : call' = [call EXCEPT ![c].at = a, ![c].id = sent']
    BY <1>6, <2>1 DEF Send, Call
  <2>4. call[c].at # "idle" /\ sent' \in Nat
    BY <1>6 DEF Send
  <2>5. /\ call' \in [Caller -> {Idle} \cup Call]
        /\ \A d \in Caller : call'[d] # Idle =>
              [cmd |-> call'[d].cmd, arg |-> call'[d].arg] \in Command
    BY <1>3, <2>3, <2>4
  <2>. QED  BY <1>6, <2>2, <2>4, <2>5 DEF Send, list, rest, history
<1>7. ASSUME NEW c \in Caller, SendFails(c) PROVE TypeOK'
  BY <1>4, <1>7 DEF SendFails, rest, history
<1>8. ASSUME NEW c \in Caller, Note(c) PROVE TypeOK'
  <2>1. subscribes' \subseteq Item
    BY <1>8 DEF Note, Noted, Command, Idle
  <2>. QED  BY <1>4, <1>8, <2>1 DEF Note, rest, history
<1>9. ASSUME NEW c \in Caller, Register(c) PROVE TypeOK'
  <2>1. call[c].id \in Nat
    BY <1>9 DEF Register, Call, Idle
  <2>. QED  BY <1>4, <1>9, <2>1 DEF Register, history
<1>10. ASSUME NEW t \in timers, Timer(t) PROVE TypeOK'
  BY <1>10 DEF Timer, list
<1>11. ASSUME NEW r \in way, Serve(r) PROVE TypeOK'
  <2>1. r \in Message
    OBVIOUS
  <2>2. answers' \subseteq Answer
    BY <1>11, <2>1 DEF Serve, Message, Answer
  <2>3. served' \subseteq Item
    BY <1>11, <2>1 DEF Serve, Message
  <2>. QED  BY <1>11, <2>2, <2>3 DEF Serve, list, rest, history
<1>12. CASE Lose
  BY <1>12 DEF Lose, list, rest
<1>13. ASSUME NEW a \in answers, HandleList(a) \/ NoHandler(a) PROVE TypeOK'
  BY <1>13 DEF HandleList, NoHandler, SetSubscribersList, Answer, list, rest
<1>14. ASSUME NEW a \in answers, RunHandler(a) PROVE TypeOK'
  BY <1>14 DEF RunHandler, HandlerOf, Take, Answer, Hash, list, history
<1>15. CASE HandlerReturns
  BY <1>15 DEF HandlerReturns, SetSubscribersList, Answer, rest
<1>16. CASE UNCHANGED vars
  BY <1>16 DEF vars, list, rest, history
<1>. QED
  BY <1>1, <1>5, <1>6, <1>7, <1>8, <1>9, <1>10, <1>11, <1>12, <1>13, <1>14, <1>15, <1>16
     DEF Next, Returns

-----------------------------------------------------------------------------
(* Handlers. *)

\* The numbers under which a handler may still run: those in the cache, and those
\* of the callers about to put theirs there.
Waits(c) == call[c].at = "register"

\* A number waits in one place only, has been given to a request, and is not of a
\* handler that runs or has run.
Fresh(id) == id \in 1..sent /\ id \notin ran /\ (running # None => running.id # id)

HandlerInv ==
    /\ \A c \in Caller : Waits(c) =>
          /\ Fresh(call[c].id)
          /\ \A h \in Hash : handlers[h] # call[c].id
          /\ \A d \in Caller \ {c} : Waits(d) => call[d].id # call[c].id
    /\ \A h \in Hash : handlers[h] # 0 =>
          /\ Fresh(handlers[h])
          /\ \A g \in Hash \ {h} : handlers[g] # handlers[h]
    /\ running # None => running.id \in 1..sent \ ran
    /\ ran \subseteq 1..sent

LEMMA HandlerStep == TypeOK /\ HandlerInv /\ [Next]_vars => HandlerInv'
<1>. SUFFICES ASSUME TypeOK, HandlerInv, [Next]_vars PROVE HandlerInv'
  OBVIOUS
<1>. USE DEF TypeOK, HandlerInv, Waits, Fresh
<1>1. ASSUME NEW c \in Caller, Begin(c) PROVE HandlerInv'
  <2>1. call'[c].at # "register" /\ \A d \in Caller \ {c} : call'[d] = call[d]
    BY <1>1 DEF Begin
  <2>. QED  BY <1>1, <2>1 DEF Begin, rest
<1>2. ASSUME NEW c \in Caller, Lock(c) \/ SendFails(c) \/ Note(c) PROVE HandlerInv'
  <2>1. call'[c].at # "register" /\ \A d \in Caller \ {c} : call'[d] = call[d]
    <3>1. call[c] \in Call \/ Done(c)
      BY <1>2 DEF Lock, SendFails, Note, Idle
    <3>. QED  BY <1>2, <3>1 DEF Lock, SendFails, Note, Done, Idle, Call
  <2>2. UNCHANGED <<rest, ran>> /\ sent' \in {sent, sent + 1}
    BY <1>2 DEF Lock, SendFails, Note, history
  <2>3. \A id : Fresh(id) => Fresh(id)'
    BY <2>2 DEF rest
  <2>4. running' # None => running'.id \in 1..sent' \ ran'
    BY <2>2 DEF rest
  <2>5. ran' \subseteq 1..sent'
    BY <2>2
  <2>. QED  BY <2>1, <2>2, <2>3, <2>4, <2>5 DEF rest
<1>3. ASSUME NEW c \in Caller, Send(c) PROVE HandlerInv'
  <2>. PICK i \in Nat : i = sent + 1
    OBVIOUS
  <2>1. call'[c].id = i /\ \A d \in Caller \ {c} : call'[d] = call[d]
    BY <1>3 DEF Send, Call, Idle
  <2>2. UNCHANGED <<rest, ran>> /\ sent' = i
    BY <1>3 DEF Send, history
  <2>3. \A id : Fresh(id) => Fresh(id)' /\ id # i
    BY <2>2 DEF rest
  <2>4. i \in 1..sent' /\ i \notin 1..sent
    BY <2>2
  <2>5. Fresh(i)'
    BY <2>2, <2>4 DEF rest
  <2>6. \A h \in Hash : handlers'[h] # i
    BY <2>2, <2>4 DEF rest
  <2>7. running' # None => running'.id \in 1..sent' \ ran'
    BY <2>2 DEF rest
  <2>8. ran' \subseteq 1..sent'
    BY <2>2
  <2>. QED  BY <2>1, <2>2, <2>3, <2>5, <2>6, <2>7, <2>8 DEF rest
<1>4. ASSUME NEW c \in Caller, Register(c) PROVE HandlerInv'
  <2>1. /\ call'[c].at # "register" /\ \A d \in Caller \ {c} : call'[d] = call[d]
        /\ Waits(c)
    BY <1>4 DEF Register, Done, Idle
  <2>2. /\ UNCHANGED <<sent, running, ran>>
        /\ handlers' = [handlers EXCEPT ![call[c].arg] = call[c].id]
    BY <1>4 DEF Register, history
  <2>. QED  BY <2>1, <2>2
<1>5. ASSUME NEW t \in timers, Timer(t) PROVE HandlerInv'
  BY <1>5 DEF Timer
<1>6. ASSUME NEW a \in answers, RunHandler(a) PROVE HandlerInv'
  <2>1. a.arg \in Hash /\ handlers[a.arg] # 0 /\ HandlerOf(a) = handlers[a.arg]
    BY <1>6 DEF RunHandler, HandlerOf, Answer, Hash
  <2>2. /\ running' = [id |-> handlers[a.arg], of |-> a]
        /\ handlers' = [handlers EXCEPT ![a.arg] = 0]
        /\ UNCHANGED <<call, sent, ran>>
    BY <1>6, <2>1 DEF RunHandler, Take, history
  <2>. QED  BY <2>1, <2>2
<1>7. CASE HandlerReturns
  <2>1. /\ running # None /\ running' = None /\ ran' = ran \cup {running.id}
        /\ UNCHANGED <<call, sent, handlers>>
    BY <1>7 DEF HandlerReturns
  <2>. QED  BY <2>1
<1>8. CASE UNCHANGED <<call, sent, rest, ran>>
  BY <1>8 DEF rest
<1>. QED
  BY <1>1, <1>2, <1>3, <1>4, <1>5, <1>6, <1>7, <1>8
     DEF Next, Returns, Serve, Lose, HandleList, NoHandler, vars, history

\* A handler of restRequest runs at most once, for any number of equal and
\* different requests, of threads, of answers and of timers that fire.
THEOREM HandlersRunOnce == Spec => []HandlerRunsOnce
<1>1. Init => TypeOK /\ HandlerInv
  BY DEF Init, TypeOK, HandlerInv, Waits, Idle, Hash
<1>2. HandlerInv => HandlerRunsOnce
  BY DEF HandlerInv, HandlerRunsOnce
<1>. QED  BY <1>1, TypeStep, HandlerStep, <1>2, PTL DEF Spec
-----------------------------------------------------------------------------
(* The two lists of subscriptions. *)

Subscribing(c) == call[c] # Idle /\ call[c].cmd # "rest"

Noting == \E c \in Caller : call[c].at = "note"

Coming == \E r \in way : r.cmd # "rest"

\* What a command makes of a list.
Applied(items, r) ==
    CASE r.cmd = "subscribe" -> items \cup {r.arg}
      [] r.cmd = "unsubscribe" -> items \ {r.arg}
      [] OTHER -> items

Shape ==
    /\ \A c \in Caller :
          /\ call[c].at = "note" => call[c].cmd \in {"subscribe", "unsubscribe"}
          /\ call[c].at = "register" => call[c].cmd \in {"list", "rest"}
          /\ call[c].at = "lock" => call[c].cmd = "list"
    /\ running # None => running.of.cmd = "rest"

\* One command about subscriptions is under way: a call, its message, or both.
OneCommand ==
    /\ \A c, d \in Caller : Subscribing(c) /\ Subscribing(d) => c = d
    /\ \A r, q \in way \cup answers : r.cmd # "rest" /\ q.cmd # "rest" => r = q
    /\ \A c \in Caller, r \in way \cup answers : Subscribing(c) /\ r.cmd # "rest" =>
          call[c].at \in {"note", "register"} /\ call[c].cmd = r.cmd /\ call[c].arg = r.arg

\* The list that the server has sent is the one that it has.
Current == \A r \in answers : r.cmd = "list" => r.items = served

\* The lists differ by the command that one of the two has still to note.
Same ==
    /\ \A c \in Caller : call[c].at = "note" /\ ~Coming => served = Applied(subscribes, call[c])
    /\ \A r \in way : r.cmd # "rest" /\ ~Noting => subscribes = Applied(served, r)
    /\ (Noting <=> Coming) => subscribes = served

Asking ==
    /\ \A c \in Caller : Subscribing(c) => call[c].cmd = "list"
    /\ \A r \in way : r.cmd \in {"list", "rest"}
    /\ \/ \E c \in Caller : Subscribing(c) /\ call[c].at \in {"lock", "send"}
       \/ \E r \in way \cup answers : r.cmd # "rest"

ListInv ==
    /\ Shape
    /\ agreed # "no" => OneCommand /\ Current
    /\ agreed = "yes" => Same
    /\ agreed = "asking" => Asking
    /\ agreed \in {"yes", "no", "asking"}

LEMMA ListStep == TypeOK /\ ListInv /\ [Next]_vars => ListInv'
<1>. SUFFICES ASSUME TypeOK, ListInv, [Next]_vars PROVE ListInv'
  OBVIOUS
<1>. USE DEF Subscribing, Noting, Coming, Applied
<1>1. \A r \in way \cup answers : r.cmd \in {"subscribe", "unsubscribe", "list", "rest"}
  BY DEF TypeOK, Message, Answer
<1>2. \A r \in answers : r.cmd \in {"list", "rest"}
  BY DEF TypeOK, Answer
<1>3. \A c \in Caller : /\ call[c] = Idle <=> call[c].at = "idle"
                        /\ call[c] # Idle => call[c] \in Call
  BY DEF TypeOK, Idle, Call
<1>4. ASSUME NEW c \in Caller, Begin(c) PROVE ListInv'
  <2>1. /\ call[c] = Idle /\ UNCHANGED <<way, answers, subscribes, running, served>>
        /\ \A d \in Caller \ {c} : call'[d] = call[d]
    BY <1>4 DEF Begin, list, rest, TypeOK
  <2>2. PICK r \in Command :
          /\ call'[c] = [at |-> IF r.cmd = "list" THEN "lock" ELSE "send",
                         cmd |-> r.cmd, arg |-> r.arg, id |-> 0]
          /\ agreed' = IF r.cmd = "rest" THEN agreed
                       ELSE IF ~Quiet THEN "no"
                       ELSE IF r.cmd = "list" /\ agreed = "no" THEN "asking" ELSE agreed
    BY <1>4 DEF Begin, TypeOK
  <2>3. /\ call'[c] # Idle /\ call'[c].cmd = r.cmd
        /\ call'[c].at = IF r.cmd = "list" THEN "lock" ELSE "send"
    BY <2>2 DEF Idle
  <2>4. Quiet => /\ \A d \in Caller : ~Subscribing(d)
                 /\ \A q \in way \cup answers : q.cmd = "rest"
    BY DEF Quiet
  <2>5. Shape'
    BY <2>1, <2>3 DEF ListInv, Shape
  <2>6. agreed' \in {"yes", "no", "asking"}
    BY <2>2 DEF ListInv
  <2>7. CASE r.cmd = "rest"
    <3>1. agreed' = agreed /\ \A d \in Caller : Subscribing(d)' <=> Subscribing(d)
      BY <2>1, <2>2, <2>3, <2>7
    <3>2. call'[c].at # "note" /\ call[c].at # "note" /\ ~Subscribing(c)
      BY <1>3, <2>1, <2>3, <2>7
    <3>. QED  BY <2>1, <2>3, <2>5, <2>6, <2>7, <3>1, <3>2
              DEF ListInv, OneCommand, Current, Same, Asking
  <2>8. CASE r.cmd # "rest" /\ ~Quiet
    BY <2>2, <2>5, <2>6, <2>8 DEF ListInv
  <2>9. CASE r.cmd # "rest" /\ Quiet
    <3>1. OneCommand' /\ Current'
      BY <2>1, <2>4, <2>9 DEF OneCommand, Current
    <3>2. agreed' = "yes" => agreed = "yes"
      BY <2>2, <2>9
    <3>3. call[c].at # "note" /\ call'[c].at # "note"
      BY <1>3, <2>1, <2>3
    <3>4. agreed' = "yes" => Same'
      BY <2>1, <2>3, <3>2, <3>3 DEF ListInv, Same
    <3>5. agreed # "asking"
      BY <2>4, <2>9 DEF ListInv, Asking
    <3>6. agreed' = "asking" => r.cmd = "list"
      BY <2>2, <2>9, <3>5
    <3>7. agreed' = "asking" => Asking'
      BY <2>1, <2>3, <2>4, <2>9, <3>6 DEF Asking
    <3>. QED  BY <2>5, <2>6, <3>1, <3>4, <3>7 DEF ListInv
  <2>. QED  BY <2>7, <2>8, <2>9
<1>5. ASSUME NEW c \in Caller, Lock(c) PROVE ListInv'
  <2>1. /\ call'[c] = [call[c] EXCEPT !.at = "send"] /\ call[c].at = "lock"
        /\ UNCHANGED <<way, answers, subscribes, running, served, agreed>>
        /\ \A d \in Caller \ {c} : call'[d] = call[d]
    BY <1>5 DEF Lock, rest, history, TypeOK
  <2>2. call[c] # Idle /\ call[c] \in Call
    BY <1>3, <2>1 DEF Idle
  <2>3. /\ call'[c].at = "send" /\ call'[c].cmd = call[c].cmd /\ call'[c].arg = call[c].arg
        /\ call'[c] # Idle
    BY <2>1, <2>2 DEF Call, Idle
  <2>4. \A d \in Caller :
           /\ Subscribing(d)' <=> Subscribing(d)
           /\ call'[d].at = "note" <=> call[d].at = "note"
           /\ call'[d].at = "register" <=> call[d].at = "register"
           /\ call'[d].at \in {"lock", "send"} <=> call[d].at \in {"lock", "send"}
           /\ call'[d].cmd = call[d].cmd /\ call'[d].arg = call[d].arg
    BY <2>1, <2>2, <2>3
  <2>5. UNCHANGED <<way, answers, subscribes, running, served, agreed>>
    BY <2>1
  <2>6. Shape'
    <3>1. \A d \in Caller \ {c} : call'[d] = call[d]
      BY <2>1
    <3>. QED  BY <2>3, <2>5, <3>1 DEF ListInv, Shape
  <2>7. agreed # "no" => OneCommand' /\ Current'
    BY <1>3, <2>4, <2>5 DEF ListInv, OneCommand, Current
  <2>8. agreed = "yes" => Same'
    BY <2>4, <2>5 DEF ListInv, Same
  <2>9. agreed = "asking" => Asking'
    BY <1>3, <2>4, <2>5 DEF ListInv, Asking
  <2>. QED  BY <2>5, <2>6, <2>7, <2>8, <2>9 DEF ListInv
<1>6. ASSUME NEW c \in Caller, Send(c) PROVE ListInv'
  <2>. DEFINE m == [id |-> sent', cmd |-> call[c].cmd, arg |-> call[c].arg]
  <2>1. /\ call[c].at = "send" /\ way' = way \cup {m}
        /\ call' = [call EXCEPT ![c].id = sent',
                                ![c].at = IF call[c].cmd \in {"list", "rest"} THEN "register"
                                          ELSE "note"]
        /\ UNCHANGED <<answers, subscribes, running, served, agreed>>
    BY <1>6 DEF Send, list, rest, history
  <2>2. call[c] # Idle /\ call[c] \in Call
    BY <1>3, <2>1 DEF Idle
  <2>3. /\ call'[c].at = IF call[c].cmd \in {"list", "rest"} THEN "register" ELSE "note"
        /\ call'[c].cmd = call[c].cmd /\ call'[c].arg = call[c].arg /\ call'[c] # Idle
        /\ \A d \in Caller \ {c} : call'[d] = call[d]
    BY <2>1, <2>2 DEF Call, Idle, TypeOK
  <2>4. call[c].cmd \in {"subscribe", "unsubscribe", "list", "rest"}
    BY <2>2 DEF Call
  <2>5. m.cmd = call[c].cmd /\ m.arg = call[c].arg
    OBVIOUS
  <2>11. /\ way' = way \cup {m} /\ call[c].at = "send"
         /\ UNCHANGED <<answers, subscribes, running, served, agreed>>
    BY <2>1
  <2>. HIDE DEF m
  <2>6. Shape'
    BY <2>3, <2>4, <2>11 DEF ListInv, Shape
  <2>7. agreed # "no" /\ call[c].cmd # "rest" =>
          /\ \A d \in Caller : Subscribing(d) => d = c
          /\ \A r \in way \cup answers : r.cmd = "rest"
    BY <2>1, <2>2 DEF ListInv, OneCommand
  <2>8. agreed # "no" => OneCommand' /\ Current'
    <3>1. CASE call[c].cmd = "rest"
      <4>1. m.cmd = "rest" /\ \A d \in Caller : Subscribing(d)' <=> Subscribing(d)
        BY <2>2, <2>3, <2>5, <3>1
      <4>2. \A d \in Caller : Subscribing(d) => call'[d] = call[d]
        BY <2>3, <3>1
      <4>. QED  BY <2>11, <4>1, <4>2 DEF ListInv, OneCommand, Current
    <3>2. CASE call[c].cmd # "rest"
      <4>1. agreed # "no" => OneCommand'
        BY <2>3, <2>4, <2>5, <2>7, <2>11, <3>2 DEF OneCommand
      <4>. QED  BY <2>11, <4>1 DEF ListInv, Current
    <3>. QED  BY <3>1, <3>2
  <2>9. agreed = "yes" => Same'
    <3>1. CASE call[c].cmd = "rest"
      <4>1. /\ call'[c].at # "note" /\ call[c].at # "note"
            /\ \A d \in Caller \ {c} : call'[d] = call[d]
        BY <2>3, <2>11, <3>1
      <4>2. Coming' <=> Coming
        BY <2>5, <2>11, <3>1
      <4>3. Noting' <=> Noting
        BY <4>1
      <4>. QED  BY <2>5, <2>11, <3>1, <4>1, <4>2, <4>3 DEF ListInv, Same
    <3>2. CASE call[c].cmd # "rest" /\ agreed = "yes"
      <4>1. ~Noting /\ ~Coming
        BY <1>3, <2>7, <2>11, <3>2 DEF ListInv, Shape
      <4>2. subscribes = served
        BY <3>2, <4>1 DEF ListInv, Same
      <4>. QED  BY <2>3, <2>4, <2>5, <2>11, <3>2, <4>1, <4>2 DEF Same
    <3>. QED  BY <3>1, <3>2
  <2>10. agreed = "asking" => Asking'
    <3>1. m \in way'
      BY <2>1
    <3>. QED  BY <2>1, <2>2, <2>3, <2>5, <3>1 DEF ListInv, Asking
  <2>. QED  BY <2>1, <2>6, <2>8, <2>9, <2>10 DEF ListInv
<1>7. ASSUME NEW c \in Caller, SendFails(c) PROVE ListInv'
  <2>1. /\ call[c].at = "send" /\ call'[c] = Idle
        /\ UNCHANGED <<way, answers, subscribes, running, served>>
        /\ \A d \in Caller \ {c} : call'[d] = call[d]
        /\ agreed' = IF agreed = "asking" THEN "no" ELSE agreed
    BY <1>7 DEF SendFails, Done, rest, TypeOK
  <2>2. call'[c].at = "idle"
    BY <2>1 DEF Idle
  <2>. QED  BY <2>1, <2>2 DEF ListInv, Shape, OneCommand, Current, Same
<1>8. ASSUME NEW c \in Caller, Note(c) PROVE ListInv'
  <2>1. /\ call[c].at = "note" /\ subscribes' = Noted(call[c]) /\ call'[c] = Idle
        /\ UNCHANGED <<way, answers, running, served, agreed>>
        /\ \A d \in Caller \ {c} : call'[d] = call[d]
    BY <1>8 DEF Note, Done, rest, history, TypeOK
  <2>2. call'[c].at = "idle" /\ call[c] # Idle
    BY <2>1 DEF Idle
  <2>3. /\ call[c].cmd \in {"subscribe", "unsubscribe"}
        /\ subscribes' = Applied(subscribes, call[c]) /\ Subscribing(c)
    BY <2>1, <2>2 DEF ListInv, Shape, Noted
  <2>4. agreed # "no" => ~Noting'
    BY <1>3, <2>1, <2>2, <2>3 DEF ListInv, OneCommand, Shape
  <2>5. agreed = "yes" => Same'
    <3>1. CASE Coming /\ agreed = "yes"
      <4>1. subscribes = served
        BY <2>1, <3>1 DEF ListInv, Same
      <4>2. \A r \in way : r.cmd # "rest" => r.cmd = call[c].cmd /\ r.arg = call[c].arg
        BY <2>3, <3>1 DEF ListInv, OneCommand
      <4>. QED  BY <2>1, <2>3, <2>4, <3>1, <4>1, <4>2 DEF Same
    <3>2. CASE ~Coming /\ agreed = "yes"
      <4>1. served = Applied(subscribes, call[c])
        BY <2>1, <3>2 DEF ListInv, Same
      <4>. QED  BY <2>1, <2>3, <2>4, <3>2, <4>1 DEF Same
    <3>. QED  BY <3>1, <3>2
  <2>. QED  BY <2>1, <2>2, <2>5 DEF ListInv, Shape, OneCommand, Current, Asking
<1>9. ASSUME NEW c \in Caller, Register(c) PROVE ListInv'
  <2>1. /\ call[c].at = "register" /\ call'[c] = Idle
        /\ UNCHANGED <<way, answers, subscribes, running, served, agreed>>
        /\ \A d \in Caller \ {c} : call'[d] = call[d]
    BY <1>9 DEF Register, Done, history, TypeOK
  <2>2. call'[c].at = "idle"
    BY <2>1 DEF Idle
  <2>. QED  BY <2>1, <2>2 DEF ListInv, Shape, OneCommand, Current, Same, Asking
<1>10. ASSUME NEW r \in way, Serve(r) PROVE ListInv'
  <2>1. /\ way' = way \ {r}
        /\ UNCHANGED <<call, subscribes, running, agreed>>
        /\ served' = Applied(served, r)
    BY <1>1, <1>10 DEF Serve, list, rest, history
  <2>2. PICK a : /\ a.cmd = r.cmd /\ a.arg = r.arg /\ a.items = served
                 /\ answers' = IF r.cmd \notin {"list", "rest"} THEN answers ELSE answers \cup {a}
    BY <1>10 DEF Serve
  <2>3. Shape'
    BY <2>1 DEF ListInv, Shape
  <2>4. r.cmd \in {"subscribe", "unsubscribe", "list", "rest"}
    BY <1>1
  <2>5. agreed # "no" => OneCommand'
    <3>1. r \notin answers
      BY DEF TypeOK, Message, Answer
    <3>. QED  BY <2>1, <2>2, <3>1 DEF ListInv, OneCommand
  <2>6. agreed # "no" => Current'
    BY <1>2, <2>1, <2>2, <2>4 DEF ListInv, Current, OneCommand
  <2>7. agreed = "yes" => Same'
    <3>1. CASE r.cmd = "rest"
      BY <2>1, <3>1 DEF ListInv, Same
    <3>2. CASE r.cmd # "rest" /\ agreed = "yes"
      <4>1. ~Coming' /\ Coming
        BY <2>1, <3>2 DEF ListInv, OneCommand
      <4>2. CASE Noting
        <5>1. subscribes = served
          BY <3>2, <4>1, <4>2 DEF ListInv, Same
        <5>2. \A c \in Caller : call[c].at = "note" => call[c].cmd = r.cmd /\ call[c].arg = r.arg
          BY <1>3, <3>2 DEF ListInv, OneCommand, Shape
        <5>. QED  BY <2>1, <4>1, <4>2, <5>1, <5>2 DEF Same
      <4>3. CASE ~Noting
        BY <2>1, <3>2, <4>1, <4>3 DEF ListInv, Same
      <4>. QED  BY <4>2, <4>3
    <3>. QED  BY <3>1, <3>2
  <2>8. agreed = "asking" => Asking'
    BY <2>1, <2>2 DEF ListInv, Asking
  <2>. QED  BY <2>1, <2>3, <2>5, <2>6, <2>7, <2>8 DEF ListInv
<1>11. CASE Lose
  <2>1. /\ way' = {} /\ answers' = {} /\ agreed' = IF Quiet THEN agreed ELSE "no"
        /\ UNCHANGED <<call, subscribes, running, served>>
    BY <1>11 DEF Lose, list, rest
  <2>2. Quiet => ~Coming /\ agreed # "asking"
    BY DEF Quiet, ListInv, Asking
  <2>. QED  BY <2>1, <2>2 DEF ListInv, Shape, OneCommand, Current, Same
<1>12. ASSUME NEW a \in answers, HandleList(a) PROVE ListInv'
  <2>1. /\ a.cmd = "list" /\ subscribes' = a.items /\ answers' = answers \ {a}
        /\ UNCHANGED <<call, way, running, served>>
        /\ agreed' = IF agreed = "asking" THEN "yes" ELSE agreed
    BY <1>12 DEF HandleList, SetSubscribersList, rest
  <2>2. agreed # "no" => a.items = served /\ ~Coming'
    <3>1. agreed # "no" => ~Coming
      <4>. SUFFICES ASSUME agreed # "no", NEW r \in way, r.cmd # "rest" PROVE FALSE
        OBVIOUS
      <4>1. r = a
        BY <2>1 DEF ListInv, OneCommand
      <4>2. a \notin way
        BY DEF TypeOK, Message, Answer
      <4>. QED  BY <4>1, <4>2
    <3>. QED  BY <2>1, <3>1 DEF ListInv, Current
  <2>3. agreed # "no" => ~Noting'
    BY <1>3, <2>1 DEF ListInv, OneCommand, Shape
  <2>4. agreed # "no" => Same'
    BY <2>1, <2>2, <2>3 DEF Same
  <2>. QED  BY <2>1, <2>4 DEF ListInv, Shape, OneCommand, Current
<1>13. ASSUME NEW a \in answers, RunHandler(a) \/ NoHandler(a) PROVE ListInv'
  <2>1. /\ a.cmd = "rest" /\ answers' = answers \ {a}
        /\ UNCHANGED <<call, way, subscribes, served, agreed>>
        /\ running' = running \/ running'.of = a
    BY <1>2, <1>13 DEF RunHandler, NoHandler, HandlerOf, list, rest, history
  <2>. QED  BY <2>1 DEF ListInv, Shape, OneCommand, Current, Same, Asking
<1>14. CASE HandlerReturns
  <2>1. running' = None /\ UNCHANGED <<call, way, answers, subscribes, served, agreed>>
    BY <1>14 DEF HandlerReturns, ListInv, Shape
  <2>. QED  BY <2>1 DEF ListInv, Shape, OneCommand, Current, Same, Asking
<1>15. CASE UNCHANGED <<call, way, answers, subscribes, running, served, agreed>>
  BY <1>15 DEF ListInv, Shape, OneCommand, Current, Same, Asking
<1>16. ASSUME NEW t \in timers, Timer(t)
       PROVE  UNCHANGED <<call, way, answers, subscribes, running, served, agreed>>
  BY <1>16 DEF Timer, list
<1>. QED
  BY <1>4, <1>5, <1>6, <1>7, <1>8, <1>9, <1>10, <1>11, <1>12, <1>13, <1>14, <1>15, <1>16
     DEF Next, Returns, vars, list, rest, history

\* A list that the server sent when nothing else was under way makes the two
\* lists the same, and they stay so, for any number of threads and items, as long
\* as the commands wait for each other and none is lost.
THEOREM ListsStayTheSame == Spec => []ListsAgree
<1>1. Init => TypeOK /\ ListInv
  <2>. SUFFICES ASSUME Init PROVE TypeOK /\ ListInv
    OBVIOUS
  <2>1. TypeOK
    BY DEF Init, TypeOK, Hash
  <2>2. \A c \in Caller : call[c] = Idle /\ call[c].at = "idle"
    BY DEF Init, Idle
  <2>. QED  BY <2>1, <2>2 DEF Init, ListInv, Shape, OneCommand, Current, Same, Asking, Subscribing,
            Noting, Coming
<1>2. TypeOK /\ ListInv => ListsAgree
  BY DEF TypeOK, ListInv, Same, Shape, Noting, Coming, ListsAgree, Quiet, Idle
<1>. QED  BY <1>1, TypeStep, ListStep, <1>2, PTL DEF Spec

==============================================================================
