---------------------------- MODULE ClientRequests ----------------------------
(***************************************************************************)
(* SingleClient beside its session: requests with a handler for the answer *)
(* (restRequest) and the local list of subscriptions (subscribe,           *)
(* unsubscribe, syncSybscribeListWithServer).  Threads of the application  *)
(* call it, a worker of the client works with an answer, and the server    *)
(* serves requests in the threads of its pool, so in any order.            *)
(*                                                                         *)
(* The user stays logged in.  A handler is a function of the application   *)
(* that calls nothing of the client.  A request is named by its number,    *)
(* and its hash is the hash of its data: equal requests have equal hashes. *)
(***************************************************************************)
EXTENDS Naturals, FiniteSets

CONSTANTS
    Caller,         \* threads of the application
    Item,           \* items to subscribe to
    Query,          \* data of the requests that have a handler
    List,           \* data of a request for the list of subscriptions
    None,
    MaxRequests     \* bound on the requests

ASSUME ClientAssumption == List \notin Query /\ MaxRequests \in Nat

VARIABLES
    call,       \* what each caller is doing
    sent,       \* number of requests so far, with those that failed
    way,        \* requests on their way to the server
    answers,    \* answers on their way, or waiting for a worker of the client
    subscribes, \* _subscribes
    lockS,      \* who holds _subscribesMutex
    handlers,   \* _handlersCache: hash -> number of the request, or 0
    running,    \* the handler that runs, with _handlerCacheMutex held
    timers,     \* requests whose timer runs, with their hashes
    served,     \* the server's items of this user
    heard, ran, expired,    \* history: requests whose answer was worked with,
                            \* whose handler has run, whose timer has fired
    agreed      \* history: do the two lists have to agree?

list == <<subscribes, lockS>>
rest == <<handlers, running, timers>>
history == <<heard, ran, expired, agreed>>
vars == <<call, sent, way, answers, list, rest, served, history>>

Number == 1 .. MaxRequests
Idle == [at |-> "idle"]
Done(c) == call' = [call EXCEPT ![c] = Idle]

\* The commands about subscriptions, and a request with a handler.
Command == [cmd : {"subscribe", "unsubscribe"}, arg : Item]
           \cup [cmd : {"list"}, arg : {List}] \cup [cmd : {"rest"}, arg : Query]

Init ==
    /\ call = [c \in Caller |-> Idle]
    /\ sent = 0 /\ way = {} /\ answers = {}
    /\ subscribes = {} /\ lockS = None
    /\ handlers = [h \in Query \cup {List} |-> 0]
    /\ running = None /\ timers = {}
    /\ served = {}
    /\ heard = {} /\ ran = {} /\ expired = {} /\ agreed = "yes"

\* Nothing about subscriptions is under way.
Quiet ==
    /\ \A c \in Caller : call[c] = Idle \/ call[c].cmd = "rest"
    /\ \A r \in way \cup answers : r.cmd = "rest"

----------------------------------------------------------------------------
(* The callers.                                                            *)

\* A call begins; one about subscriptions that does not wait for the others
\* may leave the lists different, and so may one that is lost.  Asking for the
\* list while nothing else is under way makes them agree.
Begin(c) ==
    /\ call[c] = Idle /\ sent + Cardinality({d \in Caller : call[d] # Idle}) < MaxRequests
    /\ \E r \in Command :
        /\ call' = [call EXCEPT ![c] = [at |-> IF r.cmd = "list" THEN "lock" ELSE "send",
                                        cmd |-> r.cmd, arg |-> r.arg, id |-> 0]]
        /\ agreed' = IF r.cmd = "rest" THEN agreed
                     ELSE IF ~Quiet THEN "no"
                     ELSE IF r.cmd = "list" /\ agreed = "no" THEN "asking" ELSE agreed
    /\ UNCHANGED <<sent, way, answers, list, rest, served, heard, ran, expired>>

\* syncSybscribeListWithServer: the mutex is held until restRequest returns.
Lock(c) ==
    /\ call[c].at = "lock" /\ lockS = None
    /\ lockS' = c
    /\ call' = [call EXCEPT ![c].at = "send"]
    /\ UNCHANGED <<sent, way, answers, subscribes, rest, served, history>>

Unlocked(c) == IF lockS = c THEN None ELSE lockS

\* sendData succeeds; the answer may come before the caller goes on.
Send(c) ==
    /\ call[c].at = "send"
    /\ sent' = sent + 1
    /\ way' = way \cup {[id |-> sent', cmd |-> call[c].cmd, arg |-> call[c].arg]}
    /\ call' = [call EXCEPT ![c].id = sent',
                            ![c].at = IF call[c].cmd \in {"list", "rest"} THEN "register"
                                      ELSE "note"]
    /\ UNCHANGED <<answers, list, rest, served, history>>

\* sendData fails: the call returns false.
SendFails(c) ==
    /\ call[c].at = "send"
    /\ sent' = sent + 1
    /\ lockS' = Unlocked(c) /\ Done(c)
    /\ agreed' = IF agreed = "asking" THEN "no" ELSE agreed
    /\ UNCHANGED <<way, answers, subscribes, rest, served, heard, ran, expired>>

\* addToSubscribesList, removeFromSubscribesList.
Noted(r) == IF r.cmd = "subscribe" THEN subscribes \cup {r.arg} ELSE subscribes \ {r.arg}

\* The end of subscribe and of unsubscribe.
Note(c) ==
    /\ call[c].at = "note" /\ lockS = None
    /\ subscribes' = Noted(call[c])
    /\ Done(c)
    /\ UNCHANGED <<sent, way, answers, lockS, rest, served, history>>

\* The end of restRequest: an equal request's handler is replaced.
Register(c) ==
    /\ call[c].at = "register" /\ running = None
    /\ handlers' = [handlers EXCEPT ![call[c].arg] = call[c].id]
    /\ timers' = timers \cup {[id |-> call[c].id, hash |-> call[c].arg]}
    /\ lockS' = Unlocked(c) /\ Done(c)
    /\ UNCHANGED <<sent, way, answers, subscribes, running, served, history>>

\* The timer of a request removes whatever handler its hash has by then.
Timer(t) ==
    /\ t \in timers /\ running = None
    /\ timers' = timers \ {t}
    /\ handlers' = [handlers EXCEPT ![t.hash] = 0]
    /\ expired' = expired \cup {t.id}
    /\ UNCHANGED <<call, sent, way, answers, list, running, served, heard, ran, agreed>>

----------------------------------------------------------------------------
(* The server, and the messages.                                           *)

\* workWithSubscribe, or whatever answers a request of the application.
Serve(r) ==
    /\ r \in way
    /\ way' = way \ {r}
    /\ served' = CASE r.cmd = "subscribe" -> served \cup {r.arg}
                   [] r.cmd = "unsubscribe" -> served \ {r.arg}
                   [] OTHER -> served
    /\ answers' = IF r.cmd \notin {"list", "rest"} THEN answers
                  ELSE answers \cup {[id |-> r.id, cmd |-> r.cmd, arg |-> r.arg,
                                      items |-> served]}
    /\ UNCHANGED <<call, sent, list, rest, history>>

\* The connection breaks: what was on its way is lost.
Lose ==
    /\ way \cup answers # {}
    /\ way' = {} /\ answers' = {}
    /\ agreed' = IF Quiet THEN agreed ELSE "no"
    /\ UNCHANGED <<call, sent, list, rest, served, heard, ran, expired>>

----------------------------------------------------------------------------
(* The workers of the client.                                              *)

\* Mutant: the list is united with what is there.
SetSubscribersListUnited(ids) == subscribes' = subscribes \cup ids

SetSubscribersList(ids) == subscribes' = ids

\* Mutant: the list of subscriptions is handed to the handler of its request.
HandlerOfAny(a) == handlers[a.arg]

\* The list of subscriptions is sent without the hash of its request, and
\* parsePackage works with it before it looks at the handlers.
HandlerOf(a) == IF a.cmd = "list" THEN 0 ELSE handlers[a.arg]

\* WebSocketSubscriptions.
HandleList(a) ==
    /\ a \in answers /\ a.cmd = "list" /\ HandlerOf(a) = 0 /\ lockS = None
    /\ SetSubscribersList(a.items)
    /\ answers' = answers \ {a}
    /\ heard' = heard \cup {a.id}
    /\ agreed' = IF agreed = "asking" THEN "yes" ELSE agreed
    /\ UNCHANGED <<call, sent, way, lockS, rest, served, ran, expired>>

\* Mutant: the handler stays in the cache.
TakeNot(hash) == handlers

Take(hash) == [handlers EXCEPT ![hash] = 0]

\* handleRestRequest finds a handler and runs it ...
RunHandler(a) ==
    /\ a \in answers /\ running = None /\ HandlerOf(a) # 0
    /\ running' = [id |-> HandlerOf(a), of |-> a]
    /\ handlers' = Take(a.arg)
    /\ answers' = answers \ {a}
    /\ UNCHANGED <<call, sent, way, list, timers, served, history>>

\* ... and the handler returns.  A handler that syncSybscribeListWithServer
\* has registered would set the list.
HandlerReturns ==
    /\ running # None
    /\ IF running.of.cmd = "list" THEN lockS = None /\ SetSubscribersList(running.of.items)
       ELSE subscribes' = subscribes
    /\ running' = None
    /\ ran' = ran \cup {running.id}
    /\ heard' = heard \cup {running.of.id}
    /\ UNCHANGED <<call, sent, way, answers, lockS, handlers, timers, served, expired, agreed>>

\* Nobody waits for the answer.
NoHandler(a) ==
    /\ a \in answers /\ a.cmd = "rest" /\ running = None /\ HandlerOf(a) = 0
    /\ answers' = answers \ {a}
    /\ heard' = heard \cup {a.id}
    /\ UNCHANGED <<call, sent, way, list, rest, served, ran, expired, agreed>>

----------------------------------------------------------------------------

Returns(c) == Lock(c) \/ Send(c) \/ SendFails(c) \/ Note(c) \/ Register(c)

Next ==
    \/ \E c \in Caller : Begin(c) \/ Returns(c)
    \/ \E t \in timers : Timer(t)
    \/ \E r \in way : Serve(r)
    \/ Lose
    \/ \E a \in answers : HandleList(a) \/ RunHandler(a) \/ NoHandler(a)
    \/ HandlerReturns

Spec == Init /\ [][Next]_vars

\* Threads run on, a handler returns, and a timer fires in the end.
FairSpec ==
    /\ Spec /\ WF_vars(HandlerReturns)
    /\ \A c \in Caller : WF_vars(Returns(c))
    /\ \A h \in Query \cup {List} : \A id \in Number :
            WF_vars(Timer([id |-> id, hash |-> h]))

----------------------------------------------------------------------------

\* A handler of restRequest runs at most once, also when equal requests share
\* a hash and each of them is answered (QHash::take in handleRestRequest).
HandlerRunsOnce == running # None => running.id \notin ran

\* A list that the server sent when nothing else was under way replaces what
\* the client had, right or wrong; and the two lists agree from then on, as
\* long as calls wait for each other and no message is lost
\* (setSubscribersList, subscribe and unsubscribe against workWithSubscribe).
ListsAgree == agreed = "yes" /\ Quiet => subscribes = served

\* Every call returns, although sync holds one mutex while it asks for the
\* other and handlers run under that one; and no handler stays for ever.
CallsEnd ==
    /\ \A c \in Caller : call[c] # Idle ~> call[c] = Idle
    /\ \A h \in Query \cup {List} : handlers[h] # 0 ~> handlers[h] = 0

\* The handler of a request has run once its answer was worked with, unless
\* its time was over (singleclient.h: "This function invoked when client
\* receive from server response of the sent request").
HandlerInvoked == heard \subseteq ran \cup expired
=============================================================================
