---------------------------- MODULE ObjectStore ----------------------------
(***************************************************************************)
(* What the database promises to the threads of a node: one store, which   *)
(* every call reads or changes at a single moment between its beginning    *)
(* and its end.  An update touches only an object that is there.  To       *)
(* insert an object that is there already either does nothing or replaces  *)
(* it.  Nothing is promised about what is left after a stop.               *)
(***************************************************************************)
CONSTANTS Caller, Key, Value, None

VARIABLES
    open,      \* whether the node runs
    store,     \* the object at each key
    call,      \* the call each caller has in progress
    done,      \* whether that call has had its effect
    answer     \* what a read in progress has found

vars == <<open, store, call, done, answer>>

Object == Value \cup {None}
Call == [op : {"get", "insert", "update", "delete"}, key : Key, value : Object]

Init ==
    /\ open = TRUE
    /\ store \in [Key -> Object]
    /\ call = [c \in Caller |-> None]
    /\ done = [c \in Caller |-> FALSE]
    /\ answer = [c \in Caller |-> None]

Begin(c) ==
    /\ open /\ call[c] = None
    /\ call' \in {[call EXCEPT ![c] = r] : r \in Call}
    /\ UNCHANGED <<open, store, done, answer>>

\* The objects a call may leave at its key.
Effect(r) ==
    CASE r.op = "get"    -> {store[r.key]}
      [] r.op = "delete" -> {None}
      [] r.op = "update" -> {IF store[r.key] = None THEN None ELSE r.value}
      [] r.op = "insert" -> {r.value} \cup ({store[r.key]} \ {None})

Do(c) ==
    /\ call[c] # None /\ ~done[c]
    /\ done' = [done EXCEPT ![c] = TRUE]
    /\ \E o \in Effect(call[c]) : store' = [store EXCEPT ![call[c].key] = o]
    /\ answer' = IF call[c].op = "get"
                 THEN [answer EXCEPT ![c] = store[call[c].key]]
                 ELSE answer
    /\ UNCHANGED <<open, call>>

End(c) ==
    /\ done[c]
    /\ call' = [call EXCEPT ![c] = None]
    /\ done' = [done EXCEPT ![c] = FALSE]
    /\ answer' = [answer EXCEPT ![c] = None]
    /\ UNCHANGED <<open, store>>

Stop ==
    /\ open /\ \A c \in Caller : call[c] = None
    /\ open' = FALSE
    /\ store' \in [Key -> Object]
    /\ UNCHANGED <<call, done, answer>>

Start ==
    /\ ~open
    /\ open' = TRUE
    /\ UNCHANGED <<store, call, done, answer>>

Next == Stop \/ Start \/ \E c \in Caller : Begin(c) \/ Do(c) \/ End(c)

Spec == Init /\ [][Next]_vars
=============================================================================
