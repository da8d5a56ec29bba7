------------------------------ MODULE Delivery ------------------------------
(***************************************************************************)
(* What a connection promises to the code above it: the packages a peer    *)
(* sent are handed to the package workers in the order they were sent,     *)
(* none of them twice and none that was not sent.  Until the connection    *)
(* becomes lossy, which it may do at any time, none is left out.           *)
(*                                                                         *)
(* A package is identified by its position in `sent'.                      *)
(***************************************************************************)
EXTENDS Naturals, Sequences

CONSTANTS
    Message     \* the contents a package can carry

VARIABLES
    sent,       \* the packages sent so far
    delivered,  \* positions in sent of the packages handed to the workers
    lossy       \* whether packages may be skipped

vars == <<sent, delivered, lossy>>

\* The position of the package delivered last (0 before the first).
LastDelivered == IF delivered = <<>> THEN 0 ELSE delivered[Len(delivered)]

Init ==
    /\ sent = <<>>
    /\ delivered = <<>>
    /\ lossy = FALSE

Send ==
    /\ \E m \in Message : sent' = Append(sent, m)
    /\ UNCHANGED <<delivered, lossy>>

Deliver ==
    \E n \in LastDelivered + 1 .. Len(sent) :
        /\ ~lossy => n = LastDelivered + 1
        /\ delivered' = Append(delivered, n)
        /\ UNCHANGED <<sent, lossy>>

BecomeLossy ==
    /\ lossy' = TRUE
    /\ UNCHANGED <<sent, delivered>>

Next == Send \/ Deliver \/ BecomeLossy

Spec == Init /\ [][Next]_vars

\* A connection that does not lose packages keeps handing them over.
FairSpec == Spec /\ WF_vars(~lossy /\ Deliver)
=============================================================================
