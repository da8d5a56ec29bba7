-------------------------- MODULE MCNodeConnection --------------------------
(* Instances of NodeConnection for TLC. *)
EXTENDS NodeConnection, TLC

\* The sockets are interchangeable (used where no liveness is checked).
SocketSymmetry == Permutations(Socket)
=============================================================================
