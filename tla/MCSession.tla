----------------------------- MODULE MCSession ------------------------------
(* Instances of Session for TLC. *)
EXTENDS Session, TLC

Symmetry == Permutations(Worker) \cup Permutations(Token) \cup Permutations(Conn)
=============================================================================
