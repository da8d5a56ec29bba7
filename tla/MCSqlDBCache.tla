---------------------------- MODULE MCSqlDBCache ----------------------------
(* Instances of SqlDBCache for TLC. *)
EXTENDS SqlDBCache, TLC

\* The contents of the objects are interchangeable.
ValueSymmetry == Permutations(Value)
=============================================================================
