------------------------------ MODULE MCPackages ------------------------------
(* Packages with the classes a node and its application register. *)
EXTENDS Packages

Packaged == Class \ (Standalone \cup PermissionClasses \cup {"SetSingleValue", "NetworkMember"})
=============================================================================
