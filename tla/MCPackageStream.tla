-------------------------- MODULE MCPackageStream --------------------------
(* Instances of PackageStream for TLC: the sizes of the messages. *)
EXTENDS PackageStream

\* "big" is one byte longer than SizeLimit (4) admits: its size is cut to 1.
MCSize == [m \in Message |-> CASE m = "a" -> 1
                               [] m = "b" -> 2
                               [] m = "c" -> 3
                               [] m = "big" -> 5
                               [] OTHER -> 1]
=============================================================================
