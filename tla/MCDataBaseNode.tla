---------------------------- MODULE MCDataBaseNode ----------------------------
(* DataBaseNode with the pairs of permission levels the code grants. *)
EXTENDS DataBaseNode

SomeGrants == {<<Write, Read>>, <<Read, 0>>}
=============================================================================
