--------------------------- MODULE MCPublicKeyMap ---------------------------
(* Two files and two keys: the directory changes twice and a read fails.   *)
EXTENDS PublicKeyMap
=============================================================================
