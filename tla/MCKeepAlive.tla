----------------------------- MODULE MCKeepAlive -----------------------------
(* Instances of KeepAlive; every constant is given in the .cfg files.        *)
EXTENDS KeepAlive
=============================================================================
