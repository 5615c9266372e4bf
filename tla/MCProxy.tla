------------------------------ MODULE MCProxy ------------------------------
(* Instances of Proxy for TLC; the values are in the .cfg files.           *)
EXTENDS Proxy
=============================================================================
