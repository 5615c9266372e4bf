----------------------------- MODULE MCListener -----------------------------
(* Instances of Listener for TLC; the values are in the .cfg files.        *)
EXTENDS Listener
=============================================================================
