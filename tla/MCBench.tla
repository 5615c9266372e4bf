------------------------------ MODULE MCBench ------------------------------
(* An instance of Bench for TLC; the values are in the .cfg file.          *)
EXTENDS Bench
=============================================================================
