------------------------------ MODULE MCRelay ------------------------------
(* Instances of Relay for TLC.                                             *)
EXTENDS Relay

BothSend == [client |-> 3, upstream |-> 2]
ClientSends == [client |-> 3, upstream |-> 0]
=============================================================================
