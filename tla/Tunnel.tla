------------------------------ MODULE Tunnel ------------------------------
(***************************************************************************)
(* What relay_bidirectional (src/src/relay.rs) promises to the code that   *)
(* calls it, without its pumps, buffers and clocks: two byte streams that  *)
(* end independently of each other.  Relay implements it, and Session uses *)
(* it for the last phase of a client's connection.                         *)
(***************************************************************************)
EXTENDS Integers, Sequences

CONSTANT IdleTimeout    \* 0 is None

VARIABLES
    inflight,  \* bytes the endpoint has sent that are still on their way
    arrived,   \* bytes handed over towards the other endpoint
    eof,       \* the endpoint has shut down its sending side
    fin,       \* the end of its stream has been passed on
    reset,     \* endpoints whose connection has failed
    tunnel     \* "none", "open", or how the relay ended

Endpoints == {"client", "upstream"}

vars == <<inflight, arrived, eof, fin, reset, tunnel>>

Other(d) == CHOOSE e \in Endpoints : e # d

Init ==
    /\ inflight = [d \in Endpoints |-> <<>>]
    /\ arrived = [d \in Endpoints |-> <<>>]
    /\ eof = [d \in Endpoints |-> FALSE]
    /\ fin = [d \in Endpoints |-> FALSE]
    /\ reset = {}
    /\ tunnel = "open"

\* Some of the bytes on their way arrive, in order.
Forward(d) ==
    /\ tunnel = "open"
    /\ Other(d) \notin reset
    /\ \E n \in 1..Len(inflight[d]) :
          /\ arrived' = [arrived EXCEPT ![d] =
                            @ \o SubSeq(inflight[d], 1, n)]
          /\ inflight' = [inflight EXCEPT ![d] = SubSeq(@, n + 1, Len(@))]
    /\ UNCHANGED <<eof, fin, reset, tunnel>>

\* The end of a stream follows its last byte, once; the relay is complete
\* when both ends have been passed on.
ForwardEof(d) ==
    /\ tunnel = "open"
    /\ eof[d] /\ ~fin[d] /\ d \notin reset
    /\ inflight[d] = <<>>
    /\ fin' = [fin EXCEPT ![d] = TRUE]
    /\ tunnel' = IF fin[Other(d)] THEN "complete" ELSE tunnel
    /\ UNCHANGED <<inflight, arrived, eof, reset>>

\* Only a failed connection makes the relay fail ...
Fail ==
    /\ tunnel = "open"
    /\ reset # {}
    /\ tunnel' = "failed"
    /\ UNCHANGED <<inflight, arrived, eof, fin, reset>>

\* ... and only a configured timeout ends it as idle.
TimeOut ==
    /\ tunnel = "open"
    /\ IdleTimeout # 0
    /\ tunnel' = "idle"
    /\ UNCHANGED <<inflight, arrived, eof, fin, reset>>

\* The endpoint sends some bytes.
Send(d, s) ==
    /\ ~eof[d] /\ d \notin reset
    /\ inflight' = [inflight EXCEPT ![d] = @ \o s]
    /\ UNCHANGED <<arrived, eof, fin, reset, tunnel>>

CloseSending(d) ==
    /\ ~eof[d] /\ d \notin reset
    /\ eof' = [eof EXCEPT ![d] = TRUE]
    /\ UNCHANGED <<inflight, arrived, fin, reset, tunnel>>

\* A connection fails: the bytes received last from it may be lost.
Reset(d) ==
    /\ d \notin reset
    /\ reset' = reset \union {d}
    /\ \E n \in 0..Len(inflight[d]) :
          inflight' = [inflight EXCEPT ![d] = SubSeq(@, 1, n)]
    /\ UNCHANGED <<arrived, eof, fin, tunnel>>

Next ==
    \/ \E d \in Endpoints :
          \/ Forward(d)
          \/ ForwardEof(d)
          \/ Send(d, <<Len(arrived[d]) + Len(inflight[d]) + 1>>)
          \/ CloseSending(d)
          \/ Reset(d)
    \/ Fail
    \/ TimeOut

Spec == Init /\ [][Next]_vars

=============================================================================
