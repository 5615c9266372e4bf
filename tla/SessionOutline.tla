--------------------------- MODULE SessionOutline ---------------------------
(***************************************************************************)
(* What Proxy::handle_client (src/src/server.rs) promises a client: one    *)
(* reply at most, and a tunnel only after a 200.  Session implements it;   *)
(* Proxy composes it with the accept loop.                                 *)
(***************************************************************************)
EXTENDS Naturals

CONSTANT Clients

VARIABLES
    phase,   \* how far each client's session has come
    reply    \* the status sent to it, 0 before there is one

vars == <<phase, reply>>

Phases == {"reading", "opening", "open", "over"}

Init ==
    /\ phase = [c \in Clients |-> "reading"]
    /\ reply = [c \in Clients |-> 0]

Move(c, from, to) ==
    /\ phase[c] = from
    /\ phase' = [phase EXCEPT ![c] = to]

Answer(c, status) == reply' = [reply EXCEPT ![c] = status]

\* The request is refused, or the client is gone before it can be.
Refuse(c) ==
    /\ Move(c, "reading", "over")
    /\ Answer(c, 400) \/ Answer(c, 405) \/ UNCHANGED reply

\* The request is a valid CONNECT.
Begin(c) == Move(c, "reading", "opening") /\ UNCHANGED reply

\* establish_tunnel fails, or the client is gone before it is told.
GiveUp(c) ==
    /\ Move(c, "opening", "over")
    /\ Answer(c, 502) \/ UNCHANGED reply

Open(c) == Move(c, "opening", "open") /\ Answer(c, 200)

End(c) == Move(c, "open", "over") /\ UNCHANGED reply

Settle(c) == GiveUp(c) \/ Open(c)

Step(c) == Refuse(c) \/ Begin(c) \/ Settle(c) \/ End(c)

Next == \E c \in Clients : Step(c)

Spec == Init /\ [][Next]_vars

=============================================================================
