------------------------------- MODULE Proxy -------------------------------
(***************************************************************************)
(* The accept loop with the sessions it spawns: Listener and, for every    *)
(* client, the SessionOutline that Session implements.  A task holds its   *)
(* permit until handle_client returns, and reading the request head has no *)
(* timeout, so a client that says nothing holds a permit for as long as it *)
(* likes.                                                                  *)
(***************************************************************************)
EXTENDS Naturals, Sequences, FiniteSets

CONSTANTS
    Clients, MaxConnections,    \* see Listener
    Silent                      \* clients that connect and send nothing

ASSUME SilentAreClients == Silent \subseteq Clients

VARIABLES
    loop, connections, backlog, task, shutdown, process, late,  \* Listener
    phase, reply                                         \* SessionOutline

L == INSTANCE Listener
S == INSTANCE SessionOutline

accepting == <<loop, connections, backlog, task, shutdown, process, late>>
session == <<phase, reply>>
vars == <<accepting, session>>

Init == L!Init /\ S!Init

Loop == L!Loop /\ UNCHANGED session

\* A new connection is a new session.
Connect(c) ==
    /\ L!Connect(c)
    /\ phase' = [phase EXCEPT ![c] = "reading"]
    /\ reply' = [reply EXCEPT ![c] = 0]

\* Mistake: the request head is read in the accept loop, before the spawn.
LoopReads(c) ==
    /\ task[c] = "running"
    /\ \A x \in Clients \ {c} : task[x] = "running" => phase[x] # "reading"

\* A spawned task runs whatever the other tasks are waiting for.
Spawned(c) == task[c] = "running"

\* A step of the task that serves c.
Serve(c) ==
    /\ process = "up" /\ Spawned(c)
    /\ phase[c] = "reading" => c \notin Silent
    /\ S!Step(c)
    /\ UNCHANGED accepting

Finish(c) ==
    /\ phase[c] = "over"
    /\ L!Finish(c)
    /\ UNCHANGED session

\* A silent client hangs up: read_request_head fails.
HangUp(c) ==
    /\ process = "up" /\ c \in Silent /\ task[c] = "running"
    /\ S!Refuse(c)
    /\ UNCHANGED accepting

Process == (L!Shutdown \/ L!MainReturns \/ L!Exited) /\ UNCHANGED session

Next ==
    \/ Loop
    \/ \E c \in Clients : Connect(c) \/ Serve(c) \/ Finish(c) \/ HangUp(c)
    \/ Process

\* Tasks are polled; what a session waits for happens or times out, except
\* for the head of a silent client, who may hang up but need not.
Spec ==
    /\ Init /\ [][Next]_vars
    /\ WF_vars(Loop)
    /\ \A c \in Clients : WF_vars(Serve(c)) /\ WF_vars(Finish(c))

-----------------------------------------------------------------------------
(***************************************************************************)
(* Properties                                                              *)
(***************************************************************************)

\* While fewer clients are silent than there are permits, every client in the
\* backlog is accepted in turn or reset by the end of serve_until, however
\* long the silent ones stay.
ServedDespiteSilence ==
    \A c \in Clients : (task[c] = "queued") ~> (task[c] # "queued")

\* The session of a client that speaks ends, whatever the others do: no task
\* waits for another.
SpeakerSettles ==
    \A c \in Clients \ Silent :
        (task[c] = "running") ~> (task[c] # "running")

=============================================================================
