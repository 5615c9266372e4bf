------------------------------ MODULE Listener ------------------------------
(***************************************************************************)
(* The accept loop of the proxy: Proxy::serve_until (src/src/server.rs),   *)
(* the semaphore that bounds simultaneous clients, the tasks it spawns,    *)
(* and main's return, which drops the runtime under those tasks.           *)
(*                                                                         *)
(* What a task does with its client is AuthExchange's and Relay's concern: *)
(* here it runs for a while and ends.                                      *)
(***************************************************************************)
EXTENDS Naturals, Sequences, FiniteSets

CONSTANTS
    Clients,          \* the applications that may connect to the proxy
    MaxConnections    \* config.max_connections

ASSUME ClientsFinite == IsFiniteSet(Clients)

\* main refuses --max-connections 0.
ASSUME MaxConnectionsPositive == MaxConnections \in Nat \ {0}

VARIABLES
    loop,         \* where serve_until is
    connections,  \* free permits of the semaphore
    backlog,      \* the listener's queue of clients not yet accepted
    task,         \* what each client's connection has come to
    shutdown,     \* the shutdown future has completed
    process,      \* whether main has returned
    late          \* history: clients accepted after shutdown completed

vars == <<loop, connections, backlog, task, shutdown, process, late>>

(***************************************************************************)
(* The definitions marked `Mistake' are not part of the specification.  *)
(* Each is the definition after it with a plausible bug, and breaks one of *)
(* the properties.                                                         *)
(*                                                                         *)
(* Each of the two `biased` selects is polled in two steps: the shutdown   *)
(* branch first ("permit", "listen"), the other branch next ("acquire",    *)
(* "accept").  A poll that finds neither branch ready starts over when the *)
(* task is woken.  The signal arrives on another thread, so shutdown can   *)
(* complete between the two halves of one poll.                            *)
(***************************************************************************)
LoopStates == {"permit", "acquire", "listen", "accept", "returned"}

TaskStates == {"none", "queued", "running", "finished", "reset", "aborted"}

\* `permit` is a local of the loop from the first select to the spawn.
LoopHoldsPermit == loop \in {"listen", "accept"}

Running == {c \in Clients : task[c] = "running"}

\* Proxy::with_auth_factory and the start of serve_until.
Init ==
    /\ loop = "permit"
    /\ connections = MaxConnections
    /\ backlog = <<>>
    /\ task = [c \in Clients |-> "none"]
    /\ shutdown = FALSE
    /\ process = "up"
    /\ late = 0

(***************************************************************************)
(* serve_until                                                             *)
(***************************************************************************)

\* Any return drops the permit the loop holds and the listener: the kernel
\* resets the clients still in its backlog.
Return ==
    /\ loop' = "returned"
    /\ connections' = connections + (IF LoopHoldsPermit THEN 1 ELSE 0)
    /\ backlog' = <<>>
    /\ task' = [c \in Clients |->
                    IF task[c] = "queued" THEN "reset" ELSE task[c]]
    /\ UNCHANGED <<shutdown, process, late>>

\* Mistake: `biased` is missing, so that a completed shutdown may lose.
PollShutdownUnbiased(from, to) ==
    /\ loop = from
    /\ \/ shutdown /\ Return
       \/ /\ loop' = to
          /\ UNCHANGED <<connections, backlog, task, shutdown, process, late>>

\* The first branch of a biased select: a completed shutdown always wins.
PollShutdown(from, to) ==
    /\ loop = from
    /\ \/ shutdown /\ Return
       \/ /\ ~shutdown
          /\ loop' = to
          /\ UNCHANGED <<connections, backlog, task, shutdown, process, late>>

\* Mistake: the permit is awaited outside a select.
SelectPermitAlone ==
    /\ loop = "permit"
    /\ loop' = "acquire"
    /\ UNCHANGED <<connections, backlog, task, shutdown, process, late>>

SelectPermit == PollShutdown("permit", "acquire")

\* The second branch of the first select: take a permit, or wait for one.
AcquirePermit ==
    /\ loop = "acquire"
    /\ \/ /\ connections > 0
          /\ loop' = "listen"
          /\ connections' = connections - 1
       \/ /\ connections = 0
          /\ loop' = "permit"
          /\ UNCHANGED connections
    /\ UNCHANGED <<backlog, task, shutdown, process, late>>

SelectAccept == PollShutdown("listen", "accept")

\* Mistake: the permit is released as soon as the client is accepted.
PermitDropped == connections' = connections + 1

\* The permit that the loop holds moves into the task.
PermitMoved == UNCHANGED connections

\* The second branch of the second select: the client is accepted and the
\* permit moves into the task spawned for it.
Accept ==
    /\ loop = "accept"
    /\ backlog # <<>>
    /\ loop' = "permit"
    /\ task' = [task EXCEPT ![Head(backlog)] = "running"]
    /\ backlog' = Tail(backlog)
    /\ late' = late + (IF shutdown THEN 1 ELSE 0)
    /\ PermitMoved
    /\ UNCHANGED <<shutdown, process>>

AcceptPending ==
    /\ loop = "accept"
    /\ backlog = <<>>
    /\ loop' = "listen"
    /\ UNCHANGED <<connections, backlog, task, shutdown, process, late>>

\* `accepted?`: an accept error ends the loop.
AcceptError ==
    /\ loop = "accept"
    /\ Return

Loop ==
    \/ SelectPermit
    \/ AcquirePermit
    \/ SelectAccept
    \/ Accept
    \/ AcceptPending
    \/ AcceptError

(***************************************************************************)
(* The spawned tasks, main, and the world around them                      *)
(***************************************************************************)

\* Mistake: the permit is forgotten.
PermitLeaked == UNCHANGED connections

PermitReleased == connections' = connections + 1

\* handle_client returns (or panics): dropping the task drops its permit.
Finish(c) ==
    /\ process = "up"
    /\ task[c] = "running"
    /\ task' = [task EXCEPT ![c] = "finished"]
    /\ PermitReleased
    /\ UNCHANGED <<loop, backlog, shutdown, process, late>>

\* A client connects, or connects again once an earlier connection is over.
Connect(c) ==
    /\ loop # "returned"
    /\ task[c] \in {"none", "finished"}
    /\ task' = [task EXCEPT ![c] = "queued"]
    /\ backlog' = Append(backlog, c)
    /\ UNCHANGED <<loop, connections, shutdown, process, late>>

\* ctrl_c completes.
Shutdown ==
    /\ ~shutdown
    /\ shutdown' = TRUE
    /\ UNCHANGED <<loop, connections, backlog, task, process, late>>

\* main returns after serve_until; the runtime is dropped and with it every
\* task that is still suspended at an await.
MainReturns ==
    /\ loop = "returned"
    /\ process = "up"
    /\ process' = "exited"
    /\ task' = [c \in Clients |->
                    IF task[c] = "running" THEN "aborted" ELSE task[c]]
    /\ connections' = connections + Cardinality(Running)
    /\ UNCHANGED <<loop, backlog, shutdown, late>>

\* The process is gone: nothing more happens.
Exited ==
    /\ process = "exited"
    /\ UNCHANGED vars

Next ==
    \/ Loop
    \/ \E c \in Clients : Finish(c) \/ Connect(c)
    \/ Shutdown
    \/ MainReturns
    \/ Exited

\* The runtime keeps polling a task that has been woken.
Spec == Init /\ [][Next]_vars /\ WF_vars(Loop)

\* Every handle_client ends, which takes peers that answer or close (see
\* Session and Relay): no part of Spec, but a premise of BacklogIsServed.
TasksEnd == \A c \in Clients : WF_vars(Finish(c))

-----------------------------------------------------------------------------
(***************************************************************************)
(* Properties                                                              *)
(***************************************************************************)

\* Every variable of the accept loop has its type.
TypeOK ==
    /\ loop \in LoopStates
    /\ connections \in 0..MaxConnections
    /\ backlog \in Seq(Clients)
    /\ task \in [Clients -> TaskStates]
    /\ shutdown \in BOOLEAN
    /\ process \in {"up", "exited"}
    /\ late \in Nat

\* No permit of the semaphore is lost or made up: the free ones, the one the
\* loop holds between its two selects and one per running task add up to
\* max_connections, whatever the order of accepts, endings, accept errors,
\* shutdown and runtime drop.  Hence never more than max_connections tasks.
PermitsConserved ==
    connections + (IF LoopHoldsPermit THEN 1 ELSE 0) + Cardinality(Running)
        = MaxConnections

\* Once shutdown has completed serve_until accepts at most one more client:
\* the one whose accept was being polled at that moment.
AtMostOneLateAccept == late <= 1

\* A requested shutdown ends serve_until even while every permit is taken
\* and no task ever ends.
ShutdownEndsLoop == shutdown ~> (loop = "returned")

\* If tasks end, a client in the backlog does not stay there: it is accepted
\* in turn, or reset because serve_until returned.
BacklogIsServed ==
    TasksEnd => \A c \in Clients : (task[c] = "queued") ~> (task[c] # "queued")

\* "graceful shutdown" (docs/ARCHITECTURE.md): a client being served when the
\* shutdown is requested is served to its end.
NoTaskAborted == \A c \in Clients : task[c] # "aborted"

=============================================================================
