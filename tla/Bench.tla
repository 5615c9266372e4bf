------------------------------- MODULE Bench -------------------------------
(***************************************************************************)
(* The benchmark (src/src/bin/fastpx-bench.rs): workers that share a       *)
(* counter open tunnels through a proxy in the same process; main joins    *)
(* them, stops the proxy and reports.  The proxy's sessions appear as the  *)
(* permits they hold and the replies they give.                            *)
(*                                                                         *)
(* Definitions marked `Mistake' are not part of the specification: each is *)
(* the definition after it with a plausible bug, and breaks a property.    *)
(***************************************************************************)
EXTENDS Integers, Sequences, FiniteSets

CONSTANTS
    Workers,       \* cli.concurrency of them
    Connections    \* cli.connections

\* main refuses zero for either.
ASSUME BenchBounds ==
    /\ IsFiniteSet(Workers) /\ Workers # {}
    /\ Connections \in Nat \ {0}

VARIABLES
    next,        \* the shared counter
    worker,      \* where each worker is
    index,       \* the tunnel each worker is opening
    reply,       \* the status its client was sent
    latencies,   \* the tunnels each worker has measured, with the status
    lingering,   \* sessions whose client is gone and that hold a permit
    main,        \* "joining", "stopping", "done" or "failed"
    joined,      \* workers main has joined
    collected,   \* what main has from them
    shutdown     \* shutdown_tx has been used

run == <<next, worker, index, reply, latencies, lingering>>
report == <<main, joined, collected, shutdown>>
vars == <<run, report>>

Init ==
    /\ next = 0
    /\ worker = [w \in Workers |-> "claim"]
    /\ index = [w \in Workers |-> 0]
    /\ reply = [w \in Workers |-> 0]
    /\ latencies = [w \in Workers |-> <<>>]
    /\ lingering = 0
    /\ main = "joining"
    /\ joined = {}
    /\ collected = <<>>
    /\ shutdown = FALSE

Goto(w, place) == worker' = [worker EXCEPT ![w] = place]

\* main, and the runtime with it, returns at the first error.
Alive == main \in {"joining", "stopping"}

(***************************************************************************)
(* A worker                                                                *)
(***************************************************************************)

\* Mistake: the counter's last value is taken for a tunnel too.
AllClaimedLate == next > Connections

AllClaimed == next >= Connections

\* next.fetch_add(1)
Claim(w) ==
    /\ worker[w] = "claim"
    /\ next' = next + 1
    /\ index' = [index EXCEPT ![w] = next]
    /\ Goto(w, IF AllClaimed THEN "done" ELSE "connect")
    /\ UNCHANGED <<reply, latencies, lingering>>

Served == {w \in Workers : worker[w] \in {"head", "echo"}}

\* TcpStream::connect, and the proxy's accept once a permit is free: it has
\* max_connections = concurrency * 2 of them.
Connect(w) ==
    /\ worker[w] = "connect"
    /\ Cardinality(Served) + lingering < 2 * Cardinality(Workers)
    /\ Goto(w, "head")
    /\ UNCHANGED <<next, index, reply, latencies, lingering>>

\* The client's socket is dropped; its session ends a little later.
Leave(w, place) == Goto(w, place) /\ lingering' = lingering + 1

\* read_head returns.  The body of an error reply comes with the head, which
\* run_client refuses, or after it.
ReadHead(w) ==
    /\ worker[w] = "head"
    /\ \/ /\ reply' \in {[reply EXCEPT ![w] = s] : s \in {200, 502}}
          /\ Goto(w, "echo")
          /\ UNCHANGED lingering
       \/ /\ Leave(w, "failed")
          /\ UNCHANGED reply
    /\ UNCHANGED <<next, index, latencies>>

\* echoed == payload: the mock upstream echoes it, an error reply's body is
\* another text.
EchoMatches(w) == reply[w] = 200

\* The payload is sent, the stream shut down and the echo read to its end,
\* whole, or cut short when the tunnel fails.
Echo(w) ==
    /\ worker[w] = "echo"
    /\ \/ /\ EchoMatches(w)
          /\ latencies' = [latencies EXCEPT ![w] =
                              Append(@, [index |-> index[w], reply |-> reply[w]])]
          /\ Leave(w, "claim")
       \/ /\ Leave(w, "failed")
          /\ UNCHANGED latencies
    /\ UNCHANGED <<next, index, reply>>

\* handle_client returns and drops its permit.
SessionEnds ==
    /\ lingering > 0
    /\ lingering' = lingering - 1
    /\ UNCHANGED <<next, worker, index, reply, latencies>>

Run(w) == Claim(w) \/ Connect(w) \/ ReadHead(w) \/ Echo(w)

(***************************************************************************)
(* main                                                                    *)
(***************************************************************************)

\* Mistake: shutdown_tx is kept.
SendShutdownNot == UNCHANGED shutdown

SendShutdown == shutdown' = TRUE

\* workers.join_next(): any worker that has ended.  The last one joined, the
\* proxy is told to stop.
Join(w) ==
    /\ main = "joining" /\ w \notin joined
    /\ \/ /\ worker[w] = "failed"
          /\ main' = "failed"
          /\ UNCHANGED <<joined, collected, shutdown>>
       \/ /\ worker[w] = "done"
          /\ joined' = joined \union {w}
          /\ collected' = collected \o latencies[w]
          /\ IF joined' = Workers THEN main' = "stopping" /\ SendShutdown
                                  ELSE UNCHANGED <<main, shutdown>>

\* proxy_task.await (see Listener), and the report.
Report ==
    /\ main = "stopping" /\ shutdown
    /\ main' = "done"
    /\ UNCHANGED <<joined, collected, shutdown>>

Exited == ~Alive /\ UNCHANGED vars

Work(w) == Alive /\ Run(w) /\ UNCHANGED report

Linger == Alive /\ SessionEnds /\ UNCHANGED report

Main == ((\E w \in Workers : Join(w)) \/ Report) /\ UNCHANGED run

Next == (\E w \in Workers : Work(w)) \/ Linger \/ Main \/ Exited

\* Every task is polled, and the proxy's sessions end (see Proxy).
Spec ==
    /\ Init /\ [][Next]_vars
    /\ \A w \in Workers : WF_vars(Work(w))
    /\ WF_vars(Linger)
    /\ WF_vars(Main)

-----------------------------------------------------------------------------
(***************************************************************************)
(* Properties                                                              *)
(***************************************************************************)

\* "Total number of CONNECT tunnels to establish": a report counts every
\* tunnel from 0 to connections - 1 once, however the workers share them, and
\* no refused CONNECT, although run_client looks at no status.
ReportIsComplete ==
    main = "done" =>
        /\ Len(collected) = Connections
        /\ {collected[i].index : i \in DOMAIN collected} = 0..(Connections - 1)
        /\ \A i \in DOMAIN collected : collected[i].reply = 200

\* The benchmark ends, with a report or an error, although the sessions of
\* the tunnels that are done still hold permits.
BenchEnds == <>(~Alive)

=============================================================================
