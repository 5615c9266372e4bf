------------------------------- MODULE Relay -------------------------------
(***************************************************************************)
(* The tunnel's relay (src/src/relay.rs): two pumps, one per direction,    *)
(* and the idle watchdog they report to, all polled by one task; the two   *)
(* TCP connections they join are external.                                 *)
(*                                                                         *)
(* A direction is named by the endpoint it reads from, and the bytes of a  *)
(* direction are numbered 1, 2, ... in the order the endpoint sends them.  *)
(* Definitions marked `Mistake' are not part of the specification: each is *)
(* the definition after it with a plausible bug, and breaks a property.    *)
(***************************************************************************)
EXTENDS Integers, Sequences, FiniteSetsExt

CONSTANTS
    MaxSent,       \* bound: how many bytes each endpoint sends
    BufferSize,    \* a pump's buffer, 64 KiB in the code
    SendBuffer,    \* what a socket takes before its peer reads
    IdleTimeout    \* ticks of config.idle_timeout; 0 is None

Endpoints == {"client", "upstream"}

ASSUME RelayBounds ==
    /\ MaxSent \in [Endpoints -> Nat]
    /\ BufferSize \in Nat \ {0}
    /\ SendBuffer \in Nat \ {0}
    /\ IdleTimeout \in Nat

VARIABLES
    sent,      \* bytes each endpoint has sent
    eof,       \* the endpoint has shut down its sending side
    reset,     \* endpoints whose connection has failed
    rx,        \* bytes received from the endpoint, not yet read by its pump
    buffer,    \* bytes read by the pump, not yet written
    tx,        \* bytes written towards the other endpoint, not yet taken
    taken,     \* bytes the other endpoint has taken
    fin,       \* the pump has shut down its writer
    pump,      \* where each pump is: "read", "write" or "done"
    outcome,   \* "running", or how relay_bidirectional returned
    age,       \* ticks since the instant in the activity channel
    unseen,    \* the watchdog has not seen the channel's last value
    timer,     \* ticks until the watchdog's deadline
    quiet,     \* history: ticks since a chunk was last forwarded whole
    still      \* history: ticks since a byte was last written

streams == <<sent, eof, reset, rx, buffer, tx, taken, fin, pump>>
clocks == <<age, unseen, timer, quiet, still>>
vars == <<streams, outcome, clocks>>

Other(d) == CHOOSE e \in Endpoints : e # d

Front(s, n) == SubSeq(s, 1, n)
Rest(s, n) == SubSeq(s, n + 1, Len(s))

Delivered(d) == taken[d] \o tx[d]

Init ==
    /\ sent = [d \in Endpoints |-> 0]
    /\ eof = [d \in Endpoints |-> FALSE]
    /\ reset = {}
    /\ rx = [d \in Endpoints |-> <<>>]
    /\ buffer = [d \in Endpoints |-> <<>>]
    /\ tx = [d \in Endpoints |-> <<>>]
    /\ taken = [d \in Endpoints |-> <<>>]
    /\ fin = [d \in Endpoints |-> FALSE]
    /\ pump = [d \in Endpoints |-> "read"]
    /\ outcome = "running"
    /\ age = 0
    /\ unseen = FALSE
    /\ timer = IdleTimeout
    /\ quiet = 0
    /\ still = 0

(***************************************************************************)
(* pump                                                                    *)
(***************************************************************************)

\* reader.read(&mut buffer) returns some of what has been received.
Read(d) ==
    /\ pump[d] = "read"
    /\ \E n \in 1..Min({BufferSize, Len(rx[d])}) :
          /\ buffer' = [buffer EXCEPT ![d] = Front(rx[d], n)]
          /\ rx' = [rx EXCEPT ![d] = Rest(rx[d], n)]
    /\ pump' = [pump EXCEPT ![d] = "write"]
    /\ UNCHANGED <<sent, eof, reset, tx, taken, fin, outcome, clocks>>

\* Mistake: the first pump to end ends the relay.
JoinEither(d) == "ok"

\* try_join returns once both pumps have.
JoinBoth(d) == IF pump[Other(d)] = "done" THEN "ok" ELSE outcome

\* Mistake: the end of the stream is not passed on.
KeepWriter(d) == UNCHANGED fin

ShutdownWriter(d) == fin' = [fin EXCEPT ![d] = TRUE]

\* read == 0: shut the writer down, which a failed connection may or may not
\* refuse (see IoError).
Eof(d) ==
    /\ pump[d] = "read"
    /\ rx[d] = <<>> /\ eof[d] /\ d \notin reset
    /\ ShutdownWriter(d)
    /\ pump' = [pump EXCEPT ![d] = "done"]
    /\ outcome' = JoinBoth(d)
    /\ UNCHANGED <<sent, eof, reset, rx, buffer, tx, taken, clocks>>

\* activity.send_replace(Instant::now())
ReportActivity ==
    /\ age' = 0
    /\ unseen' = TRUE

\* Mistake: `write' instead of `write_all', a short write taken for all.
WrittenAll(d, n) == <<>>

\* What a write of n bytes leaves for write_all to write.
Unwritten(d, n) == Rest(buffer[d], n)

\* One write of write_all.  Only the one that completes it reports activity.
Write(d) ==
    /\ pump[d] = "write"
    /\ \E n \in 1..Min({Len(buffer[d]), SendBuffer - Len(tx[d])}) :
          /\ tx' = [tx EXCEPT ![d] = @ \o Front(buffer[d], n)]
          /\ buffer' = [buffer EXCEPT ![d] = Unwritten(d, n)]
          /\ IF Unwritten(d, n) = <<>>
             THEN /\ pump' = [pump EXCEPT ![d] = "read"]
                  /\ ReportActivity
                  /\ quiet' = 0
             ELSE UNCHANGED <<pump, age, unseen, quiet>>
    /\ Other(d) \notin reset
    /\ still' = 0
    /\ UNCHANGED <<sent, eof, reset, rx, taken, fin, outcome, timer>>

\* `?` on a read from, or on a write or shutdown towards, a failed connection:
\* try_join returns the error and drops the other pump.
IoError(d) ==
    /\ \/ pump[d] = "read" /\ d \in reset
       \/ pump[d] = "read" /\ rx[d] = <<>> /\ eof[d] /\ Other(d) \in reset
       \/ pump[d] = "write" /\ Other(d) \in reset
    /\ outcome' = "io_error"
    /\ UNCHANGED <<streams, clocks>>

Pump(d) ==
    /\ outcome = "running"
    /\ Read(d) \/ Eof(d) \/ Write(d) \/ IoError(d)

(***************************************************************************)
(* idle_watchdog                                                           *)
(***************************************************************************)

\* let deadline = *activity.borrow_and_update() + timeout
Arm ==
    /\ timer' = IdleTimeout - age
    /\ unseen' = FALSE
    /\ UNCHANGED <<age, quiet, still>>

\* Mistake: the deadline that fires is not compared with the activity again.
IdleUnchecked == TRUE

Idle == age >= IdleTimeout

\* sleep_until(deadline) fires: give up, unless there was activity since.
Deadline ==
    /\ timer = 0
    /\ \/ /\ Idle
          /\ outcome' = "idle"
          /\ UNCHANGED clocks
       \/ /\ ~Idle
          /\ Arm
          /\ UNCHANGED outcome
    /\ UNCHANGED streams

\* Mistake: a change of the activity disarms the deadline for good.
ChangedDisarms ==
    /\ unseen
    /\ unseen' = FALSE
    /\ timer' = -1
    /\ UNCHANGED <<streams, outcome, age, quiet, still>>

\* activity.changed(): start over from the new instant.
Changed ==
    /\ unseen
    /\ Arm
    /\ UNCHANGED <<streams, outcome>>

Watchdog ==
    /\ outcome = "running"
    /\ IdleTimeout # 0
    /\ Deadline \/ Changed

\* Time passes.  Ages stop counting at the timeout: no one tells more apart.
Tick ==
    LET older(t) == Min({t + 1, IdleTimeout}) IN
    /\ outcome = "running"
    /\ IdleTimeout # 0
    /\ age' = older(age)
    /\ quiet' = older(quiet)
    /\ still' = older(still)
    /\ timer' = IF timer > 0 THEN timer - 1 ELSE timer
    /\ UNCHANGED <<streams, outcome, unseen>>

(***************************************************************************)
(* The endpoints and the network                                           *)
(***************************************************************************)
Send(d) ==
    /\ ~eof[d] /\ d \notin reset /\ sent[d] < MaxSent[d]
    /\ sent' = [sent EXCEPT ![d] = @ + 1]
    /\ rx' = [rx EXCEPT ![d] = Append(@, sent'[d])]
    /\ UNCHANGED <<eof, reset, buffer, tx, taken, fin, pump, outcome, clocks>>

CloseSending(d) ==
    /\ ~eof[d] /\ d \notin reset
    /\ eof' = [eof EXCEPT ![d] = TRUE]
    /\ UNCHANGED <<sent, reset, rx, buffer, tx, taken, fin, pump>>
    /\ UNCHANGED <<outcome, clocks>>

\* The endpoint at the far side of direction d reads a byte.
Take(d) ==
    /\ outcome = "running"
    /\ tx[d] # <<>> /\ Other(d) \notin reset
    /\ taken' = [taken EXCEPT ![d] = Append(@, Head(tx[d]))]
    /\ tx' = [tx EXCEPT ![d] = Tail(@)]
    /\ UNCHANGED <<sent, eof, reset, rx, buffer, fin, pump, outcome, clocks>>

\* A connection fails; what was received from it may be lost.
Reset(d) ==
    /\ d \notin reset
    /\ reset' = reset \union {d}
    /\ rx' \in {rx, [rx EXCEPT ![d] = <<>>]}
    /\ UNCHANGED <<sent, eof, buffer, tx, taken, fin, pump, outcome, clocks>>

Network(d) ==
    /\ outcome = "running"
    /\ Send(d) \/ CloseSending(d) \/ Take(d) \/ Reset(d)

Returned ==
    /\ outcome # "running"
    /\ UNCHANGED vars

Next ==
    \/ \E d \in Endpoints : Pump(d) \/ Network(d)
    \/ Watchdog
    \/ Tick
    \/ Returned

\* The task is polled when it is woken or a deadline it waits for is over.
Spec ==
    /\ Init /\ [][Next]_vars
    /\ \A d \in Endpoints : WF_vars(Pump(d))
    /\ WF_vars(Watchdog)

\* Premises of the liveness properties: endpoints read what they are sent;
\* time passes.
EndpointsRead == \A d \in Endpoints : WF_vars(Take(d))
TimePasses == WF_vars(Tick)

-----------------------------------------------------------------------------
(***************************************************************************)
(* Properties                                                              *)
(***************************************************************************)

\* Every variable of the relay has its type.
TypeOK ==
    /\ sent \in [Endpoints -> Nat]
    /\ eof \in [Endpoints -> BOOLEAN]
    /\ reset \subseteq Endpoints
    /\ rx \in [Endpoints -> Seq(Nat)] /\ buffer \in [Endpoints -> Seq(Nat)]
    /\ tx \in [Endpoints -> Seq(Nat)] /\ taken \in [Endpoints -> Seq(Nat)]
    /\ fin \in [Endpoints -> BOOLEAN]
    /\ pump \in [Endpoints -> {"read", "write", "done"}]
    /\ outcome \in {"running", "ok", "io_error", "idle"}
    /\ unseen \in BOOLEAN
    /\ age \in 0..IdleTimeout /\ timer \in 0..IdleTimeout
    /\ quiet \in 0..IdleTimeout /\ still \in 0..IdleTimeout

\* Neither direction loses, repeats or reorders a byte: what the far endpoint
\* has, what is on its way, what the pump holds and what waits to be read are
\* together what was sent, through short reads and short writes, as long as
\* the sending connection has not failed.
StreamIntact ==
    \A d \in Endpoints \ reset :
        Delivered(d) \o buffer[d] \o rx[d] = [i \in 1..sent[d] |-> i]

\* A pump forwards the end of its stream only after every byte before it.
EofAfterLastByte ==
    \A d \in Endpoints :
        fin[d] => eof[d] /\ Delivered(d) = [i \in 1..sent[d] |-> i]

\* The watchdog closes the tunnel only when neither direction forwarded a
\* chunk for idle_timeout, however its deadline races with the activity.
IdleMeansQuiet == outcome = "idle" => quiet >= IdleTimeout

\* With an idle timeout, a tunnel whose endpoints fall silent, or stop
\* reading, does not stay open for ever.
SilentTunnelEnds == TimePasses => <>(outcome # "running")

\* The end of a stream reaches the other endpoint, if endpoints read what
\* they are sent, even when the other direction stays open and without the
\* help of the idle timeout.
EofIsForwarded ==
    EndpointsRead => \A d \in Endpoints : eof[d] ~> (fin[d] \/ outcome # "running")

\* The pumps, their buffers, the sockets' buffers and the watchdog together
\* are the tunnel that Tunnel describes: what a pump holds or has not read is
\* on its way, what it has written has arrived, and the relay ends as idle,
\* failed or complete only as a tunnel may.
InFlight == [d \in Endpoints |-> buffer[d] \o rx[d]]
Arrived == [d \in Endpoints |-> Delivered(d)]
TunnelState == CASE outcome = "running" -> "open"
                 [] outcome = "ok" -> "complete"
                 [] outcome = "io_error" -> "failed"
                 [] outcome = "idle" -> "idle"

Abstract == INSTANCE Tunnel WITH
    inflight <- InFlight, arrived <- Arrived, tunnel <- TunnelState

\* relay_bidirectional implements Tunnel.
ImplementsTunnel == Abstract!Spec

\* "Close tunnels after this many idle seconds" (src/src/main.rs): a tunnel
\* closed as idle has not passed a byte on for idle_timeout.
IdleMeansStill == outcome = "idle" => still >= IdleTimeout

=============================================================================
