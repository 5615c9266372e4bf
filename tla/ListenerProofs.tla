--------------------------- MODULE ListenerProofs ---------------------------
(***************************************************************************)
(* Proofs about the accept loop, for any finite set of clients and any     *)
(* positive max_connections.                                               *)
(***************************************************************************)
EXTENDS Listener, FiniteSetTheorems, SequenceTheorems, TLAPS

\* There is much for the provers to look through here: they get more time.
USE SMTT(40), ZenonT(40)

\* The backlog holds queued clients, each once.  Without it the client that
\* Accept turns into a task might already be one, and its permit be lost.
BacklogQueued ==
    /\ \A i \in 1..Len(backlog) : task[backlog[i]] = "queued"
    /\ \A i, j \in 1..Len(backlog) : backlog[i] = backlog[j] => i = j

\* A late accept leaves the loop where its next step is to return.
LateAcceptIsLast ==
    late = 0 \/ (late = 1 /\ shutdown /\ loop \in {"permit", "returned"})

\* The inductive invariant.
Inv ==
    /\ TypeOK
    /\ PermitsConserved
    /\ BacklogQueued
    /\ LateAcceptIsLast

\* There are finitely many running tasks.
LEMMA RunningFinite == IsFiniteSet(Running) /\ Cardinality(Running) \in Nat
  <1>1. Running \in SUBSET Clients
    BY DEF Running
  <1>2. IsFiniteSet(Running)
    BY <1>1, ClientsFinite, FS_Subset
  <1> QED
    BY <1>2, FS_CardinalityType

\* The invariant holds when serve_until starts: every permit is free.
LEMMA InvInit == Init => Inv
  <1> SUFFICES ASSUME Init PROVE Inv
    OBVIOUS
  <1>1. Running = {}
    BY DEF Init, Running
  <1>2. TypeOK
    <2>1. connections \in 0..MaxConnections /\ late \in Nat
      BY MaxConnectionsPositive DEF Init
    <2>2. backlog \in Seq(Clients)
      BY EmptySeq DEF Init
    <2>3. loop \in LoopStates /\ task \in [Clients -> TaskStates]
      BY DEF Init, LoopStates, TaskStates
    <2>4. shutdown \in BOOLEAN /\ process \in {"up", "exited"}
      BY ZenonT(40) DEF Init
    <2> QED
      BY <2>1, <2>2, <2>3, <2>4 DEF TypeOK
  <1>3. PermitsConserved
    BY <1>1, FS_EmptySet, MaxConnectionsPositive
    DEF Init, PermitsConserved, LoopHoldsPermit
  <1> QED
    BY <1>2, <1>3 DEF Init, Inv, BacklogQueued, LateAcceptIsLast

\* A return of serve_until gives back the permit that the loop holds.
LEMMA ReturnPreservesInv ==
  ASSUME Inv, loop \in LoopStates \ {"returned"}, Return
  PROVE  Inv'
  <1> USE DEF Inv
  <1>1. Running' = Running
    BY DEF Return, Running, TypeOK
  <1>2. PermitsConserved'
    BY <1>1, RunningFinite, MaxConnectionsPositive
    DEF Return, PermitsConserved, LoopHoldsPermit, TypeOK
  <1>3. connections' \in 0..MaxConnections
    BY <1>1, <1>2, RunningFinite, MaxConnectionsPositive
    DEF Return, PermitsConserved, LoopHoldsPermit, TypeOK
  <1>4. TypeOK'
    BY <1>3 DEF Return, TypeOK, LoopStates, TaskStates
  <1>5. BacklogQueued' /\ LateAcceptIsLast'
    BY DEF Return, BacklogQueued, LateAcceptIsLast
  <1> QED
    BY <1>2, <1>4, <1>5

\* A poll of a select's first branch.
LEMMA PollPreservesInv ==
  ASSUME Inv, NEW from, NEW to,
         <<from, to>> \in {<<"permit", "acquire">>, <<"listen", "accept">>},
         PollShutdown(from, to)
  PROVE  Inv'
  <1>1. CASE shutdown
    <2>1. Return /\ loop = from
      BY <1>1 DEF PollShutdown
    <2> QED
      BY <2>1, ReturnPreservesInv DEF LoopStates
  <1>2. CASE ~shutdown
    <2>1. /\ loop = from /\ loop' = to
          /\ UNCHANGED <<connections, backlog, task, shutdown, process, late>>
      BY <1>2 DEF PollShutdown
    <2>2. Running' = Running
      BY <2>1 DEF Running
    <2> QED
      BY <1>2, <2>1, <2>2
      DEF Inv, TypeOK, LoopStates, PermitsConserved, LoopHoldsPermit,
          BacklogQueued, LateAcceptIsLast
  <1> QED
    BY <1>1, <1>2

\* The permit moves from the semaphore to the loop.
LEMMA AcquirePreservesInv ==
  ASSUME Inv, AcquirePermit
  PROVE  Inv'
  <1>1. Running' = Running
    BY DEF AcquirePermit, Running
  <1>2. PermitsConserved'
    BY <1>1, RunningFinite, MaxConnectionsPositive
    DEF Inv, AcquirePermit, PermitsConserved, LoopHoldsPermit, TypeOK
  <1>3. TypeOK'
    BY MaxConnectionsPositive DEF Inv, AcquirePermit, TypeOK, LoopStates
  <1> QED
    BY <1>2, <1>3 DEF Inv, AcquirePermit, BacklogQueued, LateAcceptIsLast

\* The permit moves from the loop to the task of the client at the head of
\* the backlog, which was not running.
LEMMA AcceptPreservesInv ==
  ASSUME Inv, Accept
  PROVE  Inv'
  <1> DEFINE c == Head(backlog)
  <1>1. backlog \in Seq(Clients) /\ backlog # <<>>
    BY DEF Inv, TypeOK, Accept
  <1>2. /\ c \in Clients /\ c = backlog[1]
        /\ Tail(backlog) \in Seq(Clients)
        /\ Len(backlog) \in Nat \ {0}
        /\ Len(Tail(backlog)) = Len(backlog) - 1
        /\ \A i \in 1..Len(Tail(backlog)) : Tail(backlog)[i] = backlog[i + 1]
    BY <1>1, HeadTailProperties, EmptySeq
  <1>3. task[c] = "queued" /\ \A i \in 2..Len(backlog) : backlog[i] # c
    BY <1>2 DEF Inv, BacklogQueued
  <1>4. Running' = Running \union {c} /\ c \notin Running
    BY <1>2, <1>3 DEF Accept, Running, Inv, TypeOK
  <1>5. Cardinality(Running') = Cardinality(Running) + 1
    BY <1>4, RunningFinite, FS_AddElement
  <1>6. PermitsConserved'
    BY <1>5, RunningFinite, MaxConnectionsPositive
    DEF Inv, TypeOK, Accept, PermitMoved, PermitsConserved, LoopHoldsPermit
  <1>7. TypeOK'
    BY <1>2 DEF Inv, TypeOK, Accept, PermitMoved, LoopStates, TaskStates
  <1>8. BacklogQueued'
    <2> SUFFICES ASSUME NEW i \in 1..Len(backlog'), NEW j \in 1..Len(backlog')
                 PROVE  /\ task'[backlog'[i]] = "queued"
                        /\ backlog'[i] = backlog'[j] => i = j
      BY DEF BacklogQueued
    <2>1. /\ backlog' = Tail(backlog)
          /\ backlog'[i] = backlog[i + 1] /\ backlog'[j] = backlog[j + 1]
          /\ i + 1 \in 2..Len(backlog) /\ j + 1 \in 2..Len(backlog)
      BY <1>2 DEF Accept
    <2>2. backlog[i + 1] \in Clients /\ task[backlog[i + 1]] = "queued"
      BY <1>1, <1>2, <2>1, ElementOfSeq DEF Inv, BacklogQueued
    <2>3. task'[backlog[i + 1]] = "queued"
      BY <1>2, <1>3, <2>1, <2>2 DEF Accept, Inv, TypeOK
    <2>4. backlog[i + 1] = backlog[j + 1] => i + 1 = j + 1
      BY <1>2, <2>1 DEF Inv, BacklogQueued
    <2> QED
      BY <2>1, <2>3, <2>4
  <1>9. LateAcceptIsLast'
    BY DEF Inv, LateAcceptIsLast, Accept
  <1> QED
    BY <1>6, <1>7, <1>8, <1>9 DEF Inv

\* The permit moves from the task back to the semaphore.
LEMMA FinishPreservesInv ==
  ASSUME Inv, NEW c \in Clients, Finish(c)
  PROVE  Inv'
  <1>1. Running' = Running \ {c} /\ c \in Running
    BY DEF Finish, Running, Inv, TypeOK
  <1>2. Cardinality(Running') = Cardinality(Running) - 1 /\ Cardinality(Running') \in Nat
    BY <1>1, RunningFinite, FS_RemoveElement, FS_CardinalityType
  <1>3. PermitsConserved'
    BY <1>2, RunningFinite, MaxConnectionsPositive
    DEF Inv, TypeOK, Finish, PermitReleased, PermitsConserved, LoopHoldsPermit
  <1>4. connections' \in 0..MaxConnections
    BY <1>2, <1>3, MaxConnectionsPositive
    DEF Inv, TypeOK, Finish, PermitReleased, PermitsConserved, LoopHoldsPermit
  <1>5. TypeOK'
    BY <1>4 DEF Inv, TypeOK, Finish, TaskStates
  <1>6. BacklogQueued'
    <2>1. \A i \in 1..Len(backlog) : backlog[i] # c /\ backlog[i] \in Clients
      BY ElementOfSeq DEF Inv, TypeOK, BacklogQueued, Finish
    <2> QED
      BY <2>1 DEF Inv, TypeOK, BacklogQueued, Finish
  <1> QED
    BY <1>3, <1>5, <1>6 DEF Inv, LateAcceptIsLast, Finish

\* A client that connects is not in the backlog yet, and is not running.
LEMMA ConnectPreservesInv ==
  ASSUME Inv, NEW c \in Clients, Connect(c)
  PROVE  Inv'
  <1>1. Running' = Running
    BY DEF Connect, Running, Inv, TypeOK
  <1>2. PermitsConserved'
    BY <1>1 DEF Inv, Connect, PermitsConserved, LoopHoldsPermit
  <1>3. /\ backlog \in Seq(Clients) /\ backlog' \in Seq(Clients)
        /\ Len(backlog) \in Nat
        /\ Len(backlog') = Len(backlog) + 1
        /\ \A i \in 1..Len(backlog) : backlog'[i] = backlog[i]
        /\ backlog'[Len(backlog) + 1] = c
    BY AppendProperties, LenProperties DEF Inv, TypeOK, Connect
  <1>4. TypeOK'
    BY <1>3 DEF Inv, TypeOK, Connect, TaskStates
  <1>5. \A i \in 1..Len(backlog) : backlog[i] # c /\ backlog[i] \in Clients
    BY <1>3, ElementOfSeq DEF Inv, BacklogQueued, Connect
  <1>6. BacklogQueued'
    <2>1. \A i \in 1..Len(backlog') : task'[backlog'[i]] = "queued"
      BY <1>3, <1>5 DEF Inv, TypeOK, BacklogQueued, Connect
    <2>2. \A i, j \in 1..Len(backlog') : backlog'[i] = backlog'[j] => i = j
      BY <1>3, <1>5 DEF Inv, BacklogQueued
    <2> QED
      BY <2>1, <2>2 DEF BacklogQueued
  <1> QED
    BY <1>2, <1>4, <1>6 DEF Inv, LateAcceptIsLast, Connect

\* The runtime drops the running tasks, and their permits with them.
LEMMA MainReturnsPreservesInv ==
  ASSUME Inv, MainReturns
  PROVE  Inv'
  <1>1. Running' = {}
    BY DEF MainReturns, Running, Inv, TypeOK
  <1>2. PermitsConserved'
    BY <1>1, FS_EmptySet, RunningFinite, MaxConnectionsPositive
    DEF Inv, TypeOK, MainReturns, PermitsConserved, LoopHoldsPermit
  <1>3. connections' \in 0..MaxConnections
    BY <1>1, <1>2, FS_EmptySet, RunningFinite, MaxConnectionsPositive
    DEF Inv, TypeOK, MainReturns, PermitsConserved, LoopHoldsPermit
  <1>4. TypeOK'
    BY <1>3 DEF Inv, TypeOK, MainReturns, TaskStates
  <1>5. BacklogQueued'
    <2>1. \A i \in 1..Len(backlog) : backlog[i] \in Clients
      BY ElementOfSeq DEF Inv, TypeOK
    <2> QED
      BY <2>1 DEF Inv, TypeOK, BacklogQueued, MainReturns
  <1> QED
    BY <1>2, <1>4, <1>5 DEF Inv, LateAcceptIsLast, MainReturns

\* Every step of the listener preserves the invariant.
LEMMA InvNext == Inv /\ [Next]_vars => Inv'
  <1> SUFFICES ASSUME Inv, [Next]_vars PROVE Inv'
    OBVIOUS
  <1>1. CASE SelectPermit
    BY <1>1, PollPreservesInv DEF SelectPermit
  <1>2. CASE AcquirePermit
    BY <1>2, AcquirePreservesInv
  <1>3. CASE SelectAccept
    BY <1>3, PollPreservesInv DEF SelectAccept
  <1>4. CASE Accept
    BY <1>4, AcceptPreservesInv
  <1>5. CASE AcceptPending
    <2>1. Running' = Running
      BY <1>5 DEF AcceptPending, Running
    <2> QED
      BY <1>5, <2>1
      DEF AcceptPending, Inv, TypeOK, LoopStates, PermitsConserved,
          LoopHoldsPermit, BacklogQueued, LateAcceptIsLast
  <1>6. CASE AcceptError
    BY <1>6, ReturnPreservesInv DEF AcceptError, LoopStates
  <1>7. CASE \E c \in Clients : Finish(c) \/ Connect(c)
    BY <1>7, FinishPreservesInv, ConnectPreservesInv
  <1>8. CASE Shutdown
    <2>1. Running' = Running
      BY <1>8 DEF Shutdown, Running
    <2> QED
      BY <1>8, <2>1
      DEF Shutdown, Inv, TypeOK, PermitsConserved, LoopHoldsPermit,
          BacklogQueued, LateAcceptIsLast
  <1>9. CASE MainReturns
    BY <1>9, MainReturnsPreservesInv
  <1>10. CASE Exited \/ UNCHANGED vars
    <2>1. UNCHANGED vars
      BY <1>10 DEF Exited
    <2>2. Running' = Running
      BY <2>1 DEF vars, Running
    <2> QED
      BY <2>1, <2>2
      DEF vars, Inv, TypeOK, PermitsConserved, LoopHoldsPermit,
          BacklogQueued, LateAcceptIsLast
  <1> QED
    BY <1>1, <1>2, <1>3, <1>4, <1>5, <1>6, <1>7, <1>8, <1>9, <1>10
    DEF Next, Loop

\* The inductive invariant holds throughout.
THEOREM Invariance == Spec => []Inv
  BY InvInit, InvNext, PTL DEF Spec

\* The variables of the accept loop always have their types; in particular
\* the semaphore never holds more permits than it was created with.
THEOREM TypeCorrect == Spec => []TypeOK
  <1>1. Inv => TypeOK
    BY DEF Inv
  <1> QED
    BY Invariance, <1>1, PTL

\* No permit is ever lost or made up, so that at most max_connections
\* clients are served at once.
THEOREM PermitsAlwaysConserved == Spec => []PermitsConserved
  <1>1. Inv => PermitsConserved
    BY DEF Inv
  <1> QED
    BY Invariance, <1>1, PTL

\* serve_until accepts at most one client after shutdown has completed.
THEOREM LateAcceptBound == Spec => []AtMostOneLateAccept
  <1>1. Inv => AtMostOneLateAccept
    BY DEF Inv, LateAcceptIsLast, AtMostOneLateAccept
  <1> QED
    BY Invariance, <1>1, PTL

=============================================================================
