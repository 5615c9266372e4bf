---------------------------- MODULE RelayProofs ----------------------------
(***************************************************************************)
(* Proofs about the relay, for any number of bytes, any buffer sizes and   *)
(* any idle timeout: no direction loses, repeats or reorders a byte, ends  *)
(* come after the last byte, the watchdog closes only quiet tunnels, and   *)
(* the relay implements Tunnel.                                            *)
(***************************************************************************)
EXTENDS Relay, SequenceTheorems, TLAPS

\* There is much for the provers to look through here: they get more time.
USE SMTT(40), ZenonT(40)

(***************************************************************************)
(* Facts about the operators                                               *)
(***************************************************************************)

\* The smaller of two integers.
LEMMA MinPair ==
  ASSUME NEW a \in Int, NEW b \in Int
  PROVE  Min({a, b}) \in {a, b} /\ Min({a, b}) <= a /\ Min({a, b}) <= b
  <1>1. \E x \in {a, b} : \A y \in {a, b} : x <= y
    BY a <= b \/ b <= a
  <1> QED
    BY <1>1 DEF Min

\* What is at most the smaller of two integers is at most each of them.
LEMMA BelowMin ==
  ASSUME NEW a \in Int, NEW b \in Int, NEW n \in 1..Min({a, b})
  PROVE  n \in Nat /\ n > 0 /\ n <= a /\ n <= b
  <1>1. Min({a, b}) \in Int /\ Min({a, b}) <= a /\ Min({a, b}) <= b
    BY MinPair
  <1> QED
    BY <1>1

\* There are two endpoints, each the other's other.
LEMMA OtherEndpoint ==
  ASSUME NEW d \in Endpoints
  PROVE  /\ Other(d) \in Endpoints /\ Other(d) # d
         /\ \A e \in Endpoints : e = d \/ e = Other(d)
  <1>1. \E e \in Endpoints : e # d
    BY DEF Endpoints
  <1>2. Other(d) \in Endpoints /\ Other(d) # d
    BY <1>1 DEF Other
  <1> QED
    BY <1>2 DEF Endpoints

\* A sequence is its first n elements followed by the rest.
LEMMA FrontRest ==
  ASSUME NEW s \in Seq(Nat), NEW n \in 0..Len(s)
  PROVE  /\ Front(s, n) \in Seq(Nat) /\ Len(Front(s, n)) = n
         /\ Rest(s, n) \in Seq(Nat) /\ Len(Rest(s, n)) = Len(s) - n
         /\ Front(s, n) \o Rest(s, n) = s
  <1>1. Len(s) \in Nat
    BY LenProperties
  <1>2. \A i \in 1..Len(s) : s[i] \in Nat
    BY ElementOfSeq
  <1>3. /\ SubSeq(s, 1, n) \in Seq(Nat)
        /\ Len(SubSeq(s, 1, n)) = IF 1 <= n THEN n - 1 + 1 ELSE 0
    BY <1>1, <1>2, SubSeqProperties
  <1>4. /\ SubSeq(s, n + 1, Len(s)) \in Seq(Nat)
        /\ Len(SubSeq(s, n + 1, Len(s)))
              = IF n + 1 <= Len(s) THEN Len(s) - (n + 1) + 1 ELSE 0
    BY <1>1, <1>2, SubSeqProperties
  <1>5. SubSeq(s, 1, n) \o SubSeq(s, n + 1, Len(s)) = SubSeq(s, 1, Len(s))
    <2>1. /\ 1 \in 1..(Len(s) + 1) /\ n \in (1 - 1)..Len(s)
          /\ Len(s) \in n..Len(s)
      BY <1>1
    <2> QED
      BY <2>1, ConcatAdjacentSubSeq, ZenonT(40)
  <1>6. SubSeq(s, 1, Len(s)) = s
    BY SubSeqFull
  <1>7. Front(s, n) \in Seq(Nat) /\ Len(Front(s, n)) = n
    BY <1>1, <1>3 DEF Front
  <1>8. Rest(s, n) \in Seq(Nat) /\ Len(Rest(s, n)) = Len(s) - n
    BY <1>1, <1>4 DEF Rest
  <1>9. Front(s, n) \o Rest(s, n) = s
    BY <1>5, <1>6, ZenonT(40) DEF Front, Rest
  <1> QED
    BY <1>7, <1>8, <1>9

\* Concatenation of streams is associative and yields a stream.
LEMMA Assoc ==
  \A a, b, c \in Seq(Nat) : (a \o b) \o c = a \o (b \o c)
  <1>1. ASSUME NEW a \in Seq(Nat), NEW b \in Seq(Nat), NEW c \in Seq(Nat)
        PROVE  (a \o b) \o c = a \o (b \o c)
    BY ConcatAssociative, SMTT(60)
  <1> QED
    BY <1>1, ZenonT(40)

LEMMA Joined ==
  \A a, b \in Seq(Nat) : a \o b \in Seq(Nat)
  <1>1. ASSUME NEW a \in Seq(Nat), NEW b \in Seq(Nat)
        PROVE  a \o b \in Seq(Nat)
    BY ConcatProperties, SMTT(60)
  <1> QED
    BY <1>1, ZenonT(40)

\* A read moves bytes f from what was received, f and then q, to the pump's
\* empty buffer.
LEMMA ReadMoves ==
  ASSUME NEW a \in Seq(Nat), NEW f \in Seq(Nat), NEW q \in Seq(Nat)
  PROVE  /\ (a \o f) \o q = (a \o <<>>) \o (f \o q)
         /\ f \o q = <<>> \o (f \o q)
  <1>1. (a \o f) \o q = a \o (f \o q)
    BY Assoc, ZenonT(40)
  <1>2. f \o q \in Seq(Nat)
    BY ConcatProperties
  <1>3. a \o <<>> = a /\ <<>> \o (f \o q) = f \o q
    BY <1>2, ConcatEmptySeq
  <1> QED
    BY <1>1, <1>3

\* Taking a byte moves it from what has been written to what has been taken.
LEMMA TakeMoves ==
  ASSUME NEW k \in Seq(Nat), NEW t \in Seq(Nat), t # <<>>
  PROVE  /\ Append(k, Head(t)) \in Seq(Nat) /\ Tail(t) \in Seq(Nat)
         /\ Append(k, Head(t)) \o Tail(t) = k \o t
  <1>1. Head(t) \in Nat /\ Tail(t) \in Seq(Nat)
    BY HeadTailProperties
  <1>2. Append(k, Head(t)) = k \o <<Head(t)>> /\ Append(k, Head(t)) \in Seq(Nat)
    BY <1>1, AppendIsConcat, AppendProperties
  <1>3. <<Head(t)>> \in Seq(Nat)
    BY <1>1
  <1>4. (k \o <<Head(t)>>) \o Tail(t) = k \o (<<Head(t)>> \o Tail(t))
    <2> DEFINE h == <<Head(t)>>
               u == Tail(t)
    <2>1. k \in Seq(Nat) /\ h \in Seq(Nat) /\ u \in Seq(Nat)
      BY <1>1, <1>3
    <2> HIDE DEF h, u
    <2>2. (k \o h) \o u = k \o (h \o u)
      BY <2>1, Assoc, ZenonT(40)
    <2> QED
      BY <2>2 DEF h, u
  <1>5. <<Head(t)>> \o Tail(t) = t
    <2>1. Len(t) \in Nat \ {0}
      BY EmptySeq
    <2>2. SubSeq(t, 1, Len(t)) = <<t[1]>> \o SubSeq(t, 2, Len(t))
      <3>1. 1 \in 1..Len(t) /\ Len(t) \in 1..Len(t)
        BY <2>1
      <3>2. SubSeq(t, 1, Len(t)) = <<t[1]>> \o SubSeq(t, 1 + 1, Len(t))
        BY <3>1, SubSeqRecursiveFirst
      <3> QED
        BY <3>2
    <2>3. Tail(t) = SubSeq(t, 2, Len(t)) /\ SubSeq(t, 1, Len(t)) = t
      BY TailIsSubSeq, SubSeqFull
    <2>4. Head(t) = t[1]
      OBVIOUS
    <2> QED
      BY <2>2, <2>3, <2>4
  <1> QED
    BY <1>1, <1>2, <1>4, <1>5

\* The bytes 1, ..., n.
Bytes(n) == [i \in 1..n |-> i]

\* The bytes sent are a sequence, one longer with each byte.
LEMMA BytesGrow ==
  ASSUME NEW n \in Nat
  PROVE  /\ Bytes(n) \in Seq(Nat) /\ Len(Bytes(n)) = n
         /\ Append(Bytes(n), n + 1) = Bytes(n + 1)
  <1>1. ASSUME NEW m \in Nat
        PROVE  Bytes(m) \in Seq(Nat) /\ Len(Bytes(m)) = m
    BY <1>1 DEF Bytes
  <1>2. /\ Bytes(n) \in Seq(Nat) /\ Len(Bytes(n)) = n
        /\ Bytes(n + 1) \in Seq(Nat) /\ Len(Bytes(n + 1)) = n + 1
    BY <1>1
  <1>3. /\ Append(Bytes(n), n + 1) \in Seq(Nat)
        /\ Len(Append(Bytes(n), n + 1)) = n + 1
        /\ \A i \in 1..n : Append(Bytes(n), n + 1)[i] = Bytes(n)[i]
        /\ Append(Bytes(n), n + 1)[n + 1] = n + 1
    BY <1>2, AppendProperties
  <1>4. \A i \in 1..(n + 1) : Append(Bytes(n), n + 1)[i] = Bytes(n + 1)[i]
    BY <1>3 DEF Bytes
  <1> QED
    BY <1>2, <1>3, <1>4, SeqEqual

\* Sending a byte appends it to the whole stream.
LEMMA SendAppends ==
  ASSUME NEW a \in Seq(Nat), NEW r \in Seq(Nat), NEW e \in Nat
  PROVE  /\ a \o Append(r, e) = Append(a \o r, e)
         /\ a \o Append(r, e) = (a \o r) \o <<e>>
  <1>1. Append(r, e) = r \o <<e>> /\ <<e>> \in Seq(Nat)
    BY AppendIsConcat
  <1>2. a \o (r \o <<e>>) = (a \o r) \o <<e>>
    BY <1>1, Assoc, ZenonT(40)
  <1>3. a \o r \in Seq(Nat)
    BY ConcatProperties
  <1>4. Append(a \o r, e) = (a \o r) \o <<e>>
    BY <1>3, AppendIsConcat
  <1> QED
    BY <1>1, <1>2, <1>4

(***************************************************************************)
(* The inductive invariant                                                 *)
(***************************************************************************)

\* Where a pump is says what it holds and whether it has passed the end on.
Pumps ==
    \A d \in Endpoints :
        /\ fin[d] <=> pump[d] = "done"
        /\ pump[d] = "write" <=> buffer[d] # <<>>

\* The activity channel and the history variable were set together.
Clocks == age = quiet

IInv ==
    TypeOK /\ Pumps /\ Clocks /\ StreamIntact /\ EofAfterLastByte /\ IdleMeansQuiet

\* The history of a direction, as the invariant has it.
Stream(d) == (Delivered(d) \o buffer[d]) \o rx[d]

\* The invariant holds when relay_bidirectional is called.
LEMMA IInvInit == Init => IInv
  <1> SUFFICES ASSUME Init PROVE IInv
    OBVIOUS
  <1> USE RelayBounds
  <1>1. TypeOK
    <2>1. <<>> \in Seq(Nat)
      BY EmptySeq
    <2>2. unseen \in BOOLEAN
      BY ZenonT(40) DEF Init
    <2>3. eof \in [Endpoints -> BOOLEAN] /\ fin \in [Endpoints -> BOOLEAN]
      BY ZenonT(40) DEF Init
    <2> QED
      BY <2>1, <2>2, <2>3 DEF Init, TypeOK
  <1>2. StreamIntact
    <2>1. Bytes(0) = <<>>
      BY DEF Bytes
    <2>2. (<<>> \o <<>>) \o <<>> = <<>> /\ <<>> \o <<>> = <<>>
      BY EmptySeq, ConcatEmptySeq
    <2> QED
      BY <2>1, <2>2 DEF Init, StreamIntact, Delivered, Bytes
  <1>3. Pumps /\ Clocks /\ EofAfterLastByte /\ IdleMeansQuiet
    BY DEF Init, Pumps, Clocks, EofAfterLastByte, IdleMeansQuiet
  <1> QED
    BY <1>1, <1>2, <1>3 DEF IInv

\* Every step that does not touch the streams: only clocks and the outcome.
LEMMA ClockStepPreservesIInv ==
  ASSUME IInv, UNCHANGED streams, TypeOK', Clocks', IdleMeansQuiet'
  PROVE  IInv'
  <1>1. Pumps' /\ StreamIntact' /\ EofAfterLastByte'
    BY ZenonT(40) DEF IInv, streams, Pumps, StreamIntact, EofAfterLastByte, Delivered
  <1> QED
    BY <1>1 DEF IInv

\* A step of direction d that leaves the other direction alone and, in d,
\* the stream as a whole.
LEMMA StreamStepPreservesIInv ==
  ASSUME IInv, NEW d \in Endpoints, TypeOK', Clocks', IdleMeansQuiet',
         UNCHANGED <<sent, eof, reset>>,
         \A e \in Endpoints \ {d} :
            /\ rx'[e] = rx[e] /\ buffer'[e] = buffer[e] /\ tx'[e] = tx[e]
            /\ taken'[e] = taken[e] /\ fin'[e] = fin[e] /\ pump'[e] = pump[e],
         Stream(d)' = Stream(d),
         fin'[d] <=> pump'[d] = "done",
         pump'[d] = "write" <=> buffer'[d] # <<>>,
         fin'[d] => eof[d] /\ Delivered(d)' = Bytes(sent[d])
  PROVE  IInv'
  <1>1. Pumps'
    BY DEF IInv, Pumps
  <1>2. StreamIntact'
    <2> SUFFICES ASSUME NEW e \in Endpoints \ reset
                 PROVE  Stream(e)' = Bytes(sent[e])
      BY ZenonT(40) DEF StreamIntact, Stream, Bytes
    <2>1. Stream(e) = Bytes(sent[e])
      BY ZenonT(40) DEF IInv, StreamIntact, Stream, Bytes
    <2>2. Stream(e)' = Stream(e)
      BY ZenonT(40) DEF Stream, Delivered
    <2> QED
      BY <2>1, <2>2
  <1>3. EofAfterLastByte'
    <2> SUFFICES ASSUME NEW e \in Endpoints, fin'[e]
                 PROVE  eof[e] /\ Delivered(e)' = Bytes(sent[e])
      BY DEF EofAfterLastByte, Bytes
    <2>1. CASE e # d
      BY <2>1, ZenonT(40) DEF IInv, EofAfterLastByte, Delivered, Bytes
    <2> QED
      BY <2>1
  <1> QED
    BY <1>1, <1>2, <1>3 DEF IInv

(***************************************************************************)
(* Every step preserves it                                                 *)
(***************************************************************************)

\* reader.read
LEMMA ReadPreservesIInv ==
  ASSUME IInv, NEW d \in Endpoints, Read(d)
  PROVE  IInv'
  <1>1. PICK n \in 1..Min({BufferSize, Len(rx[d])}) :
            /\ buffer' = [buffer EXCEPT ![d] = Front(rx[d], n)]
            /\ rx' = [rx EXCEPT ![d] = Rest(rx[d], n)]
    BY ZenonT(40) DEF Read
  <1>2. /\ pump[d] = "read" /\ pump' = [pump EXCEPT ![d] = "write"]
        /\ UNCHANGED <<sent, eof, reset, tx, taken, fin, outcome, clocks>>
    BY DEF Read
  <1>3. rx[d] \in Seq(Nat) /\ Len(rx[d]) \in Nat /\ BufferSize \in Nat
    BY RelayBounds, LenProperties DEF IInv, TypeOK
  <1>4. n \in 0..Len(rx[d]) /\ n > 0
    BY <1>3, BelowMin
  <1>5. /\ Front(rx[d], n) \in Seq(Nat) /\ Len(Front(rx[d], n)) = n
        /\ Rest(rx[d], n) \in Seq(Nat)
        /\ Front(rx[d], n) \o Rest(rx[d], n) = rx[d]
    BY <1>3, <1>4, FrontRest, ZenonT(40)
  <1>6. TypeOK'
    BY <1>1, <1>2, <1>5 DEF IInv, TypeOK, clocks
  <1>7. Clocks' /\ IdleMeansQuiet'
    BY <1>2 DEF IInv, Clocks, IdleMeansQuiet, clocks
  <1>8. buffer[d] = <<>> /\ ~fin[d]
    BY <1>2 DEF IInv, Pumps
  <1>9. /\ buffer'[d] = Front(rx[d], n) /\ rx'[d] = Rest(rx[d], n)
        /\ pump'[d] = "write"
        /\ \A e \in Endpoints \ {d} :
              rx'[e] = rx[e] /\ buffer'[e] = buffer[e] /\ pump'[e] = pump[e]
    BY <1>1, <1>2 DEF IInv, TypeOK
  <1>10. Stream(d)' = Stream(d)
    <2>1. Delivered(d) \in Seq(Nat) /\ Delivered(d)' = Delivered(d)
      BY <1>2, ConcatProperties DEF IInv, TypeOK, Delivered
    <2> HIDE DEF Delivered
    <2>2. (Delivered(d) \o Front(rx[d], n)) \o Rest(rx[d], n)
              = (Delivered(d) \o <<>>) \o (Front(rx[d], n) \o Rest(rx[d], n))
      BY <1>5, <2>1, ReadMoves, ZenonT(40)
    <2> QED
      BY <1>5, <1>8, <1>9, <2>1, <2>2, ZenonT(40) DEF Stream
  <1>11. buffer'[d] # <<>>
    BY <1>4, <1>5, <1>9, EmptySeq
  <1> QED
    BY <1>2, <1>6, <1>7, <1>8, <1>9, <1>10, <1>11, StreamStepPreservesIInv

\* The end of a stream: the pump holds nothing and has nothing left to read.
LEMMA EofPreservesIInv ==
  ASSUME IInv, NEW d \in Endpoints, Eof(d)
  PROVE  IInv'
  <1>1. /\ pump[d] = "read" /\ rx[d] = <<>> /\ eof[d] /\ d \notin reset
        /\ fin' = [fin EXCEPT ![d] = TRUE]
        /\ pump' = [pump EXCEPT ![d] = "done"]
        /\ outcome' = JoinBoth(d)
        /\ UNCHANGED <<sent, eof, reset, rx, buffer, tx, taken, clocks>>
    BY DEF Eof, ShutdownWriter
  <1>2. outcome' = "ok" \/ outcome' = outcome
    BY <1>1 DEF JoinBoth
  <1>3. TypeOK'
    <2>1. fin' \in [Endpoints -> BOOLEAN]
      BY <1>1, ZenonT(40) DEF IInv, TypeOK
    <2> QED
      BY <1>1, <1>2, <2>1 DEF IInv, TypeOK, clocks
  <1>4. Clocks' /\ IdleMeansQuiet'
    BY <1>1, <1>2 DEF IInv, Clocks, IdleMeansQuiet, clocks
  <1>5. buffer[d] = <<>>
    BY <1>1 DEF IInv, Pumps
  <1>6. Stream(d)' = Stream(d) /\ Delivered(d)' = Delivered(d)
    BY <1>1, ZenonT(40) DEF Stream, Delivered
  <1>7. Delivered(d) = Bytes(sent[d])
    <2>1. Stream(d) = Bytes(sent[d])
      BY <1>1, ZenonT(40) DEF IInv, StreamIntact, Stream, Bytes
    <2>2. Delivered(d) \in Seq(Nat)
      BY ConcatProperties DEF IInv, TypeOK, Delivered
    <2>3. (Delivered(d) \o <<>>) \o <<>> = Delivered(d)
      BY <2>2, ConcatEmptySeq
    <2> QED
      BY <1>1, <1>5, <2>1, <2>3, ZenonT(40) DEF Stream
  <1>8. /\ fin'[d] /\ pump'[d] = "done" /\ buffer'[d] = <<>>
        /\ \A e \in Endpoints \ {d} : fin'[e] = fin[e] /\ pump'[e] = pump[e]
    BY <1>1, <1>5 DEF IInv, TypeOK
  <1> QED
    BY <1>1, <1>3, <1>4, <1>6, <1>7, <1>8, StreamStepPreservesIInv, ZenonT(40)

\* One write of write_all.
LEMMA WritePreservesIInv ==
  ASSUME IInv, outcome = "running", NEW d \in Endpoints, Write(d)
  PROVE  IInv'
  <1>1. PICK n \in 1..Min({Len(buffer[d]), SendBuffer - Len(tx[d])}) :
            /\ tx' = [tx EXCEPT ![d] = @ \o Front(buffer[d], n)]
            /\ buffer' = [buffer EXCEPT ![d] = Rest(buffer[d], n)]
            /\ IF Rest(buffer[d], n) = <<>>
               THEN /\ pump' = [pump EXCEPT ![d] = "read"]
                    /\ age' = 0 /\ unseen' = TRUE /\ quiet' = 0
               ELSE UNCHANGED <<pump, age, unseen, quiet>>
    BY ZenonT(40) DEF Write, Unwritten, ReportActivity
  <1>2. /\ pump[d] = "write" /\ still' = 0
        /\ UNCHANGED <<sent, eof, reset, rx, taken, fin, outcome, timer>>
    BY DEF Write
  <1>3. /\ buffer[d] \in Seq(Nat) /\ tx[d] \in Seq(Nat) /\ taken[d] \in Seq(Nat)
        /\ rx[d] \in Seq(Nat)
        /\ Len(buffer[d]) \in Nat /\ Len(tx[d]) \in Nat /\ SendBuffer \in Nat
        /\ IdleTimeout \in Nat
    BY RelayBounds, LenProperties DEF IInv, TypeOK
  <1>4. n \in 0..Len(buffer[d])
    <2> DEFINE room == SendBuffer - Len(tx[d])
    <2>1. room \in Int /\ Len(buffer[d]) \in Int /\ n \in 1..Min({Len(buffer[d]), room})
      BY <1>3
    <2> HIDE DEF room
    <2>2. n \in Nat /\ n <= Len(buffer[d])
      BY <2>1, BelowMin
    <2> QED
      BY <1>3, <2>2
  <1> DEFINE f == Front(buffer[d], n)
             q == Rest(buffer[d], n)
  <1>5. f \in Seq(Nat) /\ q \in Seq(Nat) /\ f \o q = buffer[d]
    BY <1>3, <1>4, FrontRest, ZenonT(40)
  <1> HIDE DEF f, q
  <1>6. /\ tx' = [tx EXCEPT ![d] = @ \o f]
        /\ buffer' = [buffer EXCEPT ![d] = q]
        /\ IF q = <<>>
           THEN /\ pump' = [pump EXCEPT ![d] = "read"]
                /\ age' = 0 /\ unseen' = TRUE /\ quiet' = 0
           ELSE UNCHANGED <<pump, age, unseen, quiet>>
    BY <1>1 DEF f, q
  <1>7. TypeOK'
    <2>1. tx[d] \o f \in Seq(Nat)
      BY <1>3, <1>5, ConcatProperties
    <2>2. tx' \in [Endpoints -> Seq(Nat)] /\ buffer' \in [Endpoints -> Seq(Nat)]
      BY <1>5, <1>6, <2>1 DEF IInv, TypeOK
    <2>3. unseen' \in BOOLEAN
      BY <1>6, ZenonT(40) DEF IInv, TypeOK
    <2>4. pump' \in [Endpoints -> {"read", "write", "done"}]
      BY <1>6, ZenonT(40) DEF IInv, TypeOK
    <2>5. age' \in 0..IdleTimeout /\ quiet' \in 0..IdleTimeout /\ still' \in 0..IdleTimeout
      BY <1>2, <1>3, <1>6 DEF IInv, TypeOK
    <2> QED
      BY <1>2, <2>2, <2>3, <2>4, <2>5 DEF IInv, TypeOK
  <1>8. Clocks'
    BY <1>6 DEF IInv, Clocks
  <1>9. IdleMeansQuiet'
    BY <1>2 DEF IdleMeansQuiet
  <1>10. /\ tx'[d] = tx[d] \o f /\ buffer'[d] = q
        /\ taken'[d] = taken[d] /\ rx'[d] = rx[d]
        /\ \A e \in Endpoints \ {d} :
              /\ rx'[e] = rx[e] /\ buffer'[e] = buffer[e] /\ tx'[e] = tx[e]
              /\ taken'[e] = taken[e] /\ fin'[e] = fin[e] /\ pump'[e] = pump[e]
    BY <1>2, <1>6, ZenonT(40) DEF IInv, TypeOK
  <1>11. Stream(d)' = Stream(d)
    <2> DEFINE k == taken[d]
               t == tx[d]
    <2>1. k \in Seq(Nat) /\ t \in Seq(Nat) /\ f \in Seq(Nat) /\ q \in Seq(Nat)
      BY <1>3, <1>5
    <2> HIDE DEF k, t
    <2>2. (k \o t) \o f = k \o (t \o f)
      <3>1. k \in Seq(Nat) /\ t \in Seq(Nat) /\ f \in Seq(Nat)
        BY <2>1
      <3> QED
        BY <3>1, Assoc, ZenonT(40)
    <2>3. k \o t \in Seq(Nat)
      BY <2>1, Joined, ZenonT(40)
    <2>4. ((k \o t) \o f) \o q = (k \o t) \o (f \o q)
      <3>1. k \o t \in Seq(Nat) /\ f \in Seq(Nat) /\ q \in Seq(Nat)
        BY <2>1, <2>3
      <3> QED
        BY <3>1, Assoc, ZenonT(40)
    <2> QED
      BY <1>5, <1>10, <2>2, <2>4, ZenonT(40) DEF Stream, Delivered, k, t
  <1>12. ~fin'[d]
    BY <1>2 DEF IInv, Pumps
  <1>13. /\ pump'[d] # "done"
         /\ pump'[d] = "write" <=> buffer'[d] # <<>>
    BY <1>2, <1>6, <1>10 DEF IInv, TypeOK
  <1>14. UNCHANGED <<sent, eof, reset>>
    BY <1>2
  <1> QED
    BY <1>7, <1>8, <1>9, <1>10, <1>11, <1>12, <1>13, <1>14, StreamStepPreservesIInv

\* An endpoint sends a byte.
LEMMA SendPreservesIInv ==
  ASSUME IInv, NEW d \in Endpoints, Send(d)
  PROVE  IInv'
  <1>1. /\ ~eof[d] /\ d \notin reset
        /\ sent' = [sent EXCEPT ![d] = sent[d] + 1]
        /\ rx' = [rx EXCEPT ![d] = Append(rx[d], sent'[d])]
        /\ UNCHANGED <<eof, reset, buffer, tx, taken, fin, pump, outcome, clocks>>
    BY DEF Send
  <1>2. /\ sent[d] \in Nat /\ rx[d] \in Seq(Nat)
        /\ taken[d] \in Seq(Nat) /\ tx[d] \in Seq(Nat) /\ buffer[d] \in Seq(Nat)
    BY DEF IInv, TypeOK
  <1>3. sent'[d] = sent[d] + 1 /\ rx'[d] = Append(rx[d], sent[d] + 1)
    BY <1>1 DEF IInv, TypeOK
  <1>4. Append(rx[d], sent[d] + 1) \in Seq(Nat)
    <2> DEFINE next == sent[d] + 1
    <2>1. next \in Nat /\ rx[d] \in Seq(Nat)
      BY <1>2
    <2> HIDE DEF next
    <2>2. Append(rx[d], next) \in Seq(Nat)
      BY <2>1, AppendProperties
    <2> QED
      BY <2>2 DEF next
  <1>5. TypeOK'
    BY <1>1, <1>2, <1>3, <1>4 DEF IInv, TypeOK, clocks
  <1>6. Pumps' /\ Clocks' /\ IdleMeansQuiet'
    BY <1>1 DEF IInv, Pumps, Clocks, IdleMeansQuiet, clocks
  <1>7. StreamIntact'
    <2> SUFFICES ASSUME NEW e \in Endpoints \ reset
                 PROVE  Stream(e)' = Bytes(sent'[e])
      BY <1>1, ZenonT(40) DEF StreamIntact, Stream, Bytes
    <2>1. Stream(e) = Bytes(sent[e])
      BY ZenonT(40) DEF IInv, StreamIntact, Stream, Bytes
    <2>2. CASE e # d
      <3>1. sent'[e] = sent[e] /\ rx'[e] = rx[e]
        BY <1>1, <2>2 DEF IInv, TypeOK
      <3> QED
        BY <1>1, <2>1, <3>1, ZenonT(40) DEF Stream, Delivered
    <2>3. CASE e = d
      <3> DEFINE a == Delivered(d) \o buffer[d]
      <3>1. a \in Seq(Nat)
        BY <1>2, ConcatProperties DEF Delivered
      <3>2. a' = a
        BY <1>1 DEF Delivered
      <3> HIDE DEF a
      <3>3. a \o Append(rx[d], sent[d] + 1) = Append(a \o rx[d], sent[d] + 1)
        <4> DEFINE next == sent[d] + 1
        <4>1. next \in Nat /\ rx[d] \in Seq(Nat)
          BY <1>2
        <4> HIDE DEF next
        <4>2. a \o Append(rx[d], next) = Append(a \o rx[d], next)
          BY <3>1, <4>1, SendAppends
        <4> QED
          BY <4>2 DEF next
      <3>4. Append(Bytes(sent[d]), sent[d] + 1) = Bytes(sent[d] + 1)
        BY <1>2, BytesGrow, ZenonT(40)
      <3>5. Stream(d) = a \o rx[d] /\ Stream(d)' = a \o Append(rx[d], sent[d] + 1)
        BY <1>3, <3>2 DEF Stream, a
      <3> QED
        BY <1>3, <2>1, <2>3, <3>3, <3>4, <3>5, ZenonT(40)
    <2> QED
      BY <2>2, <2>3
  <1>8. EofAfterLastByte'
    <2> SUFFICES ASSUME NEW e \in Endpoints, fin[e]
                 PROVE  eof[e] /\ Delivered(e)' = Bytes(sent'[e])
      BY <1>1 DEF EofAfterLastByte, Bytes
    <2>1. eof[e] /\ Delivered(e) = Bytes(sent[e])
      BY DEF IInv, EofAfterLastByte, Bytes
    <2>2. e # d
      BY <1>1, <2>1
    <2>3. sent'[e] = sent[e] /\ Delivered(e)' = Delivered(e)
      BY <1>1, <2>2 DEF IInv, TypeOK, Delivered
    <2> QED
      BY <2>1, <2>3
  <1> QED
    BY <1>5, <1>6, <1>7, <1>8 DEF IInv

\* An endpoint takes a byte.
LEMMA TakePreservesIInv ==
  ASSUME IInv, NEW d \in Endpoints, Take(d)
  PROVE  IInv'
  <1>1. /\ tx[d] # <<>>
        /\ taken' = [taken EXCEPT ![d] = Append(taken[d], Head(tx[d]))]
        /\ tx' = [tx EXCEPT ![d] = Tail(tx[d])]
        /\ UNCHANGED <<sent, eof, reset, rx, buffer, fin, pump, outcome, clocks>>
    BY DEF Take
  <1>2. taken[d] \in Seq(Nat) /\ tx[d] \in Seq(Nat)
    BY DEF IInv, TypeOK
  <1>3. /\ Append(taken[d], Head(tx[d])) \in Seq(Nat) /\ Tail(tx[d]) \in Seq(Nat)
        /\ Append(taken[d], Head(tx[d])) \o Tail(tx[d]) = taken[d] \o tx[d]
    BY <1>1, <1>2, TakeMoves, ZenonT(40)
  <1>4. TypeOK'
    BY <1>1, <1>3 DEF IInv, TypeOK, clocks
  <1>5. Clocks' /\ IdleMeansQuiet'
    BY <1>1 DEF IInv, Clocks, IdleMeansQuiet, clocks
  <1>6. /\ taken'[d] = Append(taken[d], Head(tx[d])) /\ tx'[d] = Tail(tx[d])
        /\ \A e \in Endpoints \ {d} : taken'[e] = taken[e] /\ tx'[e] = tx[e]
    BY <1>1 DEF IInv, TypeOK
  <1>7. Delivered(d)' = Delivered(d)
    BY <1>3, <1>6, ZenonT(40) DEF Delivered
  <1>8. Stream(d)' = Stream(d)
    BY <1>1, <1>7 DEF Stream
  <1>9. /\ fin'[d] <=> pump'[d] = "done"
        /\ pump'[d] = "write" <=> buffer'[d] # <<>>
    BY <1>1 DEF IInv, Pumps
  <1>10. fin'[d] => eof[d] /\ Delivered(d)' = Bytes(sent[d])
    BY <1>1, <1>7 DEF IInv, EofAfterLastByte, Bytes
  <1> QED
    BY <1>1, <1>4, <1>5, <1>6, <1>8, <1>9, <1>10, StreamStepPreservesIInv

\* An endpoint shuts down its sending side, or its connection fails.
LEMMA ClosePreservesIInv ==
  ASSUME IInv, NEW d \in Endpoints, CloseSending(d) \/ Reset(d)
  PROVE  IInv'
  <1>1. /\ UNCHANGED <<sent, buffer, tx, taken, fin, pump, outcome, clocks>>
        /\ \A e \in Endpoints : eof[e] => eof'[e]
        /\ reset \subseteq reset' /\ reset' \subseteq Endpoints
        /\ \A e \in Endpoints \ reset' : rx'[e] = rx[e]
        /\ eof' \in [Endpoints -> BOOLEAN]
        /\ rx' \in [Endpoints -> Seq(Nat)]
    <2>1. CASE CloseSending(d)
      <3>1. eof' \in [Endpoints -> BOOLEAN] /\ \A e \in Endpoints : eof[e] => eof'[e]
        BY <2>1, ZenonT(40) DEF CloseSending, IInv, TypeOK
      <3> QED
        BY <2>1, <3>1 DEF CloseSending, IInv, TypeOK
    <2>2. CASE Reset(d)
      <3>1. <<>> \in Seq(Nat) /\ rx \in [Endpoints -> Seq(Nat)]
        BY EmptySeq DEF IInv, TypeOK
      <3>2. rx' = rx \/ rx' = [rx EXCEPT ![d] = <<>>]
        BY <2>2 DEF Reset
      <3>3. rx' \in [Endpoints -> Seq(Nat)]
        BY <3>1, <3>2, ZenonT(40)
      <3> QED
        BY <2>2, <3>3 DEF Reset, IInv, TypeOK
    <2> QED
      BY <2>1, <2>2
  <1>2. TypeOK'
    BY <1>1 DEF IInv, TypeOK, clocks
  <1>3. Pumps' /\ Clocks' /\ IdleMeansQuiet'
    BY <1>1 DEF IInv, Pumps, Clocks, IdleMeansQuiet, clocks
  <1>4. StreamIntact'
    BY <1>1, ZenonT(40) DEF IInv, StreamIntact, Delivered
  <1>5. EofAfterLastByte'
    BY <1>1, ZenonT(40) DEF IInv, EofAfterLastByte, Delivered
  <1> QED
    BY <1>2, <1>3, <1>4, <1>5 DEF IInv

\* A new deadline is at most a timeout away.
LEMMA ArmIsTyped ==
  ASSUME IdleTimeout \in Nat, TypeOK, Arm
  PROVE  /\ unseen' \in BOOLEAN
         /\ age' \in 0..IdleTimeout /\ timer' \in 0..IdleTimeout
         /\ quiet' \in 0..IdleTimeout /\ still' \in 0..IdleTimeout
  <1>1. unseen' \in BOOLEAN
    BY ZenonT(40) DEF Arm
  <1>2. /\ age \in 0..IdleTimeout /\ quiet \in 0..IdleTimeout
        /\ still \in 0..IdleTimeout
        /\ timer' = IdleTimeout - age /\ age' = age /\ quiet' = quiet /\ still' = still
    BY DEF TypeOK, Arm
  <1>3. /\ age' \in 0..IdleTimeout /\ timer' \in 0..IdleTimeout
        /\ quiet' \in 0..IdleTimeout /\ still' \in 0..IdleTimeout
    BY <1>2
  <1> QED
    BY <1>1, <1>3

\* The watchdog and the passing of time.
LEMMA WatchdogPreservesIInv ==
  ASSUME IInv, outcome = "running", Watchdog \/ Tick
  PROVE  IInv'
  <1>1. IdleTimeout \in Nat /\ IdleTimeout # 0
    BY RelayBounds DEF Watchdog, Tick
  <1>2. CASE Deadline
    <2>1. CASE Idle /\ outcome' = "idle" /\ UNCHANGED <<clocks, streams>>
      <3>1. TypeOK'
        BY <2>1 DEF IInv, TypeOK, clocks, streams
      <3>2. Clocks' /\ IdleMeansQuiet'
        BY <2>1 DEF IInv, Clocks, IdleMeansQuiet, Idle, clocks
      <3> QED
        BY <2>1, <3>1, <3>2, ClockStepPreservesIInv
    <2>2. CASE Arm /\ UNCHANGED <<outcome, streams>>
      <3>1. TypeOK'
        BY <1>1, <2>2, ArmIsTyped DEF IInv, TypeOK, streams
      <3>2. Clocks' /\ IdleMeansQuiet'
        BY <2>2 DEF IInv, Clocks, IdleMeansQuiet, Arm
      <3> QED
        BY <2>2, <3>1, <3>2, ClockStepPreservesIInv
    <2> QED
      BY <1>2, <2>1, <2>2 DEF Deadline
  <1>3. CASE Changed
    <2>1. TypeOK'
      BY <1>1, <1>3, ArmIsTyped DEF IInv, TypeOK, Changed, streams
    <2>2. Clocks' /\ IdleMeansQuiet'
      BY <1>3 DEF IInv, Clocks, IdleMeansQuiet, Changed, Arm
    <2> QED
      BY <1>3, <2>1, <2>2, ClockStepPreservesIInv DEF Changed
  <1>4. CASE Tick
    <2> DEFINE older(t) == Min({t + 1, IdleTimeout})
    <2>1. \A t \in 0..IdleTimeout : older(t) \in 0..IdleTimeout
      <3> SUFFICES ASSUME NEW t \in 0..IdleTimeout
                   PROVE  older(t) \in 0..IdleTimeout
        OBVIOUS
      <3> DEFINE u == t + 1
      <3>1. u \in Int /\ u >= 0 /\ IdleTimeout \in Int /\ IdleTimeout >= 0
        BY <1>1
      <3> HIDE DEF u
      <3>2. Min({u, IdleTimeout}) \in {u, IdleTimeout} /\ Min({u, IdleTimeout}) <= IdleTimeout
        BY <3>1, MinPair
      <3> QED
        BY <3>1, <3>2 DEF u
    <2>2. /\ age' = older(age) /\ quiet' = older(quiet) /\ still' = older(still)
          /\ timer' = (IF timer > 0 THEN timer - 1 ELSE timer)
          /\ UNCHANGED <<streams, outcome, unseen>>
      BY <1>4 DEF Tick
    <2> HIDE DEF older
    <2>3. TypeOK'
      <3>1. /\ age \in 0..IdleTimeout /\ quiet \in 0..IdleTimeout
            /\ still \in 0..IdleTimeout /\ timer \in 0..IdleTimeout
        BY DEF IInv, TypeOK
      <3>2. timer' \in 0..IdleTimeout
        BY <1>1, <2>2, <3>1
      <3>3. /\ age' \in 0..IdleTimeout /\ quiet' \in 0..IdleTimeout
            /\ still' \in 0..IdleTimeout
        BY <2>1, <2>2, <3>1
      <3> QED
        BY <2>2, <3>2, <3>3 DEF IInv, TypeOK, streams
    <2>4. Clocks' /\ IdleMeansQuiet'
      BY <2>2 DEF IInv, Clocks, IdleMeansQuiet
    <2> QED
      BY <2>2, <2>3, <2>4, ClockStepPreservesIInv
  <1> QED
    BY <1>2, <1>3, <1>4 DEF Watchdog

\* An error of a pump ends the relay and leaves the rest as it is.
LEMMA IoErrorPreservesIInv ==
  ASSUME IInv, NEW d \in Endpoints, IoError(d)
  PROVE  IInv'
  <1>1. outcome' = "io_error" /\ UNCHANGED <<streams, clocks>>
    BY DEF IoError
  <1>2. TypeOK' /\ Clocks' /\ IdleMeansQuiet'
    BY <1>1 DEF IInv, TypeOK, Clocks, IdleMeansQuiet, streams, clocks
  <1> QED
    BY <1>1, <1>2, ClockStepPreservesIInv

\* Every step of the relay and of its endpoints preserves the invariant.
LEMMA IInvNext == IInv /\ [Next]_vars => IInv'
  <1> SUFFICES ASSUME IInv, [Next]_vars PROVE IInv'
    OBVIOUS
  <1>1. ASSUME NEW d \in Endpoints, Pump(d) PROVE IInv'
    BY <1>1, ReadPreservesIInv, EofPreservesIInv, WritePreservesIInv,
       IoErrorPreservesIInv DEF Pump
  <1>2. ASSUME NEW d \in Endpoints, Network(d) PROVE IInv'
    BY <1>2, SendPreservesIInv, TakePreservesIInv, ClosePreservesIInv
       DEF Network
  <1>3. CASE Watchdog \/ Tick
    <2>1. outcome = "running"
      BY <1>3 DEF Watchdog, Tick
    <2> QED
      BY <1>3, <2>1, WatchdogPreservesIInv
  <1>4. CASE UNCHANGED vars
    <2>1. UNCHANGED streams /\ UNCHANGED outcome /\ UNCHANGED clocks
      BY <1>4 DEF vars
    <2>2. TypeOK' /\ Clocks' /\ IdleMeansQuiet'
      BY <2>1 DEF IInv, TypeOK, Clocks, IdleMeansQuiet, streams, clocks
    <2> QED
      BY <2>1, <2>2, ClockStepPreservesIInv
  <1> QED
    BY <1>1, <1>2, <1>3, <1>4 DEF Next, Returned

\* The invariant, for any numbers of bytes, buffer sizes and idle timeout.
THEOREM Invariance == Spec => []IInv
  <1>1. Init => IInv
    BY IInvInit
  <1>2. IInv /\ [Next]_vars => IInv'
    BY IInvNext
  <1> QED
    BY <1>1, <1>2, PTL DEF Spec

\* relay_bidirectional neither loses, repeats nor reorders a byte.
THEOREM StreamsStayIntact == Spec => []StreamIntact
  <1>1. IInv => StreamIntact
    BY DEF IInv
  <1> QED
    BY <1>1, Invariance, PTL

\* The end of a stream is passed on after its last byte.
THEOREM EofComesLast == Spec => []EofAfterLastByte
  <1>1. IInv => EofAfterLastByte
    BY DEF IInv
  <1> QED
    BY <1>1, Invariance, PTL

\* idle_watchdog closes only a tunnel that forwarded nothing for the timeout.
THEOREM OnlyQuietTunnelsTimeOut == Spec => []IdleMeansQuiet
  <1>1. IInv => IdleMeansQuiet
    BY DEF IInv
  <1> QED
    BY <1>1, Invariance, PTL

(***************************************************************************)
(* The relay implements Tunnel                                             *)
(***************************************************************************)

\* Where a concatenation is cut, its parts come out.
LEMMA CutConcat ==
  ASSUME NEW f \in Seq(Nat), NEW q \in Seq(Nat)
  PROVE  /\ SubSeq(f \o q, 1, Len(f)) = f
         /\ SubSeq(f \o q, Len(f) + 1, Len(f \o q)) = q
         /\ f \o q \in Seq(Nat) /\ Len(f \o q) = Len(f) + Len(q)
  <1>1. /\ Len(f) \in Nat /\ Len(q) \in Nat
        /\ f \o q \in Seq(Nat) /\ Len(f \o q) = Len(f) + Len(q)
        /\ \A i \in 1..(Len(f) + Len(q)) :
              (f \o q)[i] = IF i <= Len(f) THEN f[i] ELSE q[i - Len(f)]
    BY LenProperties, ConcatProperties
  <1> DEFINE s == f \o q
             m == Len(f)
             k == Len(q)
  <1>2. /\ s \in Seq(Nat) /\ m \in Nat /\ k \in Nat /\ Len(s) = m + k
        /\ \A i \in 1..(m + k) : s[i] = IF i <= m THEN f[i] ELSE q[i - m]
        /\ \A i \in 1..(m + k) : s[i] \in Nat
    BY <1>1, ElementOfSeq
  <1> HIDE DEF s
  <1>3. SubSeq(s, 1, m) = f
    <2>1. /\ SubSeq(s, 1, m) \in Seq(Nat)
          /\ Len(SubSeq(s, 1, m)) = IF 1 <= m THEN m - 1 + 1 ELSE 0
          /\ \A i \in 1..(m - 1 + 1) : SubSeq(s, 1, m)[i] = s[1 + i - 1]
      <3>1. 1 \in Int /\ m \in Int /\ \A i \in 1..m : s[i] \in Nat
        BY <1>2
      <3> QED
        BY <3>1, SubSeqProperties
    <2>2. Len(SubSeq(s, 1, m)) = Len(f)
      BY <1>2, <2>1
    <2>3. \A i \in 1..Len(f) : SubSeq(s, 1, m)[i] = f[i]
      BY <1>2, <2>1
    <2> QED
      BY <2>1, <2>2, <2>3, SeqEqual
  <1>4. SubSeq(s, m + 1, Len(s)) = q
    <2> DEFINE r == SubSeq(s, m + 1, Len(s))
    <2>1. m \in 0..Len(s)
      BY <1>2
    <2>2. r \in Seq(Nat) /\ SubSeq(s, 1, m) \o r = s
      BY <1>2, <2>1, FrontRest, ZenonT(40) DEF Front, Rest
    <2> HIDE DEF r
    <2>3. f \o r = f \o q
      BY <1>3, <2>2, ZenonT(40) DEF s
    <2>4. r = q
      BY <2>2, <2>3, ConcatSimplifications, ZenonT(40)
    <2> QED
      BY <2>4 DEF r
  <1> QED
    BY <1>1, <1>2, <1>3, <1>4 DEF s

\* Both modules speak of the same two endpoints.
LEMMA SameEndpoints ==
  /\ Abstract!Endpoints = Endpoints
  /\ \A d \in Endpoints : Abstract!Other(d) = Other(d)
  BY DEF Abstract!Endpoints, Endpoints, Abstract!Other, Other

\* An open tunnel is a running relay.
LEMMA Outcomes ==
  /\ outcome = "running" => TunnelState = "open"
  /\ outcome = "ok" => TunnelState = "complete"
  /\ outcome = "io_error" => TunnelState = "failed"
  /\ outcome = "idle" => TunnelState = "idle"
  BY DEF TunnelState

\* The refinement mapping yields streams.
LEMMA MappedTypes ==
  ASSUME TypeOK, NEW d \in Endpoints
  PROVE  /\ InFlight[d] = buffer[d] \o rx[d] /\ InFlight[d] \in Seq(Nat)
         /\ Arrived[d] = taken[d] \o tx[d] /\ Arrived[d] \in Seq(Nat)
  <1>1. /\ buffer[d] \in Seq(Nat) /\ rx[d] \in Seq(Nat)
        /\ taken[d] \in Seq(Nat) /\ tx[d] \in Seq(Nat)
    BY DEF TypeOK
  <1>2. InFlight[d] = buffer[d] \o rx[d] /\ Arrived[d] = taken[d] \o tx[d]
    BY ZenonT(40) DEF InFlight, Arrived, Delivered
  <1>3. buffer[d] \o rx[d] \in Seq(Nat)
    BY <1>1, ConcatProperties
  <1>4. taken[d] \o tx[d] \in Seq(Nat)
    BY <1>1, ConcatProperties
  <1> QED
    BY <1>2, <1>3, <1>4

\* What a read moves stays in flight.
LEMMA ReadIsHidden ==
  ASSUME IInv, NEW d \in Endpoints, Read(d)
  PROVE  UNCHANGED Abstract!vars
  <1>1. PICK n \in 1..Min({BufferSize, Len(rx[d])}) :
            /\ buffer' = [buffer EXCEPT ![d] = Front(rx[d], n)]
            /\ rx' = [rx EXCEPT ![d] = Rest(rx[d], n)]
    BY ZenonT(40) DEF Read
  <1>2. /\ pump[d] = "read"
        /\ UNCHANGED <<sent, eof, reset, tx, taken, fin, outcome, clocks>>
    BY DEF Read
  <1>3. rx[d] \in Seq(Nat) /\ Len(rx[d]) \in Nat /\ BufferSize \in Nat
    BY RelayBounds, LenProperties DEF IInv, TypeOK
  <1>4. n \in 0..Len(rx[d])
    <2>1. Len(rx[d]) \in Int /\ BufferSize \in Int
      BY <1>3
    <2>2. n \in Nat /\ n <= Len(rx[d])
      BY <2>1, BelowMin, ZenonT(40)
    <2> QED
      BY <1>3, <2>2
  <1>5. Front(rx[d], n) \o Rest(rx[d], n) = rx[d]
    BY <1>3, <1>4, FrontRest, ZenonT(40)
  <1>6. buffer[d] = <<>> /\ <<>> \o rx[d] = rx[d]
    BY <1>2, <1>3, ConcatEmptySeq DEF IInv, Pumps
  <1>7. ASSUME NEW e \in Endpoints PROVE buffer'[e] \o rx'[e] = buffer[e] \o rx[e]
    <2>1. CASE e # d
      <3>1. buffer'[e] = buffer[e] /\ rx'[e] = rx[e]
        BY <1>1, <2>1 DEF IInv, TypeOK
      <3> QED
        BY <3>1
    <2>2. CASE e = d
      <3>1. buffer'[d] = Front(rx[d], n) /\ rx'[d] = Rest(rx[d], n)
        BY <1>1 DEF IInv, TypeOK
      <3> QED
        BY <1>5, <1>6, <2>2, <3>1, ZenonT(40)
    <2> QED
      BY <2>1, <2>2, ZenonT(40)
  <1>8. InFlight' = InFlight
    BY <1>7, ZenonT(40) DEF InFlight
  <1>9. Arrived' = Arrived /\ TunnelState' = TunnelState
    BY <1>2 DEF Arrived, Delivered, TunnelState
  <1> QED
    BY <1>2, <1>8, <1>9 DEF Abstract!vars

\* A byte that is taken had arrived.
LEMMA TakeIsHidden ==
  ASSUME IInv, NEW d \in Endpoints, Take(d)
  PROVE  UNCHANGED Abstract!vars
  <1>1. /\ tx[d] # <<>>
        /\ taken' = [taken EXCEPT ![d] = Append(taken[d], Head(tx[d]))]
        /\ tx' = [tx EXCEPT ![d] = Tail(tx[d])]
        /\ UNCHANGED <<sent, eof, reset, rx, buffer, fin, pump, outcome, clocks>>
    BY DEF Take
  <1>2. taken[d] \in Seq(Nat) /\ tx[d] \in Seq(Nat)
    BY DEF IInv, TypeOK
  <1>3. Append(taken[d], Head(tx[d])) \o Tail(tx[d]) = taken[d] \o tx[d]
    BY <1>1, <1>2, TakeMoves, ZenonT(40)
  <1>4. ASSUME NEW e \in Endpoints PROVE taken'[e] \o tx'[e] = taken[e] \o tx[e]
    <2>1. CASE e # d
      <3>1. taken'[e] = taken[e] /\ tx'[e] = tx[e]
        BY <1>1, <2>1 DEF IInv, TypeOK
      <3> QED
        BY <3>1
    <2>2. CASE e = d
      <3>1. taken'[d] = Append(taken[d], Head(tx[d])) /\ tx'[d] = Tail(tx[d])
        BY <1>1 DEF IInv, TypeOK
      <3> QED
        BY <1>3, <2>2, <3>1, ZenonT(40)
    <2> QED
      BY <2>1, <2>2, ZenonT(40)
  <1>5. Arrived' = Arrived
    BY <1>4, ZenonT(40) DEF Arrived, Delivered
  <1>6. InFlight' = InFlight /\ TunnelState' = TunnelState
    BY <1>1 DEF InFlight, TunnelState
  <1> QED
    BY <1>1, <1>5, <1>6 DEF Abstract!vars

\* One write passes on the first bytes in flight.
LEMMA WriteForwards ==
  ASSUME IInv, outcome = "running", NEW d \in Endpoints, Write(d)
  PROVE  Abstract!Forward(d)
  <1>1. PICK n \in 1..Min({Len(buffer[d]), SendBuffer - Len(tx[d])}) :
            /\ tx' = [tx EXCEPT ![d] = @ \o Front(buffer[d], n)]
            /\ buffer' = [buffer EXCEPT ![d] = Rest(buffer[d], n)]
    BY ZenonT(40) DEF Write, Unwritten
  <1>2. /\ Other(d) \notin reset
        /\ UNCHANGED <<sent, eof, reset, rx, taken, fin, outcome, timer>>
    BY DEF Write
  <1>3. /\ buffer[d] \in Seq(Nat) /\ tx[d] \in Seq(Nat) /\ taken[d] \in Seq(Nat)
        /\ rx[d] \in Seq(Nat)
        /\ Len(buffer[d]) \in Nat /\ Len(tx[d]) \in Nat /\ SendBuffer \in Nat
        /\ Len(rx[d]) \in Nat
    BY RelayBounds, LenProperties DEF IInv, TypeOK
  <1>4. n \in 1..Len(buffer[d])
    <2> DEFINE room == SendBuffer - Len(tx[d])
    <2>1. room \in Int /\ Len(buffer[d]) \in Int /\ n \in 1..Min({Len(buffer[d]), room})
      BY <1>1, <1>3
    <2> HIDE DEF room
    <2>2. n \in Nat /\ n > 0 /\ n <= Len(buffer[d])
      BY <2>1, BelowMin
    <2> QED
      BY <1>3, <2>2
  <1> DEFINE f == Front(buffer[d], n)
             q == Rest(buffer[d], n)
  <1>5. f \in Seq(Nat) /\ q \in Seq(Nat) /\ f \o q = buffer[d] /\ Len(f) = n
    <2>1. buffer[d] \in Seq(Nat) /\ n \in 0..Len(buffer[d])
      BY <1>3, <1>4
    <2> QED
      BY <2>1, FrontRest, ZenonT(40)
  <1> HIDE DEF f, q
  <1>6. q \o rx[d] \in Seq(Nat) /\ (f \o q) \o rx[d] = f \o (q \o rx[d])
    <2>1. rx[d] \in Seq(Nat)
      BY <1>3
    <2>2. q \o rx[d] \in Seq(Nat)
      BY <1>5, <2>1, Joined, ZenonT(40)
    <2>3. (f \o q) \o rx[d] = f \o (q \o rx[d])
      BY <1>5, <2>1, Assoc, ZenonT(40)
    <2> QED
      BY <2>2, <2>3
  <1>7. InFlight[d] = f \o (q \o rx[d])
    <2>1. InFlight[d] = buffer[d] \o rx[d]
      BY ZenonT(40) DEF InFlight
    <2> QED
      BY <1>5, <1>6, <2>1, ZenonT(40)
  <1>8. /\ SubSeq(InFlight[d], 1, n) = f
        /\ SubSeq(InFlight[d], n + 1, Len(InFlight[d])) = q \o rx[d]
        /\ Len(InFlight[d]) \in Nat /\ n <= Len(InFlight[d])
    <2> DEFINE r == q \o rx[d]
    <2>1. r \in Seq(Nat) /\ Len(r) \in Nat
      BY <1>6, LenProperties
    <2> HIDE DEF r
    <2>2. /\ SubSeq(f \o r, 1, Len(f)) = f
          /\ SubSeq(f \o r, Len(f) + 1, Len(f \o r)) = r
          /\ Len(f \o r) = Len(f) + Len(r)
      BY <1>5, <2>1, CutConcat, ZenonT(40)
    <2>3. InFlight[d] = f \o r
      BY <1>7 DEF r
    <2>4. n \in Nat
      BY <1>3, <1>4
    <2>5. Len(InFlight[d]) = n + Len(r)
      BY <1>5, <2>2, <2>3
    <2>6. Len(InFlight[d]) \in Nat /\ n <= Len(InFlight[d])
      BY <2>1, <2>4, <2>5
    <2>7. SubSeq(InFlight[d], 1, n) = f
      BY <1>5, <2>2, <2>3, ZenonT(40)
    <2>8. SubSeq(InFlight[d], n + 1, Len(InFlight[d])) = r
      BY <1>5, <2>2, <2>3, ZenonT(40)
    <2> QED
      BY <2>6, <2>7, <2>8 DEF r
  <1>9. InFlight' = [InFlight EXCEPT ![d] = q \o rx[d]]
    <2>1. buffer' = [buffer EXCEPT ![d] = q] /\ rx' = rx
      BY <1>1, <1>2 DEF q
    <2> QED
      BY <2>1, ZenonT(40) DEF InFlight, IInv, TypeOK
  <1>10. Arrived' = [Arrived EXCEPT ![d] = Arrived[d] \o f]
    <2>1. tx' = [tx EXCEPT ![d] = tx[d] \o f] /\ taken' = taken
      BY <1>1, <1>2 DEF f
    <2>2. (taken[d] \o tx[d]) \o f = taken[d] \o (tx[d] \o f)
      <3>1. taken[d] \in Seq(Nat) /\ tx[d] \in Seq(Nat) /\ f \in Seq(Nat)
        BY <1>3, <1>5
      <3> QED
        BY <3>1, Assoc, ZenonT(40)
    <2>3. Arrived[d] = taken[d] \o tx[d]
      BY ZenonT(40) DEF Arrived, Delivered
    <2>4. Arrived' = [Arrived EXCEPT ![d] = taken[d] \o (tx[d] \o f)]
      BY <2>1, ZenonT(40) DEF Arrived, Delivered, IInv, TypeOK
    <2> QED
      BY <2>2, <2>3, <2>4, ZenonT(40)
  <1>11. /\ Arrived' = [Arrived EXCEPT ![d] = @ \o SubSeq(InFlight[d], 1, n)]
         /\ InFlight' = [InFlight EXCEPT ![d] = SubSeq(@, n + 1, Len(@))]
         /\ n \in 1..Len(InFlight[d])
    <2>1. n \in 1..Len(InFlight[d])
      BY <1>3, <1>4, <1>8
    <2>2. Arrived' = [Arrived EXCEPT ![d] = @ \o SubSeq(InFlight[d], 1, n)]
      BY <1>8, <1>10, ZenonT(40)
    <2>3. InFlight' = [InFlight EXCEPT ![d] = SubSeq(@, n + 1, Len(@))]
      BY <1>8, <1>9, ZenonT(40)
    <2> QED
      BY <2>1, <2>2, <2>3
  <1>12. TunnelState = "open" /\ TunnelState' = TunnelState
    BY <1>2 DEF TunnelState
  <1>13. Abstract!Other(d) \notin reset
    BY <1>2, SameEndpoints
  <1> QED
    BY <1>2, <1>11, <1>12, <1>13, ZenonT(40) DEF Abstract!Forward

\* The end of a stream is passed on when nothing is in flight.
LEMMA EofForwards ==
  ASSUME IInv, outcome = "running", NEW d \in Endpoints, Eof(d)
  PROVE  Abstract!ForwardEof(d)
  <1>1. /\ pump[d] = "read" /\ rx[d] = <<>> /\ eof[d] /\ d \notin reset
        /\ fin' = [fin EXCEPT ![d] = TRUE]
        /\ outcome' = JoinBoth(d)
        /\ UNCHANGED <<sent, eof, reset, rx, buffer, tx, taken, clocks>>
    BY DEF Eof, ShutdownWriter
  <1>2. buffer[d] = <<>> /\ ~fin[d]
    BY <1>1 DEF IInv, Pumps
  <1>3. InFlight[d] = <<>>
    BY <1>1, <1>2 DEF InFlight
  <1>4. fin[Other(d)] <=> pump[Other(d)] = "done"
    BY OtherEndpoint DEF IInv, Pumps
  <1>5. TunnelState = "open"
    BY Outcomes
  <1>6. TunnelState' = IF fin[Other(d)] THEN "complete" ELSE TunnelState
    <2>1. CASE fin[Other(d)]
      BY <1>1, <1>4, <2>1 DEF JoinBoth, TunnelState
    <2>2. CASE ~fin[Other(d)]
      BY <1>1, <1>4, <2>2 DEF JoinBoth, TunnelState
    <2> QED
      BY <2>1, <2>2
  <1>7. InFlight' = InFlight /\ Arrived' = Arrived
    BY <1>1 DEF InFlight, Arrived, Delivered
  <1>8. Abstract!Other(d) = Other(d)
    BY SameEndpoints
  <1> QED
    BY <1>1, <1>2, <1>3, <1>5, <1>6, <1>7, <1>8 DEF Abstract!ForwardEof

\* Only a failed connection makes a pump fail.
LEMMA IoErrorFails ==
  ASSUME outcome = "running", NEW d \in Endpoints, IoError(d)
  PROVE  Abstract!Fail
  <1>1. outcome' = "io_error" /\ UNCHANGED <<streams, clocks>> /\ reset # {}
    BY DEF IoError
  <1>2. TunnelState = "open" /\ TunnelState' = "failed"
    BY <1>1 DEF TunnelState
  <1>3. /\ InFlight' = InFlight /\ Arrived' = Arrived
        /\ UNCHANGED <<eof, fin, reset>>
    BY <1>1 DEF InFlight, Arrived, Delivered, streams
  <1> QED
    BY <1>1, <1>2, <1>3 DEF Abstract!Fail

\* The watchdog ends the tunnel as idle or is not seen.
LEMMA WatchdogTimesOut ==
  ASSUME Watchdog \/ Tick
  PROVE  Abstract!TimeOut \/ UNCHANGED Abstract!vars
  <1>1. outcome = "running" /\ IdleTimeout # 0 /\ UNCHANGED streams
    BY DEF Watchdog, Deadline, Changed, Tick
  <1>2. outcome' = "idle" \/ outcome' = outcome
    BY DEF Watchdog, Deadline, Changed, Tick
  <1>3. /\ InFlight' = InFlight /\ Arrived' = Arrived
        /\ UNCHANGED <<eof, fin, reset>>
    BY <1>1 DEF InFlight, Arrived, Delivered, streams
  <1>4. CASE outcome' = "idle"
    <2>1. TunnelState = "open" /\ TunnelState' = "idle"
      BY <1>1, <1>4 DEF TunnelState
    <2> QED
      BY <1>1, <1>3, <2>1 DEF Abstract!TimeOut
  <1>5. CASE outcome' = outcome
    <2>1. TunnelState' = TunnelState
      BY <1>5 DEF TunnelState
    <2> QED
      BY <1>3, <2>1 DEF Abstract!vars
  <1> QED
    BY <1>2, <1>4, <1>5

\* A byte sent is the next of its stream.
LEMMA SendSends ==
  ASSUME IInv, NEW d \in Endpoints, Send(d)
  PROVE  Abstract!Send(d, <<Len(Arrived[d]) + Len(InFlight[d]) + 1>>)
  <1>1. /\ ~eof[d] /\ d \notin reset
        /\ sent' = [sent EXCEPT ![d] = sent[d] + 1]
        /\ rx' = [rx EXCEPT ![d] = Append(rx[d], sent'[d])]
        /\ UNCHANGED <<eof, reset, buffer, tx, taken, fin, pump, outcome, clocks>>
    BY DEF Send
  <1>2. /\ sent[d] \in Nat /\ rx[d] \in Seq(Nat) /\ buffer[d] \in Seq(Nat)
        /\ rx'[d] = Append(rx[d], sent[d] + 1)
    BY <1>1 DEF IInv, TypeOK
  <1>3. Len(Arrived[d]) + Len(InFlight[d]) = sent[d]
    <2> DEFINE a == Delivered(d)
               b == buffer[d]
               r == rx[d]
    <2>1. a \in Seq(Nat) /\ b \in Seq(Nat) /\ r \in Seq(Nat)
      BY ConcatProperties DEF IInv, TypeOK, Delivered
    <2>2. (a \o b) \o r = Bytes(sent[d])
      BY <1>1, ZenonT(40) DEF IInv, StreamIntact, Bytes
    <2>3. Arrived[d] = a /\ InFlight[d] = b \o r
      BY ZenonT(40) DEF Arrived, InFlight
    <2> HIDE DEF a, b, r
    <2>4. (a \o b) \o r = a \o (b \o r)
      BY <2>1, Assoc, ZenonT(40)
    <2>5. b \o r \in Seq(Nat)
      BY <2>1, Joined, ZenonT(40)
    <2>6. Len(a \o (b \o r)) = Len(a) + Len(b \o r)
      BY <2>1, <2>5, ConcatProperties
    <2>7. Len(Bytes(sent[d])) = sent[d]
      BY <1>2, BytesGrow, ZenonT(40)
    <2> QED
      BY <2>2, <2>3, <2>4, <2>6, <2>7, ZenonT(40)
  <1> DEFINE next == sent[d] + 1
  <1>4. next \in Nat /\ <<Len(Arrived[d]) + Len(InFlight[d]) + 1>> = <<next>>
    <2>1. next \in Nat
      BY <1>2
    <2>2. <<Len(Arrived[d]) + Len(InFlight[d]) + 1>> = <<next>>
      BY <1>3, ZenonT(40)
    <2> QED
      BY <2>1, <2>2, ZenonT(40)
  <1>5. rx'[d] = Append(rx[d], next) /\ rx' = [rx EXCEPT ![d] = Append(rx[d], next)]
    BY <1>1, <1>2 DEF IInv, TypeOK
  <1> HIDE DEF next
  <1>6. buffer[d] \o Append(rx[d], next) = (buffer[d] \o rx[d]) \o <<next>>
    BY <1>2, <1>4, SendAppends, ZenonT(40)
  <1>7. InFlight[d] = buffer[d] \o rx[d]
    BY ZenonT(40) DEF InFlight
  <1>8. InFlight' = [InFlight EXCEPT ![d] = buffer[d] \o Append(rx[d], next)]
    BY <1>1, <1>5, ZenonT(40) DEF InFlight, IInv, TypeOK
  <1>9. InFlight' = [InFlight EXCEPT ![d] = InFlight[d] \o <<next>>]
    BY <1>6, <1>7, <1>8, ZenonT(40)
  <1>10. Arrived' = Arrived /\ TunnelState' = TunnelState
    BY <1>1 DEF Arrived, Delivered, TunnelState
  <1>11. Abstract!Send(d, <<next>>)
    BY <1>1, <1>9, <1>10 DEF Abstract!Send
  <1> QED
    BY <1>4, <1>11, ZenonT(40)

\* A shutdown is a shutdown.
LEMMA CloseCloses ==
  ASSUME NEW d \in Endpoints, CloseSending(d)
  PROVE  Abstract!CloseSending(d)
  BY DEF CloseSending, Abstract!CloseSending, InFlight, Arrived, Delivered,
         TunnelState

\* A failing connection may lose what its pump has not read.
LEMMA ResetLoses ==
  ASSUME IInv, NEW d \in Endpoints, Reset(d)
  PROVE  Abstract!Reset(d)
  <1>1. /\ d \notin reset /\ reset' = reset \union {d}
        /\ rx' = rx \/ rx' = [rx EXCEPT ![d] = <<>>]
        /\ UNCHANGED <<sent, eof, buffer, tx, taken, fin, pump, outcome, clocks>>
    BY DEF Reset
  <1>2. Arrived' = Arrived /\ TunnelState' = TunnelState
    BY <1>1 DEF Arrived, Delivered, TunnelState
  <1>3. /\ buffer[d] \in Seq(Nat) /\ rx[d] \in Seq(Nat)
        /\ InFlight[d] = buffer[d] \o rx[d] /\ InFlight[d] \in Seq(Nat)
        /\ Len(buffer[d]) \in Nat /\ Len(rx[d]) \in Nat
        /\ Len(InFlight[d]) = Len(buffer[d]) + Len(rx[d])
    <2>1. buffer[d] \in Seq(Nat) /\ rx[d] \in Seq(Nat)
      BY DEF IInv, TypeOK
    <2>2. Len(buffer[d]) \in Nat /\ Len(rx[d]) \in Nat
      BY <2>1, LenProperties
    <2>3. /\ buffer[d] \o rx[d] \in Seq(Nat)
          /\ Len(buffer[d] \o rx[d]) = Len(buffer[d]) + Len(rx[d])
      BY <2>1, ConcatProperties
    <2>4. InFlight[d] = buffer[d] \o rx[d]
      BY ZenonT(40) DEF InFlight
    <2> QED
      BY <2>1, <2>2, <2>3, <2>4
  <1>4. /\ Len(InFlight[d]) \in 0..Len(InFlight[d])
        /\ Len(buffer[d]) \in 0..Len(InFlight[d])
    <2>1. \A x, y \in Nat : x + y \in 0..(x + y) /\ x \in 0..(x + y)
      OBVIOUS
    <2> QED
      BY <1>3, <2>1, ZenonT(40)
  <1>5. \E n \in 0..Len(InFlight[d]) :
           InFlight' = [InFlight EXCEPT ![d] = SubSeq(InFlight[d], 1, n)]
    <2>1. CASE rx' = rx
      <3>1. SubSeq(InFlight[d], 1, Len(InFlight[d])) = InFlight[d]
        BY <1>3, SubSeqFull, ZenonT(40)
      <3>2. InFlight' = InFlight /\ InFlight = [InFlight EXCEPT ![d] = InFlight[d]]
        BY <1>1, <2>1, ZenonT(40) DEF InFlight
      <3> QED
        BY <1>4, <3>1, <3>2, ZenonT(40)
    <2>2. CASE rx' = [rx EXCEPT ![d] = <<>>]
      <3>1. SubSeq(InFlight[d], 1, Len(buffer[d])) = buffer[d]
        <4>1. buffer[d] \in Seq(Nat) /\ rx[d] \in Seq(Nat)
          BY <1>3
        <4>2. SubSeq(buffer[d] \o rx[d], 1, Len(buffer[d])) = buffer[d]
          BY <4>1, CutConcat, ZenonT(40)
        <4> QED
          BY <1>3, <4>2, ZenonT(40)
      <3>2. buffer[d] \o <<>> = buffer[d]
        BY <1>3, ConcatEmptySeq
      <3>3. InFlight' = [InFlight EXCEPT ![d] = buffer[d] \o <<>>]
        BY <1>1, <2>2, ZenonT(40) DEF InFlight, IInv, TypeOK
      <3> QED
        BY <1>4, <3>1, <3>2, <3>3, ZenonT(40)
    <2> QED
      BY <1>1, <2>1, <2>2
  <1> QED
    BY <1>1, <1>2, <1>5, ZenonT(40) DEF Abstract!Reset

\* relay_bidirectional starts as a tunnel does.
LEMMA InitMaps == Init => Abstract!Init
  <1> SUFFICES ASSUME Init PROVE Abstract!Init
    OBVIOUS
  <1>1. <<>> \o <<>> = <<>>
    BY EmptySeq, ConcatEmptySeq
  <1>2. InFlight = [d \in Endpoints |-> <<>>] /\ Arrived = [d \in Endpoints |-> <<>>]
    BY <1>1 DEF Init, InFlight, Arrived, Delivered
  <1>3. TunnelState = "open"
    BY DEF Init, TunnelState
  <1> QED
    BY <1>2, <1>3, SameEndpoints DEF Init, Abstract!Init

\* Every step of the relay is a step of the tunnel, or none.
LEMMA NextMaps == IInv /\ [Next]_vars => [Abstract!Next]_(Abstract!vars)
  <1> SUFFICES ASSUME IInv, [Next]_vars
               PROVE  Abstract!Next \/ UNCHANGED Abstract!vars
    BY ZenonT(40)
  <1>1. ASSUME NEW d \in Endpoints, Pump(d)
        PROVE  Abstract!Next \/ UNCHANGED Abstract!vars
    <2>1. d \in Abstract!Endpoints /\ outcome = "running"
      BY <1>1, SameEndpoints DEF Pump
    <2>2. CASE Read(d)
      BY <2>2, ReadIsHidden
    <2>3. CASE Eof(d)
      BY <2>1, <2>3, EofForwards, ZenonT(40) DEF Abstract!Next
    <2>4. CASE Write(d)
      BY <2>1, <2>4, WriteForwards, ZenonT(40) DEF Abstract!Next
    <2>5. CASE IoError(d)
      BY <2>1, <2>5, IoErrorFails, ZenonT(40) DEF Abstract!Next
    <2> QED
      BY <1>1, <2>2, <2>3, <2>4, <2>5 DEF Pump
  <1>2. ASSUME NEW d \in Endpoints, Network(d)
        PROVE  Abstract!Next \/ UNCHANGED Abstract!vars
    <2>1. d \in Abstract!Endpoints
      BY SameEndpoints
    <2>2. CASE Send(d)
      BY <2>1, <2>2, SendSends, ZenonT(40) DEF Abstract!Next
    <2>3. CASE CloseSending(d)
      BY <2>1, <2>3, CloseCloses, ZenonT(40) DEF Abstract!Next
    <2>4. CASE Take(d)
      BY <2>4, TakeIsHidden
    <2>5. CASE Reset(d)
      BY <2>1, <2>5, ResetLoses, ZenonT(40) DEF Abstract!Next
    <2> QED
      BY <1>2, <2>2, <2>3, <2>4, <2>5 DEF Network
  <1>3. CASE Watchdog \/ Tick
    BY <1>3, WatchdogTimesOut, ZenonT(40) DEF Abstract!Next
  <1>4. CASE UNCHANGED vars
    BY <1>4 DEF vars, streams, Abstract!vars, InFlight, Arrived, Delivered, TunnelState
  <1> QED
    BY <1>1, <1>2, <1>3, <1>4 DEF Next, Returned

\* relay_bidirectional, with its pumps, buffers and watchdog, is a tunnel.
THEOREM RelayImplementsTunnel == Spec => ImplementsTunnel
  <1>1. Init => Abstract!Init
    BY InitMaps
  <1>2. IInv /\ [Next]_vars => [Abstract!Next]_(Abstract!vars)
    BY NextMaps
  <1> QED
    BY <1>1, <1>2, Invariance, PTL DEF Spec, ImplementsTunnel, Abstract!Spec

=============================================================================
