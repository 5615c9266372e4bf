------------------------- MODULE SessionHeadProofs -------------------------
(***************************************************************************)
(* Proofs about the head of a client's request, for any requests, limits   *)
(* and reads: what is read beyond it is less than one read, it ends where  *)
(* the client ended it, the reply fits it, and the tunnel carries nothing  *)
(* of it.                                                                  *)
(***************************************************************************)
EXTENDS SessionProofs

\* There is much for the provers to look through here: they get more time.
USE SMTT(40), ZenonT(40)

(***************************************************************************)
(* What is read too far is less than one read                              *)
(***************************************************************************)

\* The bytes beyond a head that has just ended came with the last read.
ReadAhead ==
    pc = "read_head" /\ HeaderEnds(bytes) # {} =>
        Len(bytes) < HeaderEnd(bytes) + ReadSize

\* The end of a head is looked for after every read.
LEMMA FillReadsAhead ==
  ASSUME StreamTypes, FillHead
  PROVE  ReadAhead'
  <1>1. PICK f \in Seq(Int) : Len(f) \in 1..ReadSize /\ bytes' = bytes \o f
    BY FillTakes, ZenonT(40)
  <1>2. bytes \in Seq(Int) /\ HeaderEnds(bytes) = {}
    BY DEF StreamTypes, FillHead, ReadHead
  <1>3. ReadSize \in Nat /\ Len(bytes) \in Nat /\ Len(f) \in Nat
    BY <1>2, SessionBounds, LenProperties
  <1> SUFFICES ASSUME HeaderEnds(bytes \o f) # {}
               PROVE  Len(bytes \o f) < HeaderEnd(bytes \o f) + ReadSize
    BY <1>1, ZenonT(40) DEF ReadAhead, HeaderEnds, HeaderEnd
  <1>4. bytes \o f \in Seq(Int) /\ Len(bytes \o f) = Len(bytes) + Len(f)
    BY <1>2, Cat
  <1>5. HeaderEnd(bytes \o f) \in HeaderEnds(bytes \o f) /\ HeaderEnd(bytes \o f) \in Nat
    <2> DEFINE b == bytes \o f
    <2>1. b \in Seq(Int) /\ HeaderEnds(b) # {}
      BY <1>4
    <2> HIDE DEF b
    <2>2. HeaderEnd(b) \in HeaderEnds(b) /\ HeaderEnd(b) \in 4..Len(b) /\ Len(b) \in Nat
      BY <2>1, HeaderEndBounds
    <2>3. HeaderEnd(b) \in Nat
      BY <2>2
    <2> QED
      BY <2>2, <2>3 DEF b
  <1>6. HeaderEnd(bytes \o f) > Len(bytes)
    BY <1>2, <1>5, HeaderEndsInNewBytes, ZenonT(40)
  <1>7. \A e, b, m, r \in Nat : e > b /\ m <= r => b + m < e + r
    OBVIOUS
  <1>8. Len(f) <= ReadSize
    BY <1>1, <1>3
  <1> QED
    BY <1>3, <1>4, <1>5, <1>6, <1>7, <1>8, ZenonT(40)

\* The invariant of the bytes read too far.
PrefetchInv == ReadAhead /\ PrefetchBelowRead

\* A step that reads nothing and hands on nothing.
LEMMA KeepsPrefetched ==
  ASSUME PrefetchInv, UNCHANGED <<bytes, prefetched>>,
         pc' = "read_head" => pc = "read_head"
  PROVE  PrefetchInv'
  BY DEF PrefetchInv, ReadAhead, PrefetchBelowRead, HeaderEnd, HeaderEnds

\* The head is cut off.
LEMMA TakeKeepsPrefetched ==
  ASSUME StreamTypes, PrefetchInv, TakeHead
  PROVE  PrefetchInv'
  <1> DEFINE n == HeaderEnd(bytes)
             t == SubSeq(bytes, n + 1, Len(bytes))
  <1>1. /\ pc = "read_head" /\ HeaderEnds(bytes) # {}
        /\ prefetched' = [prefetched EXCEPT !["client"] = t]
    BY DEF TakeHead, BeyondHead
  <1>2. pc' # "read_head"
    BY DEF TakeHead, Judge, Establish, Refuse
  <1>3. bytes \in Seq(Int) /\ Len(bytes) \in Nat
    BY LenProperties DEF StreamTypes
  <1>4. n \in 0..Len(bytes)
    BY <1>1, <1>3, HeaderEndBounds
  <1>5. Len(bytes) < n + ReadSize
    BY <1>1 DEF PrefetchInv, ReadAhead
  <1> HIDE DEF n
  <1>6. Len(t) = Len(bytes) - n
    BY <1>3, <1>4, Cut
  <1>7. ReadSize \in Nat
    BY SessionBounds
  <1>8. Len(t) < ReadSize
    BY <1>3, <1>4, <1>5, <1>6, <1>7
  <1> HIDE DEF t
  <1>9. \A d \in Endpoints : prefetched'[d] = t \/ prefetched'[d] = prefetched[d]
    BY <1>1 DEF StreamTypes
  <1>10. PrefetchBelowRead'
    BY <1>8, <1>9 DEF PrefetchInv, PrefetchBelowRead
  <1> QED
    BY <1>2, <1>10 DEF PrefetchInv, ReadAhead

\* The upstream's response was followed by less than one read.
LEMMA UpstreamKeepsPrefetched ==
  ASSUME StreamTypes, PrefetchInv, Upstream
  PROVE  PrefetchInv'
  <1>1. pc' # "read_head" /\ bytes' = bytes
    BY DEF Upstream, Refuse
  <1>2. CASE UNCHANGED prefetched
    BY <1>1, <1>2, KeepsPrefetched
  <1>3. ASSUME NEW n \in 0..Min({ReadSize - 1, RemoteSends}),
               prefetched' = [prefetched EXCEPT !["upstream"] = Data(n)]
        PROVE  PrefetchInv'
    <2>1. RemoteSends \in Nat /\ ReadSize \in Nat
      BY SessionBounds
    <2>2. n \in Nat /\ n < ReadSize
      <3> DEFINE r == ReadSize - 1
      <3>1. r \in Int
        BY <2>1
      <3> HIDE DEF r
      <3>2. Min({r, RemoteSends}) \in Int /\ Min({r, RemoteSends}) <= r
        BY <2>1, <3>1, MinPair, SMTT(40)
      <3> QED
        BY <2>1, <3>1, <3>2 DEF r
    <2>3. Len(Data(n)) < ReadSize
      BY <2>2, DataGrows, ZenonT(40)
    <2>4. \A d \in Endpoints :
             prefetched'[d] = Data(n) \/ prefetched'[d] = prefetched[d]
      BY <1>3 DEF StreamTypes
    <2>5. PrefetchBelowRead'
      BY <2>3, <2>4 DEF PrefetchInv, PrefetchBelowRead
    <2> QED
      BY <1>1, <2>5 DEF PrefetchInv, ReadAhead
  <1> QED
    BY <1>2, <1>3 DEF Upstream

\* What was read too far is handed on.
LEMMA FlushKeepsPrefetched ==
  ASSUME StreamTypes, PrefetchInv, Flush
  PROVE  PrefetchInv'
  <1>1. pc' # "read_head" /\ bytes' = bytes
    BY ZenonT(40) DEF Flush, WriteClientPrefetched, WritePrefetched, Abandon
  <1>2. ReadSize \in Nat /\ 0 < ReadSize /\ Len(<<>>) = 0
    BY SessionBounds, EmptySeq
  <1>3. CASE UNCHANGED prefetched
    BY <1>1, <1>3, KeepsPrefetched
  <1>4. ASSUME NEW d \in Endpoints, prefetched' = [prefetched EXCEPT ![d] = <<>>]
        PROVE  PrefetchInv'
    <2>1. \A e \in Endpoints :
             prefetched'[e] = <<>> \/ prefetched'[e] = prefetched[e]
      BY <1>4 DEF StreamTypes
    <2>2. PrefetchBelowRead'
      BY <1>2, <2>1 DEF PrefetchInv, PrefetchBelowRead
    <2> QED
      BY <1>1, <2>2 DEF PrefetchInv, ReadAhead
  <1> QED
    BY <1>3, <1>4, TwoEndpoints, ZenonT(40)
       DEF Flush, WriteClientPrefetched, WritePrefetched

\* Every step keeps what was read too far below one read.
LEMMA NextKeepsPrefetched ==
  ASSUME StreamTypes, PrefetchInv, [Next]_vars
  PROVE  PrefetchInv'
  <1>1. CASE FillHead
    <2>1. prefetched' = prefetched
      BY <1>1 DEF FillHead
    <2> QED
      BY <1>1, <2>1, FillReadsAhead, SMTT(40) DEF PrefetchInv, PrefetchBelowRead
  <1>2. CASE \/ HeadFails \/ SendError \/ LookupReturns \/ LookupTimeout \/ Dial
             \/ DialTimeout \/ SendEstablished \/ Relay
    <2>1. UNCHANGED <<bytes, prefetched>>
      <3>1. CASE HeadFails \/ SendError \/ SendEstablished \/ Relay
        BY <3>1, ZenonT(40) DEF HeadFails, SendError, SendEstablished, Relay, head
      <3>2. CASE LookupReturns \/ LookupTimeout
        BY <3>2, ZenonT(40) DEF LookupReturns, LookupTimeout, Route, head
      <3>3. CASE Dial \/ DialTimeout
        BY <3>3, ZenonT(40) DEF Dial, DialTimeout, head
      <3> QED
        BY <1>2, <3>1, <3>2, <3>3, ZenonT(40)
    <2>2. pc' = "read_head" => pc = "read_head"
      BY <1>2, ZenonT(40) DEF HeadFails, SendError, LookupReturns, LookupTimeout, Route, Dial,
                  DialTimeout, SendEstablished, Relay, DirectFails, Refuse
    <2> QED
      BY <2>1, <2>2, KeepsPrefetched, SMTT(40)
  <1>3. CASE \/ ClientSends \/ ClientReceives \/ RemoteSendsByte \/ Resolve
             \/ (\E d \in Endpoints : Hangup(d)) \/ Closed \/ UNCHANGED vars
    <2>1. UNCHANGED <<pc, bytes, prefetched>>
      BY <1>3 DEF ClientSends, ClientReceives, RemoteSendsByte, Resolve, Hangup,
                  Closed, vars, head
    <2> QED
      BY <2>1, KeepsPrefetched, SMTT(40)
  <1> QED
    BY <1>1, <1>2, <1>3, TakeKeepsPrefetched, UpstreamKeepsPrefetched,
       FlushKeepsPrefetched DEF Next, Task

\* What handle_client writes to either side before the relay runs is less
\* than one read, however the client splits its head and whatever follows it.
THEOREM LessThanOneReadIsPrefetched == Spec => []PrefetchBelowRead
  <1> DEFINE Inv == Replying /\ StreamInv /\ PrefetchInv
  <1>1. Init => Inv
    <2> SUFFICES ASSUME Init PROVE Inv
      OBVIOUS
    <2>1. Replying /\ StreamInv
      BY InitStreams DEF Init, Replying, Before, After
    <2>2. bytes = <<>> /\ \A d \in Endpoints : prefetched[d] = <<>>
      BY DEF Init
    <2>3. Len(<<>>) = 0 /\ ReadSize \in Nat /\ 0 < ReadSize
      BY EmptySeq, SessionBounds
    <2>4. HeaderEnds(bytes) = {}
      BY <2>2, <2>3 DEF HeaderEnds
    <2> QED
      BY <2>1, <2>2, <2>3, <2>4 DEF PrefetchInv, PrefetchBelowRead, ReadAhead
  <1>2. Inv /\ [Next]_vars => Inv'
    BY NextMaps, NextKeepsStreams, NextKeepsPrefetched DEF StreamInv
  <1>3. Inv => PrefetchBelowRead
    BY DEF PrefetchInv
  <1> QED
    BY <1>1, <1>2, <1>3, PTL DEF Spec

(***************************************************************************)
(* The head ends where the client ended it, and the reply fits the request *)
(***************************************************************************)

\* What it takes for a head to end at a position.
LEMMA MarkAt ==
  ASSUME NEW b \in Seq(Int), NEW i \in 4..Len(b)
  PROVE  i \in HeaderEnds(b) <=> /\ b[i - 3] = CR /\ b[i - 2] = LF
                                 /\ b[i - 1] = CR /\ b[i] = LF
  <1> DEFINE m == i - 3
             s == SubSeq(b, m, i)
  <1>1. Len(b) \in Nat /\ \A j \in 1..Len(b) : b[j] \in Int
    BY LenProperties, ElementOfSeq
  <1>2. m \in Int /\ i \in Int /\ m <= i /\ \A j \in m..i : b[j] \in Int
    BY <1>1
  <1>3. i - m + 1 = 4 /\ m \in Nat
    BY <1>1
  <1> HIDE DEF m
  <1>4. /\ s \in Seq(Int) /\ Len(s) = i - m + 1
        /\ \A j \in 1..(i - m + 1) : s[j] = b[m + j - 1]
    BY <1>2, SubSeqProperties
  <1>5. Len(s) = 4 /\ \A j \in 1..4 : s[j] = b[m + j - 1]
    BY <1>3, <1>4, ZenonT(40)
  <1> HIDE DEF s
  <1>6. /\ s[1] = b[m + 1 - 1] /\ s[2] = b[m + 2 - 1]
        /\ s[3] = b[m + 3 - 1] /\ s[4] = b[m + 4 - 1]
    BY <1>5
  <1>7. s[1] = b[i - 3] /\ s[2] = b[i - 2] /\ s[3] = b[i - 1] /\ s[4] = b[i]
    BY <1>1, <1>6 DEF m
  <1>8. /\ HeaderEndMark \in Seq(Int) /\ Len(HeaderEndMark) = 4
        /\ HeaderEndMark[1] = CR /\ HeaderEndMark[2] = LF
        /\ HeaderEndMark[3] = CR /\ HeaderEndMark[4] = LF
    BY DEF HeaderEndMark, CR, LF
  <1>9. s = HeaderEndMark <=> /\ s[1] = CR /\ s[2] = LF /\ s[3] = CR /\ s[4] = LF
    <2>1. ASSUME s[1] = CR, s[2] = LF, s[3] = CR, s[4] = LF
          PROVE  s = HeaderEndMark
      <3>1. Len(s) = Len(HeaderEndMark)
        BY <1>5, <1>8
      <3>2. \A j \in 1..Len(s) : j \in {1, 2, 3, 4}
        BY <1>5
      <3>3. \A j \in 1..Len(s) : s[j] = HeaderEndMark[j]
        BY <1>8, <2>1, <3>2, SMTT(40)
      <3> QED
        BY <1>4, <1>8, <3>1, <3>3, SeqEqual, ZenonT(40)
    <2> QED
      BY <1>8, <2>1
  <1>10. i \in HeaderEnds(b) <=> s = HeaderEndMark
    BY DEF HeaderEnds, s, m
  <1> QED
    BY <1>7, <1>9, <1>10, SMTT(40)

\* The bytes that the client has to send.
LEMMA ProgramElements ==
  ASSUME StreamTypes
  PROVE  /\ Program \in Seq(Int) /\ request.head \in Seq(Int)
         /\ Len(request.head) \in Nat /\ Len(Program) \in Nat
         /\ Len(request.head) <= Len(Program)
         /\ \A i \in 1..Len(request.head) : Program[i] = request.head[i]
         /\ \A i \in Nat : 0 < i /\ Len(request.head) + i <= Len(Program) =>
               Program[Len(request.head) + i] = i
  <1> DEFINE h == request.head
             n == request.data
  <1>1. n \in Nat
    BY SessionBounds DEF StreamTypes
  <1>2. /\ Program \in Seq(Int) /\ h \in Seq(Int)
        /\ Len(h) \in Nat /\ Len(Program) \in Nat /\ Len(h) <= Len(Program)
    BY ProgramType
  <1>3. Data(n) \in Seq(Int) /\ Len(Data(n)) = n /\ \A i \in 1..n : Data(n)[i] = i
    BY <1>1, DataGrows DEF Data
  <1>4. Program = h \o Data(n)
    BY DEF Program
  <1> HIDE DEF h, n
  <1>5. /\ Len(Program) = Len(h) + n
        /\ \A i \in 1..Len(h) : Program[i] = h[i]
        /\ \A i \in 1..n : Program[Len(h) + i] = Data(n)[i]
    <2> DEFINE d == Data(n)
    <2>1. d \in Seq(Int) /\ Len(d) = n
      BY <1>3
    <2> HIDE DEF d
    <2>2. /\ Len(h \o d) = Len(h) + n
          /\ \A i \in 1..Len(h) : (h \o d)[i] = h[i]
          /\ \A i \in 1..n : (h \o d)[Len(h) + i] = d[i]
      BY <1>2, <2>1, CatElements
    <2> QED
      BY <1>4, <2>2, ZenonT(40) DEF d
  <1>6. \A i \in Nat : 0 < i /\ Len(h) + i <= Len(Program) => i \in 1..n
    BY <1>1, <1>2, <1>5
  <1>7. \A i \in Nat : 0 < i /\ Len(h) + i <= Len(Program) => Program[Len(h) + i] = i
    BY <1>3, <1>5, <1>6, ZenonT(40)
  <1> QED
    BY <1>2, <1>5, <1>7 DEF h

\* The bytes b are the first that the client has to send.
Beginning(b) ==
    /\ b \in Seq(Int) /\ Len(b) <= Len(Program)
    /\ \A i \in 1..Len(b) : b[i] = Program[i]

\* Among them the end of the head is where the client put it.
LEMMA HeadEndsWhereSent ==
  ASSUME StreamTypes, NEW b, Beginning(b)
  PROVE  /\ HeaderEnds(b) # {} =>
               /\ HeaderEnd(b) = Len(request.head) /\ HeaderEnds(request.head) # {}
               /\ SubSeq(b, 1, HeaderEnd(b)) = request.head
         /\ HeaderEnds(request.head) # {} /\ Len(request.head) <= Len(b) =>
               HeaderEnds(b) # {}
  <1> DEFINE h == request.head
             l == Len(h)
  <1>1. /\ Program \in Seq(Int) /\ h \in Seq(Int) /\ l \in Nat /\ Len(Program) \in Nat
        /\ l <= Len(Program)
        /\ \A i \in 1..l : Program[i] = h[i]
        /\ \A i \in Nat : 0 < i /\ l + i <= Len(Program) => Program[l + i] = i
    BY ProgramElements
  <1>2. HeaderEnds(h) \subseteq {l}
    BY SessionBounds DEF StreamTypes
  <1>3. /\ b \in Seq(Int) /\ Len(b) \in Nat /\ Len(b) <= Len(Program)
        /\ \A i \in 1..Len(b) : b[i] = Program[i]
    BY LenProperties DEF Beginning
  <1> HIDE DEF h, l
  <1>4. \A i \in Nat : i <= Len(b) /\ 0 < i /\ i <= l => b[i] = h[i]
    BY <1>1, <1>3
  <1>5. \A i \in Nat : i <= Len(b) /\ i > l => b[i] > 0
    <2> SUFFICES ASSUME NEW i \in Nat, i <= Len(b), i > l PROVE b[i] > 0
      OBVIOUS
    <2>1. /\ i - l \in Nat /\ 0 < i - l /\ l + (i - l) = i /\ i \in 1..Len(b)
          /\ l + (i - l) <= Len(Program)
      BY <1>1, <1>3
    <2>2. Program[i] = i - l
      BY <1>1, <2>1
    <2> QED
      BY <1>3, <2>1, <2>2
  <1>6. ASSUME NEW i \in HeaderEnds(b)
        PROVE  i \in HeaderEnds(h) /\ i = l
    <2>1. i \in 4..Len(b) /\ i \in Nat
      BY <1>3, SMTT(40) DEF HeaderEnds
    <2>2. b[i - 3] = CR /\ b[i - 2] = LF /\ b[i - 1] = CR /\ b[i] = LF
      BY <1>3, <2>1, MarkAt, SMTT(40)
    <2>3. i <= l
      BY <1>1, <1>5, <2>1, <2>2 DEF LF
    <2>4. i \in 4..l /\ l = Len(h)
      BY <1>1, <2>1, <2>3 DEF l
    <2>5. h[i - 3] = CR /\ h[i - 2] = LF /\ h[i - 1] = CR /\ h[i] = LF
      <3>1. \A j \in {i - 3, i - 2, i - 1, i} : j \in Nat /\ j <= Len(b) /\ 0 < j /\ j <= l
        BY <1>1, <1>3, <2>1, <2>3
      <3>2. \A j \in {i - 3, i - 2, i - 1, i} : b[j] = h[j]
        BY <1>4, <3>1, ZenonT(40)
      <3>3. /\ b[i - 3] = h[i - 3] /\ b[i - 2] = h[i - 2]
            /\ b[i - 1] = h[i - 1] /\ b[i] = h[i]
        BY <3>2, ZenonT(40)
      <3> QED
        BY <2>2, <3>3, ZenonT(40)
    <2>6. i \in HeaderEnds(h)
      BY <1>1, <2>4, <2>5, MarkAt, ZenonT(40)
    <2> QED
      BY <1>2, <2>6, SMTT(40)
  <1>7. ASSUME HeaderEnds(b) # {}
        PROVE  /\ HeaderEnd(b) = l /\ HeaderEnds(h) # {}
               /\ SubSeq(b, 1, HeaderEnd(b)) = h
    <2>1. HeaderEnd(b) \in HeaderEnds(b) /\ HeaderEnd(b) \in 4..Len(b)
      BY <1>3, <1>7, HeaderEndBounds
    <2>2. HeaderEnd(b) = l /\ HeaderEnds(h) # {}
      BY <1>6, <2>1
    <2>3. l \in 0..Len(b)
      BY <1>1, <1>3, <2>1, <2>2
    <2> DEFINE s == SubSeq(b, 1, l)
    <2>4. s \in Seq(Int) /\ Len(s) = l
      BY <1>3, <2>3, Cut
    <2>5. \A i \in 1..l : s[i] = b[i]
      BY <1>3, <2>3
    <2>6. \A i \in 1..Len(s) : s[i] = h[i]
      BY <1>1, <1>3, <1>4, <2>3, <2>4, <2>5
    <2> HIDE DEF s
    <2>7. s = h
      BY <1>1, <2>4, <2>6, SeqEqual DEF l
    <2> QED
      BY <2>2, <2>7 DEF s
  <1>8. ASSUME HeaderEnds(h) # {}, l <= Len(b)
        PROVE  HeaderEnds(b) # {}
    <2>1. l \in HeaderEnds(h) /\ l \in 4..Len(h)
      BY <1>1, <1>2, <1>8, HeaderEndBounds
    <2>2. h[l - 3] = CR /\ h[l - 2] = LF /\ h[l - 1] = CR /\ h[l] = LF
      BY <1>1, <2>1, MarkAt, SMTT(40)
    <2>3. l \in 4..Len(b)
      BY <1>1, <1>3, <1>8, <2>1
    <2>4. b[l - 3] = CR /\ b[l - 2] = LF /\ b[l - 1] = CR /\ b[l] = LF
      <3>1. \A j \in {l - 3, l - 2, l - 1, l} : j \in Nat /\ j <= Len(b) /\ 0 < j /\ j <= l
        BY <1>1, <1>3, <2>3
      <3>2. \A j \in {l - 3, l - 2, l - 1, l} : b[j] = h[j]
        BY <1>4, <3>1, ZenonT(40)
      <3>3. /\ b[l - 3] = h[l - 3] /\ b[l - 2] = h[l - 2]
            /\ b[l - 1] = h[l - 1] /\ b[l] = h[l]
        BY <3>2, ZenonT(40)
      <3> QED
        BY <2>2, <3>3, ZenonT(40)
    <2>5. l \in HeaderEnds(b)
      BY <1>3, <2>3, <2>4, MarkAt
    <2> QED
      BY <2>5
  <1> QED
    BY <1>7, <1>8 DEF l, h

\* What has been read of the head, while it is read, and all of what was sent
\* once the client has sent the last of it.
LEMMA ReadBeginning ==
  ASSUME StreamInv, pc = "read_head"
  PROVE  /\ Beginning(bytes)
         /\ ~ClientGone /\ inflight["client"] = <<>> => Len(bytes) = sent["client"]
  <1> DEFINE b == bytes
             i == inflight["client"]
             k == sent["client"]
             w == SubSeq(Program, 1, k)
  <1>1. /\ arrived["client"] = <<>> /\ prefetched["client"] = <<>>
        /\ b \in Seq(Int) /\ i \in Seq(Int) /\ Len(b) \in Nat
        /\ k \in Nat /\ k <= Len(Program)
    BY TwoEndpoints, LenProperties DEF StreamInv, StreamTypes, Pieces
  <1>2. Program \in Seq(Int) /\ Len(Program) \in Nat
    BY ProgramType DEF StreamInv
  <1>3. ClientStream = ((b \o <<>>) \o <<>>) \o i
    BY <1>1 DEF ClientStream
  <1>4. PICK t \in Seq(Int) :
           /\ (((b \o <<>>) \o <<>>) \o i) \o t = w
           /\ ~ClientGone => t = <<>>
    BY <1>3, ZenonT(40) DEF StreamInv, ClientKept, Kept
  <1>5. /\ Len(w) = k /\ w \in Seq(Int) /\ \A j \in 1..k : w[j] = Program[j]
    <2>1. k \in 0..Len(Program) /\ \A j \in 1..Len(Program) : Program[j] \in Int
      BY <1>1, <1>2, ElementOfSeq
    <2>2. \A j \in 1..k : Program[j] \in Int
      BY <1>1, <1>2, <2>1
    <2> HIDE DEF k
    <2>3. /\ w \in Seq(Int) /\ Len(w) = IF 1 <= k THEN k - 1 + 1 ELSE 0
          /\ \A j \in 1..(k - 1 + 1) : w[j] = Program[1 + j - 1]
      BY <1>1, <2>2, SubSeqProperties
    <2> QED
      BY <1>1, <1>2, <2>3
  <1>6. <<>> \in Seq(Int) /\ Len(<<>>) = 0
    BY EmptySeq
  <1> HIDE DEF b, i, k, w
  <1>7. (b \o i) \o t = w
    <2>1. b \o <<>> = b
      BY <1>1, Empty, SMTT(40)
    <2> QED
      BY <1>4, <2>1, ZenonT(40)
  <1>8. Len(b) <= k /\ \A j \in 1..Len(b) : w[j] = b[j]
    <2> DEFINE x == b \o i
    <2>1. /\ x \in Seq(Int) /\ Len(x) = Len(b) + Len(i) /\ Len(i) \in Nat
          /\ \A j \in 1..Len(b) : x[j] = b[j]
      BY <1>1, CatElements
    <2>2. x \o t = w
      BY <1>7
    <2> HIDE DEF x
    <2>3. /\ Len(x \o t) = Len(x) + Len(t) /\ Len(t) \in Nat
          /\ \A j \in 1..Len(x) : (x \o t)[j] = x[j]
      BY <2>1, CatElements, ZenonT(40)
    <2>4. \A j \in 1..Len(b) : j \in 1..Len(x)
      BY <1>1, <2>1
    <2>5. \A j \in 1..Len(b) : w[j] = b[j]
      BY <2>1, <2>2, <2>3, <2>4, ZenonT(40)
    <2> QED
      BY <1>1, <1>5, <2>1, <2>2, <2>3, <2>5
  <1>9. \A j \in 1..Len(b) : b[j] = Program[j]
    BY <1>1, <1>5, <1>8
  <1>10. Beginning(b)
    BY <1>1, <1>2, <1>8, <1>9 DEF Beginning
  <1>11. ASSUME ~ClientGone, i = <<>> PROVE Len(b) = k
    <2>1. (((b \o <<>>) \o <<>>) \o <<>>) \o <<>> = b
      BY <1>1, Empty
    <2>2. b = w
      BY <1>4, <1>11, <2>1, ZenonT(40)
    <2> QED
      BY <1>5, <2>2, ZenonT(40)
  <1> QED
    BY <1>10, <1>11 DEF b, i, k

\* Where handle_client is once it has taken a valid CONNECT.
Accepted == {"lookup", "dial", "upstream", "established"} \union After

\* What the request has to be for a reply, from then on: a client that has
\* ended its stream sends no more of its head.
CalledFor(code) ==
    /\ code = 405 => Fits /\ request.kind = "other_method"
    /\ code \in {200, 502} => Fits /\ request.kind = "connect"
    /\ code = 400 => \/ request.kind \in {"malformed", "bad_target"}
                     \/ ~Fits
                     \/ eof["client"] /\ ~HeadSent

\* The invariant of the head and of the reply.
HeadInv ==
    /\ eof \in [Endpoints -> BOOLEAN]
    /\ Len(bytes) <= MaxHeaderBytes
    /\ pc \in Accepted => /\ bytes = request.head
                          /\ Fits /\ request.kind = "connect"
    /\ pc = "send_error" => CalledFor(status) \/ ClientGone
    /\ \A code \in Range(replies) : CalledFor(code)
    /\ pc \in After => replies = <<200>>
    /\ arrived["client"] # <<>> => bytes = request.head
    /\ \A d \in Endpoints : arrived[d] # <<>> => replies = <<200>>

\* A reply stays the one that the request calls for.
LEMMA StillCalledFor ==
  ASSUME request' = request, NEW code, CalledFor(code),
         \/ /\ eof'["client"] = eof["client"]
            /\ sent'["client"] = sent["client"]
         \/ ~eof["client"]
  PROVE  CalledFor(code)'
  <1>1. Fits' = Fits
    BY DEF Fits, HeaderEnds
  <1>2. eof["client"] /\ ~HeadSent => eof'["client"] /\ ~HeadSent'
    BY <1>1, ZenonT(40) DEF HeadSent
  <1> QED
    BY <1>1, <1>2, ZenonT(40) DEF CalledFor

\* A step that leaves the head and the replies alone.
LEMMA KeepsHead ==
  ASSUME HeadInv, UNCHANGED <<bytes, request, status, replies, arrived>>,
         \/ /\ eof'["client"] = eof["client"]
            /\ sent'["client"] = sent["client"]
         \/ ~eof["client"],
         eof' \in [Endpoints -> BOOLEAN],
         ClientGone => ClientGone',
         pc' \in Accepted => pc \in Accepted,
         pc' \in After => pc \in After,
         pc' = "send_error" => pc = "send_error"
  PROVE  HeadInv'
  <1>1. \A code : CalledFor(code) => CalledFor(code)'
    BY StillCalledFor
  <1>2. Fits' = Fits
    BY DEF Fits, HeaderEnds
  <1> QED
    BY <1>1, <1>2 DEF HeadInv

\* The sets of places are disjoint.
LEMMA Places ==
  /\ "read_head" \notin Accepted /\ "send_error" \notin Accepted
  /\ "closed" \notin Accepted /\ "read_head" \notin After
  /\ "send_error" \notin After /\ "closed" \notin After
  /\ {"lookup", "dial", "upstream", "established"} \intersect After = {}
  /\ After \subseteq Accepted
  /\ {"lookup", "dial", "upstream", "established"} \subseteq Accepted
  BY DEF Accepted, After

\* read_request_head reads no more than max_header_bytes.
LEMMA FillKeepsHead ==
  ASSUME StreamInv, HeadInv, FillHead
  PROVE  HeadInv'
  <1>1. PICK f \in Seq(Int) : /\ Len(bytes) + Len(f) <= MaxHeaderBytes
                              /\ bytes' = bytes \o f
    BY FillTakes, ZenonT(40) DEF StreamInv
  <1>2. Len(bytes') <= MaxHeaderBytes
    <2>1. bytes \in Seq(Int)
      BY DEF StreamInv, StreamTypes
    <2> QED
      BY <1>1, <2>1, Cat
  <1>3. /\ pc = "read_head" /\ UNCHANGED <<arrived, eof, sent, request, pc, replies, status>>
    BY DEF FillHead, ReadHead, choices
  <1>4. arrived["client"] = <<>>
    BY <1>3 DEF StreamInv, Pieces
  <1>5. \A code : CalledFor(code) => CalledFor(code)'
    BY <1>3, StillCalledFor, SMTT(40)
  <1> QED
    BY <1>2, <1>3, <1>4, <1>5, Places DEF HeadInv

\* A 400 for a head that is too long, or cut short.
LEMMA HeadFailsKeepsHead ==
  ASSUME StreamInv, HeadInv, HeadFails
  PROVE  HeadInv'
  <1>1. /\ pc = "read_head" /\ pc' = "send_error" /\ status' = 400
        /\ UNCHANGED <<bytes, arrived, eof, reset, sent, request, replies>>
    BY DEF HeadFails, Refuse, wires, choices
  <1>2. HeaderEnds(bytes) = {}
    BY DEF HeadFails, TooLarge
  <1>3. StreamTypes /\ Beginning(bytes)
    BY <1>1, ReadBeginning DEF StreamInv
  <1>4. ~(HeaderEnds(request.head) # {} /\ Len(request.head) <= Len(bytes))
    BY <1>2, <1>3, HeadEndsWhereSent, SMTT(40)
  <1>5. Len(bytes) \in Nat /\ Len(request.head) \in Nat /\ MaxHeaderBytes \in Nat
    BY <1>3, ProgramType, LenProperties, SessionBounds DEF StreamTypes
  <1>6. CalledFor(400) \/ ClientGone
    <2>1. CASE TooLarge
      <3>1. Len(bytes) = MaxHeaderBytes
        BY <1>5, <2>1 DEF TooLarge, Room
      <3>2. ~Fits
        BY <1>4, <3>1 DEF Fits
      <3> QED
        BY <3>2 DEF CalledFor
    <2>2. CASE inflight["client"] = <<>> /\ eof["client"] /\ ~ClientGone
      <3>1. Len(bytes) = sent["client"]
        BY <1>1, <2>2, ReadBeginning, SMTT(40)
      <3>2. ~HeadSent
        BY <1>4, <1>5, <3>1 DEF HeadSent, Fits
      <3> QED
        BY <2>2, <3>2, SMTT(40) DEF CalledFor
    <2> QED
      BY <2>1, <2>2 DEF HeadFails
  <1>7. CalledFor(400)' \/ ClientGone'
    <2>1. CalledFor(400) => CalledFor(400)'
      BY <1>1, StillCalledFor
    <2>2. ClientGone' = ClientGone
      BY <1>1 DEF ClientGone
    <2> QED
      BY <1>6, <2>1, <2>2
  <1>8. \A code : CalledFor(code) => CalledFor(code)'
    BY <1>1, StillCalledFor
  <1>9. CalledFor(status)' \/ ClientGone'
    BY <1>1, <1>7 DEF CalledFor
  <1> QED
    BY <1>1, <1>8, <1>9, Places DEF HeadInv

\* The head that is taken is the one that the client sent, and it fits.
LEMMA TakeKeepsHead ==
  ASSUME StreamInv, HeadInv, TakeHead
  PROVE  HeadInv'
  <1>1. /\ pc = "read_head" /\ HeaderEnds(bytes) # {}
        /\ bytes' = SubSeq(bytes, 1, HeaderEnd(bytes))
        /\ UNCHANGED <<arrived, eof, sent, request, replies>>
    BY DEF TakeHead, wires, choices
  <1>2. \/ request.kind = "connect" /\ pc' \in {"lookup", "upstream"}
        \/ request.kind = "other_method" /\ pc' = "send_error" /\ status' = 405
        \/ /\ request.kind \notin {"connect", "other_method"}
           /\ pc' = "send_error" /\ status' = 400
    BY DEF TakeHead, Judge, Establish, Refuse
  <1>3. StreamTypes /\ Beginning(bytes)
    BY <1>1, ReadBeginning, SMTT(40) DEF StreamInv
  <1>4. /\ HeaderEnd(bytes) = Len(request.head) /\ HeaderEnds(request.head) # {}
        /\ SubSeq(bytes, 1, HeaderEnd(bytes)) = request.head
    BY <1>1, <1>3, HeadEndsWhereSent
  <1>5. bytes' = request.head
    BY <1>1, <1>4, ZenonT(40)
  <1>6. Len(request.head) <= MaxHeaderBytes
    <2>1. /\ Len(bytes) \in Nat /\ MaxHeaderBytes \in Nat /\ Len(bytes) <= MaxHeaderBytes
          /\ HeaderEnd(bytes) \in 4..Len(bytes)
      BY <1>1, <1>3, HeaderEndBounds, SessionBounds, LenProperties, SMTT(40)
         DEF StreamTypes, HeadInv
    <2>2. HeaderEnd(bytes) <= MaxHeaderBytes
      BY <2>1
    <2> QED
      BY <1>4, <2>2, SMTT(40)
  <1>7. Fits /\ Fits'
    BY <1>1, <1>4, <1>6, ZenonT(40) DEF Fits, HeaderEnds
  <1>8. arrived["client"] = <<>>
    BY <1>1 DEF StreamInv, Pieces
  <1>9. request.kind \in Kinds
    BY <1>3, SessionBounds DEF StreamTypes
  <1>10. \A code : CalledFor(code) => CalledFor(code)'
    BY <1>1, StillCalledFor
  <1>11. pc' = "send_error" => CalledFor(status)'
    BY <1>1, <1>2, <1>7, <1>9 DEF CalledFor, Kinds
  <1>12. pc' \in Accepted => request'.kind = "connect"
    BY <1>1, <1>2, Places
  <1> QED
    BY <1>1, <1>2, <1>5, <1>6, <1>7, <1>8, <1>10, <1>11, <1>12, Places, ZenonT(40)
       DEF HeadInv

\* Any failure after that is a 502.
LEMMA EstablishKeepsHead ==
  ASSUME StreamInv, HeadInv,
         LookupReturns \/ LookupTimeout \/ Dial \/ DialTimeout \/ Upstream
  PROVE  HeadInv'
  <1>1. /\ pc \in {"lookup", "dial", "upstream"}
        /\ UNCHANGED <<bytes, arrived, eof, request, replies>>
        /\ sent'["client"] = sent["client"]
    <2>1. CASE LookupReturns \/ LookupTimeout \/ Dial \/ DialTimeout
      BY <2>1, ZenonT(40) DEF LookupReturns, LookupTimeout, Route, Dial, DialTimeout, wires,
                  choices, head
    <2>2. CASE Upstream
      BY <2>2, TwoEndpoints DEF Upstream, wires, choices, StreamInv, StreamTypes
    <2> QED
      BY <2>1, <2>2, SMTT(40)
  <1>2. \/ pc' = "send_error" /\ status' = 502
        \/ pc' \in {"lookup", "dial", "upstream", "established"}
    <2>1. CASE LookupReturns \/ LookupTimeout
      BY <2>1 DEF LookupReturns, LookupTimeout, Route
    <2>2. CASE Dial
      BY <2>2 DEF Dial, DirectFails, Refuse
    <2>3. CASE DialTimeout \/ Upstream
      BY <2>3, SMTT(40) DEF DialTimeout, Upstream, DirectFails, Refuse
    <2> QED
      BY <2>1, <2>2, <2>3, SMTT(40)
  <1>3. bytes = request.head /\ Fits /\ request.kind = "connect"
    BY <1>1, Places DEF HeadInv
  <1>4. Fits'
    BY <1>1, <1>3 DEF Fits, HeaderEnds
  <1>5. \A code : CalledFor(code) => CalledFor(code)'
    BY <1>1, StillCalledFor, SMTT(40)
  <1>6. pc' = "send_error" => CalledFor(status)'
    BY <1>1, <1>2, <1>3, <1>4 DEF CalledFor
  <1> QED
    BY <1>1, <1>2, <1>3, <1>4, <1>5, <1>6, Places, SMTT(40) DEF HeadInv

\* The reply is written.
LEMMA ReplyKeepsHead ==
  ASSUME Replying, StreamInv, HeadInv, SendError \/ SendEstablished
  PROVE  HeadInv'
  <1>1. UNCHANGED <<bytes, arrived, eof, reset, sent, request, status>>
    BY DEF SendError, SendEstablished, wires, choices, head
  <1>2. replies = <<>>
    BY DEF Replying, Before, SendError, SendEstablished
  <1>3. \A code : CalledFor(code) => CalledFor(code)'
    BY <1>1, StillCalledFor
  <1>4. \A code : Range(Append(<<>>, code)) = {code} /\ Append(<<>>, code) = <<code>>
    BY DEF Range
  <1>5. Range(<<>>) = {}
    BY DEF Range
  <1>6. \A d \in Endpoints : arrived[d] = <<>>
    BY <1>2 DEF HeadInv
  <1>7. Fits' = Fits
    BY <1>1, SMTT(40) DEF Fits, HeaderEnds
  <1>8. CASE SendError
    <2>1. pc = "send_error" /\ pc' = "closed"
      BY <1>8 DEF SendError
    <2>2. \/ replies' = <<>>
          \/ ~ClientGone /\ replies' = Append(<<>>, status)
      BY <1>2, <1>8, SMTT(40) DEF SendError, SendErrorReply
    <2>3. \A code \in Range(replies') : CalledFor(code)'
      BY <1>3, <1>4, <1>5, <2>1, <2>2, SMTT(40) DEF HeadInv
    <2> QED
      BY <1>1, <1>6, <2>1, <2>3, Places, TwoEndpoints DEF HeadInv
  <1>9. CASE SendEstablished
    <2>1. pc = "established" /\ pc' \in {"closed", "write_upstream"}
      BY <1>9 DEF SendEstablished
    <2>2. \/ pc' = "closed" /\ replies' = <<>>
          \/ replies' = Append(<<>>, 200)
      BY <1>2, <1>9, SMTT(40) DEF SendEstablished
    <2>3. CalledFor(200) /\ bytes = request.head /\ Fits /\ request.kind = "connect"
      BY <2>1, Places, SMTT(40) DEF HeadInv, CalledFor
    <2>4. \A code \in Range(replies') : CalledFor(code)'
      BY <1>3, <1>4, <1>5, <2>2, <2>3
    <2>5. pc' \in After => replies' = <<200>>
      BY <1>4, <2>2, Places
    <2> QED
      BY <1>1, <1>6, <1>7, <2>1, <2>3, <2>4, <2>5, Places, TwoEndpoints DEF HeadInv
  <1> QED
    BY <1>8, <1>9, SMTT(40)

\* Bytes are handed on only after the 200.
LEMMA TunnelKeepsHead ==
  ASSUME StreamInv, HeadInv, Flush \/ Relay
  PROVE  HeadInv'
  <1>1. pc \in After /\ pc' \in After \union {"closed"}
    BY ZenonT(40) DEF Flush, Relay, WriteClientPrefetched, WritePrefetched, Abandon, After
  <1>2. UNCHANGED <<bytes, eof, sent, request, replies>>
    BY DEF Flush, Relay, choices, head, T!Forward, T!ForwardEof, T!Fail, T!TimeOut
  <1>3. /\ bytes = request.head /\ Fits /\ request.kind = "connect"
        /\ replies = <<200>>
    BY <1>1, Places DEF HeadInv
  <1>4. \A code : CalledFor(code) => CalledFor(code)'
    BY <1>2, StillCalledFor
  <1>5. Fits'
    BY <1>2, <1>3 DEF Fits, HeaderEnds
  <1> QED
    BY <1>1, <1>2, <1>3, <1>4, <1>5, Places DEF HeadInv

\* Every step keeps the head and the reply.
LEMMA NextKeepsHead ==
  ASSUME Replying, StreamInv, HeadInv, [Next]_vars
  PROVE  HeadInv'
  <1>1. CASE ClientSends
    <2>1. /\ ~eof["client"] /\ UNCHANGED <<bytes, request, status, replies, arrived, pc, reset, eof>>
      BY <1>1, SMTT(40) DEF ClientSends, T!Send, choices, head
    <2>2. (ClientGone => ClientGone') /\ eof' \in [Endpoints -> BOOLEAN] /\ pc' = pc
      BY <2>1 DEF ClientGone, HeadInv
    <2> QED
      BY <2>1, <2>2, KeepsHead
  <1>2. CASE RemoteSendsByte
    <2>1. /\ UNCHANGED <<bytes, request, status, replies, arrived, pc, reset, eof>>
          /\ sent' = [sent EXCEPT !["upstream"] = @ + 1]
      BY <1>2 DEF RemoteSendsByte, T!Send, choices, head
    <2>2. sent \in [Endpoints -> Int]
      BY DEF StreamInv, StreamTypes
    <2>3. sent'["client"] = sent["client"]
      BY <2>1, <2>2, TwoEndpoints, SMTT(40)
    <2>4. (ClientGone => ClientGone') /\ eof' \in [Endpoints -> BOOLEAN]
      BY <2>1 DEF ClientGone, HeadInv
    <2>5. eof'["client"] = eof["client"] /\ pc' = pc
      BY <2>1
    <2> QED
      BY <2>1, <2>3, <2>4, <2>5, KeepsHead
  <1>3. ASSUME NEW d \in Endpoints, Hangup(d) PROVE HeadInv'
    <2>1. UNCHANGED <<bytes, request, status, replies, arrived, pc, sent>>
      BY <1>3 DEF Hangup, T!CloseSending, T!Reset, choices, head
    <2>2. ClientGone => ClientGone'
      BY <1>3 DEF Hangup, T!CloseSending, T!Reset, ClientGone
    <2>3. eof' = eof \/ (~eof[d] /\ eof' = [eof EXCEPT ![d] = TRUE])
      BY <1>3 DEF Hangup, T!CloseSending, T!Reset
    <2>4. eof \in [Endpoints -> BOOLEAN]
      BY DEF HeadInv
    <2>5. eof' \in [Endpoints -> BOOLEAN]
      BY <2>3, <2>4, ZenonT(40)
    <2>6. eof'["client"] = eof["client"] \/ ~eof["client"]
      BY <2>3, <2>4, TwoEndpoints
    <2> QED
      BY <2>1, <2>2, <2>5, <2>6, KeepsHead
  <1>4. CASE ClientReceives \/ Resolve \/ Closed \/ UNCHANGED vars
    <2>1. UNCHANGED <<bytes, request, status, replies, arrived, pc, sent, eof, reset>>
      BY <1>4 DEF ClientReceives, Resolve, Closed, vars, wires, choices, head
    <2> QED
      BY <2>1, KeepsHead, ZenonT(40) DEF ClientGone, HeadInv
  <1> QED
    BY <1>1, <1>2, <1>3, <1>4, FillKeepsHead, HeadFailsKeepsHead, TakeKeepsHead,
       EstablishKeepsHead, ReplyKeepsHead, TunnelKeepsHead DEF Next, Task

\* Bytes that count up from one are the beginning of the data.
LEMMA CountingIsData ==
  ASSUME NEW a \in Seq(Int), NEW n \in Nat, Len(a) <= n,
         \A j \in 1..Len(a) : a[j] = j
  PROVE  BeginsData(a, n)
  <1> DEFINE d == Data(Len(a))
  <1>1. Len(a) \in Nat
    BY LenProperties
  <1>2. d \in Seq(Int) /\ Len(d) = Len(a)
    BY <1>1, DataGrows
  <1>3. \A j \in 1..Len(a) : a[j] = d[j]
    BY <1>1 DEF Data
  <1> HIDE DEF d
  <1>4. a = d
    BY <1>2, <1>3, SeqEqual
  <1> QED
    BY <1>4 DEF BeginsData, d

\* What the remote host is sent is the data that follows the head.
LEMMA RemoteGetsData ==
  ASSUME StreamInv, HeadInv
  PROVE  BeginsData(arrived["client"], sent["client"])
  <1> DEFINE b == bytes
             a == arrived["client"]
             f == prefetched["client"]
             i == inflight["client"]
             k == sent["client"]
             w == SubSeq(Program, 1, k)
             h == request.head
  <1>1. /\ b \in Seq(Int) /\ a \in Seq(Int) /\ f \in Seq(Int) /\ i \in Seq(Int)
        /\ k \in Nat /\ k <= Len(Program) /\ Len(b) \in Nat /\ Len(a) \in Nat
    BY TwoEndpoints, LenProperties DEF StreamInv, StreamTypes
  <1>2. /\ Program \in Seq(Int) /\ Len(h) \in Nat /\ Len(Program) \in Nat
        /\ \A j \in Nat : 0 < j /\ Len(h) + j <= Len(Program) =>
              Program[Len(h) + j] = j
    BY ProgramElements DEF StreamInv
  <1>3. PICK t \in Seq(Int) : (((b \o a) \o f) \o i) \o t = w
    BY ZenonT(40) DEF StreamInv, ClientKept, Kept, ClientStream
  <1>4. Len(w) = k /\ \A j \in 1..k : w[j] = Program[j]
    <2>1. \A j \in 1..Len(Program) : Program[j] \in Int
      BY <1>2, ElementOfSeq
    <2>2. \A j \in 1..k : Program[j] \in Int
      BY <1>1, <1>2, <2>1
    <2> HIDE DEF k
    <2>3. /\ Len(w) = (IF 1 <= k THEN k - 1 + 1 ELSE 0)
          /\ \A j \in 1..(k - 1 + 1) : w[j] = Program[1 + j - 1]
      BY <1>1, <2>2, SubSeqProperties
    <2> QED
      BY <1>1, <2>3
  <1>5. a # <<>> => b = h
    BY DEF HeadInv
  <1> HIDE DEF b, a, f, i, k, w, h
  <1>6. PICK u \in Seq(Int) : (b \o a) \o u = w
    <2> DEFINE x == b \o a
    <2>1. x \in Seq(Int) /\ ((x \o f) \o i) \o t = w
      BY <1>1, <1>3, Cat
    <2> HIDE DEF x
    <2>2. \E u \in Seq(Int) : ((x \o f) \o i) \o t = x \o u
      <3>1. (x \o f) \o i = x \o (f \o i)
        BY <1>1, <2>1, Assoc, ZenonT(40)
      <3> DEFINE y == f \o i
                 u == y \o t
      <3>2. y \in Seq(Int)
        BY <1>1, <2>1, Cat
      <3> HIDE DEF y
      <3>3. (x \o y) \o t = x \o u
        BY <1>1, <2>1, <3>2, Assoc, ZenonT(40)
      <3>4. u \in Seq(Int)
        BY <3>2, Cat
      <3> HIDE DEF u
      <3> QED
        BY <3>1, <3>3, <3>4, ZenonT(40) DEF y
    <2> QED
      BY <2>1, <2>2, ZenonT(40) DEF x
  <1>7. /\ Len(b) + Len(a) <= k
        /\ \A j \in 1..Len(a) : w[Len(b) + j] = a[j]
    <2>1. /\ Len(b) + Len(a) <= Len((b \o a) \o u)
          /\ \A j \in 1..Len(a) : ((b \o a) \o u)[Len(b) + j] = a[j]
      <3>1. b \in Seq(Int) /\ a \in Seq(Int) /\ u \in Seq(Int)
        BY <1>1
      <3> QED
        BY <3>1, FirstElements, ZenonT(40)
    <2> QED
      BY <1>4, <1>6, <2>1
  <1>8. \A j \in 1..Len(a) : a[j] = j
    <2> SUFFICES ASSUME NEW j \in 1..Len(a) PROVE a[j] = j
      OBVIOUS
    <2>1. b = h
      BY <1>1, <1>5, EmptySeq
    <2>2. Len(b) + j \in 1..k /\ j \in Nat /\ 0 < j
      BY <1>1, <1>7
    <2>3. w[Len(b) + j] = a[j] /\ w[Len(b) + j] = Program[Len(b) + j]
      BY <1>4, <1>7, <2>2
    <2>4. Len(h) + j <= Len(Program)
      BY <1>1, <1>2, <2>1, <2>2
    <2> QED
      BY <1>2, <2>1, <2>2, <2>3, <2>4, ZenonT(40)
  <1>9. Len(a) <= k
    BY <1>1, <1>7, SMTT(40)
  <1>10. BeginsData(a, k)
    BY <1>1, <1>8, <1>9, CountingIsData
  <1> QED
    BY <1>10 DEF a, k

\* What the client is sent is the data of the remote host.
LEMMA ClientGetsData ==
  ASSUME StreamInv
  PROVE  BeginsData(arrived["upstream"], sent["upstream"])
  <1> DEFINE a == arrived["upstream"]
             f == prefetched["upstream"]
             i == inflight["upstream"]
             k == sent["upstream"]
  <1>1. /\ a \in Seq(Int) /\ f \in Seq(Int) /\ i \in Seq(Int)
        /\ k \in Nat /\ Len(a) \in Nat
    BY TwoEndpoints, LenProperties, SMTT(40) DEF StreamInv, StreamTypes
  <1>2. PICK t \in Seq(Int) : ((a \o f) \o i) \o t = Data(k)
    BY ZenonT(40) DEF StreamInv, RemoteKept, Kept, RemoteStream
  <1>3. Len(Data(k)) = k /\ \A j \in 1..k : Data(k)[j] = j
    BY <1>1, DataGrows DEF Data
  <1> HIDE DEF a, f, i, k
  <1>4. PICK u \in Seq(Int) : a \o u = Data(k)
    <2>1. a \in Seq(Int) /\ f \in Seq(Int) /\ i \in Seq(Int) /\ t \in Seq(Int)
      BY <1>1
    <2>2. \E u \in Seq(Int) : ((a \o f) \o i) \o t = a \o u
      <3>1. (a \o f) \o i = a \o (f \o i)
        BY <2>1, Assoc, ZenonT(40)
      <3> DEFINE y == f \o i
                 u == y \o t
      <3>2. y \in Seq(Int)
        BY <2>1, Cat
      <3> HIDE DEF y
      <3>3. (a \o y) \o t = a \o u
        BY <2>1, <3>2, Assoc, ZenonT(40)
      <3>4. u \in Seq(Int)
        BY <3>2, Cat
      <3> HIDE DEF u
      <3> QED
        BY <3>1, <3>3, <3>4, ZenonT(40) DEF y
    <2> QED
      BY <1>2, <2>2
  <1>5. /\ Len(a \o u) = Len(a) + Len(u) /\ Len(u) \in Nat
        /\ \A j \in 1..Len(a) : (a \o u)[j] = a[j]
    BY <1>1, CatElements, LenProperties
  <1>6. Len(a) <= k /\ \A j \in 1..Len(a) : Data(k)[j] = a[j]
    BY <1>1, <1>3, <1>4, <1>5, SMTT(40)
  <1>7. Len(a) <= k /\ \A j \in 1..Len(a) : a[j] = j
    BY <1>1, <1>3, <1>6
  <1>8. BeginsData(a, k)
    BY <1>1, <1>7, CountingIsData
  <1> QED
    BY <1>8 DEF a, k

\* The invariant of the head and of the reply holds in every behaviour.
LEMMA SessionHead == Spec => [](Replying /\ StreamInv /\ HeadInv)
  <1> DEFINE Inv == Replying /\ StreamInv /\ HeadInv
  <1>1. Init => Inv
    <2> SUFFICES ASSUME Init PROVE Inv
      OBVIOUS
    <2>1. Replying /\ StreamInv
      BY InitStreams DEF Init, Replying, Before, After
    <2>2. /\ bytes = <<>> /\ replies = <<>> /\ pc = "read_head"
          /\ eof \in [Endpoints -> BOOLEAN]
          /\ \A d \in Endpoints : arrived[d] = <<>>
      BY DEF Init, T!Init
    <2>3. Len(<<>>) = 0 /\ MaxHeaderBytes \in Nat /\ Range(<<>>) = {}
      BY EmptySeq, SessionBounds DEF Range
    <2>4. Len(bytes) <= MaxHeaderBytes
      BY <2>2, <2>3
    <2>5. HeadInv
      BY <2>2, <2>3, <2>4, Places, TwoEndpoints DEF HeadInv
    <2> QED
      BY <2>1, <2>5, SMTT(40)
  <1>2. Inv /\ [Next]_vars => Inv'
    BY NextMaps, NextKeepsStreams, NextKeepsHead
  <1> QED
    BY <1>1, <1>2, PTL DEF Spec

\* The status line that handle_client writes is the one that the request
\* calls for: 405 and 502 and 200 only for a head that ended within
\* max_header_bytes, 400 only for a bad request or for a head that did not
\* end; whatever is read together, and whenever the client hangs up.
THEOREM TheReplyFitsTheRequest == Spec => []ReplyMatchesRequest
  <1>1. HeadInv => ReplyMatchesRequest
    BY DEF HeadInv, CalledFor, ReplyMatchesRequest, HeadSent
  <1> QED
    BY <1>1, SessionHead, PTL

\* The tunnel carries the bytes after the head and no others, in order, and
\* nothing before the client was told 200: prefetched bytes included, and on
\* a connection that fails included.
THEOREM OnlyDataIsTunnelled == Spec => []TunnelCarriesOnlyData
  <1>1. StreamInv /\ HeadInv => TunnelCarriesOnlyData
    <2> SUFFICES ASSUME StreamInv, HeadInv,
                        NEW d \in Endpoints
                 PROVE  /\ BeginsData(arrived[d], sent[d])
                        /\ arrived[d] # <<>> => replies = <<200>>
      BY DEF TunnelCarriesOnlyData
    <2>1. d \in {"client", "upstream"}
      BY DEF Endpoints, T!Endpoints
    <2>2. BeginsData(arrived[d], sent[d])
      BY <2>1, RemoteGetsData, ClientGetsData
    <2> QED
      BY <2>2 DEF HeadInv
  <1> QED
    BY <1>1, SessionHead, PTL

=============================================================================
