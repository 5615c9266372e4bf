-------------------------- MODULE AuthFramingProofs -------------------------
(***************************************************************************)
(* Proofs about the framing of the upstream's responses, for any set of    *)
(* responses, any limits and any authentication mode: when the responses   *)
(* are as long as their heads say, nothing of one is lost and nothing of   *)
(* it is left (FramedInv).                                                 *)
(***************************************************************************)
EXTENDS AuthExchangeProofs

\* There is much for the provers to look through here: they get more time.
USE SMTT(40), ZenonT(40)

(***************************************************************************)
(* Nothing of a response is lost, and nothing of it is left                *)
(***************************************************************************)

\* Nothing has arrived that was not used.
Quiet == buffer = <<>> /\ wire = <<>>

\* What is buffered and what is on the wire, of the last response.
Whole == Part(buffer, wire, peer, Encode(reply), 0)
BodyFrom(c) == Part(buffer, wire, peer, reply.body, c)

\* The head that was parsed is the one that was sent.
Answered == reply \in Responses /\ response = reply

\* The body of a challenge is being drained.
Draining == Answered /\ reply.status = 407 /\ ~ConnectionClose(reply)

\* The body is drained up to a place of it.
DrainedTo(place) ==
    /\ Draining /\ BodyFraming(reply) = "chunked"
    /\ \E c \in 0..Len(reply.body) :
          BodyFrom(c) /\ ChunkPlaces(reply.body)[c] = place

\* discard_exact has some units to go.
Discarding ==
    /\ remaining > 0 /\ buffer = <<>>
    /\ \/ DrainedTo(<<"chunk", remaining>>)
       \/ /\ Draining /\ BodyFraming(reply) = "length"
          /\ \E c \in 0..Len(reply.body) :
                BodyFrom(c) /\ c + remaining = Len(reply.body)

\* The place of the response that the control stands for.
Framed ==
    /\ pc = "read_head" =>
          /\ Len(buffer) <= MaxHeaderBytes
          /\ awaiting => Quiet
          /\ ~awaiting => reply \in Responses /\ Whole
    /\ pc \in {"first", "next"} =>
          Answered /\ BodyFrom(0) /\ Len(response.head) <= MaxHeaderBytes
    /\ pc = "connect" /\ scheme # "none" => ~must_drain
    /\ pc = "round" =>
          /\ must_drain => Answered /\ BodyFrom(0) /\ reply.status = 407
          /\ ~must_drain => Quiet
    /\ pc \in {"step", "send"} => Quiet
    /\ pc = "discard" => Discarding
    /\ pc = "size_line" => DrainedTo(<<"size", 0>>)
    /\ pc = "terminator" => DrainedTo(<<"after", 0>>)
    /\ pc = "trailer" => \/ DrainedTo(<<"trailer", 0>>)
                         \/ buffer = <<"crlf">> /\ wire = <<>>

\* The result, and who is waited for.
Outcome ==
    /\ Live => result = "none"
    /\ awaiting => \/ pc = "read_head"
                   \/ ~Live /\ result \notin {"ok", "header_too_large"}
    /\ result = "ok" => BodyFrom(0)
    /\ result = "header_too_large" => Len(reply.head) > MaxHeaderBytes

FramedInv == Framed /\ Outcome

\* The types of what a response is made of.
LEMMA ReplyType ==
  ASSUME TypeOK
  PROVE  /\ buffer \in Seq(Units) /\ wire \in Seq(Units)
         /\ reply.head \in Seq(Units) /\ reply.body \in Seq(Units)
         /\ Encode(reply) \in Seq(Units)
         /\ Len(buffer) \in Nat /\ Len(wire) \in Nat
         /\ Len(reply.head) \in Nat /\ Len(reply.body) \in Nat
  <1>1. reply \in Response
    BY ResponseType
  <1>2. reply.head \in Seq(Units) /\ reply.body \in Seq(Units)
    BY <1>1 DEF Response
  <1>3. Encode(reply) \in Seq(Units)
    BY <1>2, UnitsCat DEF Encode
  <1> QED
    BY <1>2, <1>3, LenProperties DEF TypeOK

\* An exchange that fails otherwise than by the limit.
LEMMA FailureKeepsFramed ==
  ASSUME NEW r, r \notin {"ok", "header_too_large"}, Exit(r)
  PROVE  FramedInv'
  BY DEF Exit, FramedInv, Framed, Outcome, Live

\* A read that fails.
LEMMA ReadFailsKeepsFramed ==
  ASSUME ReadFails
  PROVE  FramedInv'
  BY FailureKeepsFramed DEF ReadFails

\* The head ends where the upstream ended it.
LEMMA HeadFound ==
  ASSUME TypeOK, Reliable, reply \in Responses, Whole
  PROVE  /\ Len(reply.head) \in Nat /\ 0 < Len(reply.head)
         /\ HasHeaderEnd(buffer) <=> Len(reply.head) <= Len(buffer)
         /\ HasHeaderEnd(buffer) => FindHeaderEnd(buffer) = Len(reply.head)
  <1> DEFINE b == buffer
             h == reply.head
             y == reply.body
             s == Encode(reply)
  <1>1. /\ b \in Seq(Units) /\ h \in Seq(Units) /\ y \in Seq(Units) /\ s \in Seq(Units)
        /\ Len(b) \in Nat /\ Len(h) \in Nat /\ Len(y) \in Nat
    BY ReplyType, LenProperties
  <1>2. /\ Len(s) = Len(h) + Len(y) /\ \A i \in 1..Len(h) : s[i] = h[i]
    BY <1>1, UnitsCat, ZenonT(40) DEF Encode
  <1>3. HeaderEnds(h) = {Len(h)}
    BY DEF Reliable, Truthful
  <1>4. Len(b) <= Len(s) /\ \A i \in 1..Len(b) : b[i] = s[i]
    <2>1. /\ 0 + Len(b) + Len(wire) <= Len(s)
          /\ \A i \in 1..Len(b) : b[i] = s[0 + i]
      BY DEF Whole, Part
    <2>2. Len(wire) \in Nat /\ Len(s) \in Nat
      BY ReplyType, LenProperties
    <2> QED
      BY <1>1, <2>1, <2>2
  <1> HIDE DEF b, h, y, s
  <1>5. Len(h) \in 1..Len(h)
    BY <1>3 DEF HeaderEnds
  <1>6. \A i \in 1..Len(h) : i \in HeaderEnds(h) <=> i \in HeaderEnds(s)
    <2>1. Len(h) <= Len(h) /\ Len(h) <= Len(s) /\ \A i \in 1..Len(h) : h[i] = s[i]
      BY <1>1, <1>2
    <2> QED
      BY <1>1, <2>1, HeaderEndsBefore, ZenonT(40)
  <1>7. \A i \in 1..Len(b) : i \in HeaderEnds(b) <=> i \in HeaderEnds(s)
    <2>1. Len(s) \in Nat
      BY <1>1, LenProperties
    <2> QED
      BY <1>1, <1>4, <2>1, HeaderEndsBefore
  <1>8. ASSUME Len(h) <= Len(b)
        PROVE  Len(h) \in HeaderEnds(b)
    <2>1. Len(h) \in 1..Len(b)
      BY <1>1, <1>5, <1>8
    <2> QED
      BY <1>3, <1>5, <1>6, <1>7, <2>1
  <1>9. ASSUME HasHeaderEnd(b)
        PROVE  FindHeaderEnd(b) = Len(h) /\ Len(h) <= Len(b)
    <2> DEFINE e == FindHeaderEnd(b)
    <2>1. /\ e \in HeaderEnds(b) /\ e \in 1..Len(b)
          /\ \A i \in HeaderEnds(b) : e <= i
      BY <1>1, <1>9, HeaderEndFirst
    <2> HIDE DEF e
    <2>2. CASE e <= Len(h)
      <3>1. e \in 1..Len(h)
        BY <1>1, <2>1, <2>2
      <3>2. e \in HeaderEnds(h)
        BY <1>6, <1>7, <2>1, <3>1
      <3> QED
        BY <1>1, <1>3, <2>1, <3>2 DEF e
    <2>3. CASE ~(e <= Len(h))
      <3>1. Len(h) <= Len(b)
        BY <1>1, <2>1, <2>3
      <3> QED
        BY <1>8, <2>1, <2>3, <3>1
    <2> QED
      BY <2>2, <2>3
  <1>10. 0 < Len(h)
    BY <1>5
  <1>11. Len(h) <= Len(b) => HasHeaderEnd(b)
    BY <1>8 DEF HasHeaderEnd
  <1> QED
    BY <1>1, <1>9, <1>10, <1>11 DEF b, h

\* An empty buffer has neither a head nor a line in it.
LEMMA EmptyHasNothing == ~HasHeaderEnd(<<>>) /\ ~HasLine(<<>>) /\ Len(<<>>) = 0
  <1>1. Len(<<>>) = 0
    BY EmptySeq
  <1> QED
    BY <1>1 DEF HasHeaderEnd, HeaderEnds, HasLine

\* One turn of read_response_head: HeaderTooLarge only for a head that is.
LEMMA FillHeadKeepsFramed ==
  ASSUME TypeOK, Reliable, FramedInv, FillHead
  PROVE  FramedInv'
  <1>1. pc = "read_head" /\ ~HasHeaderEnd(buffer) /\ Live
    BY DEF FillHead, Live
  <1>2. /\ Len(buffer) <= MaxHeaderBytes /\ (awaiting => Quiet)
        /\ (~awaiting => reply \in Responses /\ Whole)
        /\ result = "none"
    BY <1>1 DEF FramedInv, Framed, Outcome
  <1>3. /\ buffer \in Seq(Units) /\ wire \in Seq(Units) /\ Encode(reply) \in Seq(Units)
        /\ Len(buffer) \in Nat /\ Len(wire) \in Nat /\ Len(reply.head) \in Nat
        /\ MaxHeaderBytes \in Nat /\ 0 < MaxHeaderBytes
    BY ReplyType, Limits
  <1>4. CASE HeadTooLarge /\ Exit("header_too_large")
    <2>1. Len(buffer) >= MaxHeaderBytes
      BY <1>4 DEF HeadTooLarge
    <2>2. ~awaiting
      BY <1>2, <1>3, <2>1, EmptyHasNothing DEF Quiet
    <2>3. ~(Len(reply.head) <= Len(buffer))
      BY <1>1, <1>2, <2>2, HeadFound
    <2>4. Len(reply.head) > MaxHeaderBytes
      BY <1>3, <2>1, <2>3
    <2>5. /\ pc' = "unwind" /\ result' = "header_too_large"
          /\ UNCHANGED <<awaiting, reply, buffer, wire>>
      BY <1>4 DEF Exit, KeepData, socketVars
    <2> QED
      BY <2>2, <2>4, <2>5 DEF FramedInv, Framed, Outcome, Live
  <1>5. CASE ReadFails
    BY <1>5, ReadFailsKeepsFramed, SMTT(40)
  <1>6. ASSUME NEW n \in 1..ReadSize, ~HeadTooLarge,
               ReadSome(Min({ReadSize, MaxHeaderBytes - Len(buffer)}), n),
               buffer' = buffer \o Front(wire, n),
               UNCHANGED <<pc, result, taskVars, remaining, sspiVars>>
        PROVE  FramedInv'
    <2>1. MaxHeaderBytes - Len(buffer) \in Nat
      BY <1>3, <1>6 DEF HeadTooLarge
    <2> DEFINE wanted == Min({ReadSize, MaxHeaderBytes - Len(buffer)})
    <2>2. wanted \in Nat /\ wanted <= MaxHeaderBytes - Len(buffer)
      BY <2>1, Limits, MinPair
    <2>3. ReadSome(wanted, n) /\ UNCHANGED <<peer, awaiting, reply>>
      BY <1>6 DEF ReadSome
    <2> HIDE DEF wanted
    <2>4. n \in Nat /\ 1 <= n /\ n <= Len(wire)
      BY <1>6, <2>2, <2>3, ReadMoves DEF ReadMoved
    <2>5. ~awaiting
      BY <1>2, <2>4, EmptyHasNothing DEF Quiet
    <2>6. /\ Part(buffer', wire', peer', Encode(reply), 0)
          /\ n <= wanted /\ Len(buffer') = Len(buffer) + n
      BY <1>2, <1>3, <1>6, <2>2, <2>3, <2>5, ReadKeepsPart, ZenonT(40) DEF Whole
    <2>7. Len(buffer') <= MaxHeaderBytes
      BY <1>3, <2>2, <2>4, <2>6
    <2>8. Whole'
      BY <2>3, <2>6 DEF Whole
    <2> QED
      BY <1>1, <1>2, <1>6, <2>3, <2>5, <2>7, <2>8, SMTT(40) DEF FramedInv, Framed, Outcome, Live
  <1> QED
    BY <1>4, <1>5, <1>6, ZenonT(40) DEF FillHead

\* The head is taken out of the buffer, and the body is left.
LEMMA TakeHeadKeepsFramed ==
  ASSUME TypeOK, Reliable, FramedInv, TakeHead
  PROVE  FramedInv'
  <1>1. pc = "read_head" /\ HasHeaderEnd(buffer) /\ Live
    BY DEF TakeHead, Live
  <1>2. ~awaiting
    BY <1>1, EmptyHasNothing DEF FramedInv, Framed, Quiet
  <1>3. /\ Len(buffer) <= MaxHeaderBytes /\ reply \in Responses /\ Whole
        /\ result = "none"
    BY <1>1, <1>2 DEF FramedInv, Framed, Outcome
  <1>4. /\ Len(reply.head) <= Len(buffer) /\ FindHeaderEnd(buffer) = Len(reply.head)
    BY <1>1, <1>3, HeadFound
  <1>5. UNCHANGED <<wire, peer, awaiting, reply>>
    BY DEF TakeHead, socketVars
  <1>6. buffer' = Rest(buffer, Len(reply.head))
    BY <1>4 DEF TakeHead, AfterHead
  <1>7. Part(Rest(buffer, Len(reply.head)), wire, peer, reply.body, 0)
    BY <1>3, <1>4, ReplyType, PartHead DEF Whole, Encode
  <1>8. BodyFrom(0)'
    BY <1>5, <1>6, <1>7 DEF BodyFrom
  <1>9. Len(reply.head) <= MaxHeaderBytes
    BY <1>3, <1>4, ReplyType, Limits, SMTT(40)
  <1>10. CASE response' = reply /\ pc' \in {"first", "next"} /\ UNCHANGED result
    BY <1>2, <1>3, <1>5, <1>8, <1>9, <1>10, SMTT(40)
    DEF FramedInv, Framed, Outcome, Live, Answered
  <1>11. CASE pc' = "unwind" /\ result' = "parse"
    BY <1>2, <1>5, <1>11 DEF FramedInv, Framed, Outcome, Live
  <1> QED
    BY <1>10, <1>11 DEF TakeHead

\* Off read_response_head nobody is waited for.
LEMMA NotAwaiting ==
  ASSUME FramedInv, Live, pc # "read_head"
  PROVE  ~awaiting /\ result = "none"
  BY SMTT(40) DEF FramedInv, Outcome

\* A step that leaves nothing.
LEMMA QuietKeepsFramed ==
  ASSUME FramedInv, Live, pc # "read_head", Quiet', UNCHANGED <<result, awaiting>>,
         pc' \in {"step", "send"}
  PROVE  FramedInv'
  BY NotAwaiting DEF FramedInv, Framed, Outcome, Live

\* A fresh socket.
LEMMA ConnectKeepsFramed ==
  ASSUME TypeOK, FramedInv, Connect
  PROVE  FramedInv'
  <1>1. Live /\ pc = "connect" /\ UNCHANGED <<result, scheme, must_drain>> /\ ~awaiting' /\ Quiet'
    BY DEF Connect, Live, GoTo, taskVars, Quiet
  <1>2. result = "none"
    BY <1>1, NotAwaiting
  <1>3. CASE scheme = "none"
    <2>1. pc' = "send"
      BY <1>3 DEF Connect, GoTo
    <2> QED
      BY <1>1, <1>2, <2>1 DEF FramedInv, Framed, Outcome, Live
  <1>4. CASE scheme # "none"
    <2>1. pc' = "round" /\ ~must_drain
      BY <1>1, <1>4 DEF Connect, GoTo, FramedInv, Framed
    <2> QED
      BY <1>1, <1>2, <2>1 DEF FramedInv, Framed, Outcome, Live
  <1> QED
    BY <1>3, <1>4

\* A request is sent, and an answer is waited for.
LEMMA SendKeepsFramed ==
  ASSUME TypeOK, FramedInv, Send
  PROVE  FramedInv'
  <1>1. Live /\ pc = "send" /\ pc' = "read_head" /\ awaiting' /\ Quiet'
        /\ UNCHANGED result
    BY DEF Send, Live, GoTo, FramedInv, Framed, Quiet
  <1>2. result = "none"
    BY <1>1, NotAwaiting
  <1>3. Len(buffer') <= MaxHeaderBytes
    BY <1>1, EmptySeq, Limits DEF Quiet
  <1>4. awaiting' = TRUE
    BY DEF Send
  <1> QED
    BY <1>1, <1>2, <1>3, <1>4 DEF FramedInv, Framed, Outcome, Live

\* Nothing of the socket changes.
LEMMA SameSocketSameBody ==
  ASSUME NEW c, BodyFrom(c), UNCHANGED <<socketVars, buffer>>
  PROVE  BodyFrom(c)'
  BY DEF BodyFrom, socketVars

\* The answer to the request is judged: a tunnel begins where the head ended.
LEMMA JudgedKeepsFramed ==
  ASSUME FramedInv, pc \in {"first", "next"},
         NEW r, r # "header_too_large", Exit(r)
  PROVE  FramedInv'
  <1>1. BodyFrom(0) /\ ~awaiting
    BY NotAwaiting DEF FramedInv, Framed, Live
  <1>2. BodyFrom(0)' /\ ~awaiting' /\ pc' = "unwind" /\ result' = r
    <2>1. UNCHANGED <<socketVars, buffer>> /\ pc' = "unwind" /\ result' = r
      BY DEF Exit, KeepData
    <2>2. UNCHANGED awaiting
      BY <2>1 DEF socketVars
    <2> QED
      BY <1>1, <2>1, <2>2, SameSocketSameBody
  <1> QED
    BY <1>2 DEF FramedInv, Framed, Outcome, Live

\* The first challenge.
LEMMA FirstKeepsFramed ==
  ASSUME TypeOK, FramedInv, First
  PROVE  FramedInv'
  <1>1. /\ Live /\ pc = "first" /\ Answered /\ BodyFrom(0) /\ ~awaiting
        /\ result = "none"
    BY NotAwaiting DEF First, Live, FramedInv, Framed
  <1>2. CASE \E r \in {"ok"} \union Errors : (Settled(r) \/ FirstRefused(r)) /\ Exit(r)
    <2>1. PICK r \in {"ok"} \union Errors : (Settled(r) \/ FirstRefused(r)) /\ Exit(r)
      BY <1>2
    <2>2. r # "header_too_large"
      BY <2>1 DEF Settled, FirstRefused
    <2> QED
      BY <1>1, <2>1, <2>2, JudgedKeepsFramed
  <1>3. CASE CreateFails
    BY <1>3, FailureKeepsFramed DEF CreateFails
  <1>4. CASE FirstChallenged
    <2>1. /\ response.status = 407
          /\ UNCHANGED <<socketVars, buffer, response>>
          /\ must_drain' = ~ConnectionClose(response)
      BY <1>4 DEF FirstChallenged
    <2>2. UNCHANGED <<awaiting, reply>>
      BY <2>1 DEF socketVars
    <2>3. BodyFrom(0)'
      BY <1>1, <2>1, SameSocketSameBody, SMTT(40)
    <2>4. CASE pc' = "unwind" /\ result' \in {"invalid_token", "closed_during_auth"}
      BY <1>1, <2>2, <2>4 DEF FramedInv, Framed, Outcome, Live
    <2>5. CASE UNCHANGED result /\ pc' = "connect" /\ ConnectionClose(response)
      BY <1>1, <2>1, <2>2, <2>5, ZenonT(40) DEF FramedInv, Framed, Outcome, Live
    <2>6. CASE UNCHANGED result /\ pc' = "round" /\ ~ConnectionClose(response)
      <3>1. Answered' /\ reply'.status = 407
        BY <1>1, <2>1, <2>2 DEF Answered
      <3>2. must_drain' = TRUE
        BY <2>1, <2>6, ZenonT(40)
      <3> QED
        BY <1>1, <2>2, <2>3, <2>6, <3>1, <3>2 DEF FramedInv, Framed, Outcome, Live
    <2> QED
      BY <1>4, <2>4, <2>5, <2>6 DEF FirstChallenged, GoTo
  <1> QED
    BY <1>2, <1>3, <1>4 DEF First

\* A later challenge.
LEMMA FollowingKeepsFramed ==
  ASSUME TypeOK, FramedInv, Following
  PROVE  FramedInv'
  <1>1. /\ Live /\ pc = "next" /\ Answered /\ BodyFrom(0) /\ ~awaiting
        /\ result = "none"
    BY NotAwaiting DEF Following, Live, FramedInv, Framed
  <1>2. CASE \E r \in {"ok"} \union Errors : Settled(r) /\ Exit(r)
    <2>1. PICK r \in {"ok"} \union Errors : Settled(r) /\ Exit(r)
      BY <1>2
    <2>2. r # "header_too_large"
      BY <2>1 DEF Settled
    <2> QED
      BY <1>1, <2>1, <2>2, JudgedKeepsFramed
  <1>3. CASE NextUnchallenged
    BY <1>3, FailureKeepsFramed DEF NextUnchallenged
  <1>4. CASE NextChallenged
    <2>1. /\ response.status = 407
          /\ UNCHANGED <<socketVars, buffer, response>>
          /\ must_drain' = TRUE
      BY <1>4 DEF NextChallenged
    <2>2. UNCHANGED <<awaiting, reply>>
      BY <2>1 DEF socketVars
    <2>3. BodyFrom(0)'
      BY <1>1, <2>1, SameSocketSameBody, SMTT(40)
    <2>4. CASE pc' = "unwind" /\ result' = "invalid_token"
      BY <1>1, <2>2, <2>4, SMTT(40) DEF FramedInv, Framed, Outcome, Live
    <2>5. CASE UNCHANGED result /\ pc' = "round"
      <3>1. Answered' /\ reply'.status = 407
        BY <1>1, <2>1, <2>2 DEF Answered
      <3> QED
        BY <1>1, <2>1, <2>2, <2>3, <2>5, <3>1 DEF FramedInv, Framed, Outcome, Live
    <2> QED
      BY <1>4, <2>4, <2>5 DEF NextChallenged, GoTo
  <1> QED
    BY <1>2, <1>3, <1>4 DEF Following

\* The body is drained up to a place after a step.
LEMMA DrainedAfter ==
  ASSUME Draining, BodyFraming(reply) = "chunked", UNCHANGED <<reply, response>>,
         NEW place, NEW c \in 0..Len(reply.body),
         Part(buffer', wire', peer', reply.body, c), ChunkPlaces(reply.body)[c] = place
  PROVE  DrainedTo(place)'
  <1>1. Draining' /\ (BodyFraming(reply) = "chunked")'
    BY DEF Draining, Answered
  <1>2. \E d \in 0..Len(reply'.body) :
           Part(buffer', wire', peer', reply'.body, d) /\ ChunkPlaces(reply'.body)[d] = place
    OBVIOUS
  <1> QED
    BY <1>1, <1>2 DEF DrainedTo, BodyFrom

\* The smaller of two is one of them.
LEMMA MinOfPair ==
  ASSUME NEW a \in Nat, NEW b \in Nat
  PROVE  Min({a, b}) \in {a, b} /\ Min({a, b}) <= a /\ Min({a, b}) <= b
  BY MinNat, {a, b} \in SUBSET Nat, {a, b} # {}

\* The beginning of a discard of length units of the body, the first c of which
\* are read: k of them are buffered, and when that is not all of them the
\* buffer is empty.
DiscardBegun(c, length, after) ==
    \E k \in 0..length :
       /\ c + k <= Len(reply.body)
       /\ Part(buffer', wire', peer', reply.body, c + k)
       /\ buffer' \in Seq(Units)
       /\ remaining' = length - k
       /\ pc' = (IF k = length THEN after ELSE "discard")
       /\ k # length => buffer' = <<>>
       /\ UNCHANGED <<result, wire, peer, awaiting, reply, response>>

\* discard_exact uses what is buffered first, and reads only when all of that
\* was part of what it discards.
LEMMA DiscardBegins ==
  ASSUME TypeOK, NEW from \in Seq(Units), NEW length \in Nat, NEW after,
         NEW c \in Nat, Part(from, wire, peer, reply.body, c),
         BeginDiscard(from, length, after)
  PROVE  DiscardBegun(c, length, after)
  <1> DEFINE k == Buffered(length, from)
  <1>1. /\ Len(from) \in Nat /\ wire \in Seq(Units) /\ reply.body \in Seq(Units)
    BY ReplyType, LenProperties
  <1>2. k \in {length, Len(from)} /\ k <= length /\ k <= Len(from) /\ k \in Nat
    BY <1>1, MinOfPair, SMTT(40) DEF Buffered
  <1>3. /\ buffer' = Rest(from, k) /\ remaining' = length - k
        /\ pc' = (IF remaining' = 0 THEN after ELSE "discard")
        /\ UNCHANGED <<result, wire, peer, awaiting, reply, response>>
    BY DEF BeginDiscard, GoTo, socketVars, taskVars
  <1> HIDE DEF k
  <1>4. k \in 0..length /\ k \in 0..Len(from)
    BY <1>1, <1>2
  <1>5. /\ Part(Rest(from, k), wire, peer, reply.body, c + k)
        /\ c + k <= Len(reply.body) /\ Rest(from, k) \in Seq(Units)
        /\ Len(Rest(from, k)) = Len(from) - k
    BY <1>1, <1>4, PartDrop, ZenonT(40)
  <1>6. k # length => buffer' = <<>>
    <2> SUFFICES ASSUME k # length PROVE buffer' = <<>>
      OBVIOUS
    <2>1. Len(buffer') = 0 /\ buffer' \in Seq(Units)
      BY <1>1, <1>2, <1>3, <1>5
    <2> QED
      BY <2>1, EmptySeq
  <1>7. pc' = IF k = length THEN after ELSE "discard"
    BY <1>2, <1>3
  <1>8. Part(buffer', wire', peer', reply.body, c + k)
    BY <1>3, <1>5
  <1> QED
    BY <1>3, <1>4, <1>5, <1>6, <1>7, <1>8, SMTT(40) DEF DiscardBegun

\* The end of the body: nothing is left.
LEMMA DrainedIsQuiet ==
  ASSUME TypeOK, buffer' \in Seq(Units), wire' \in Seq(Units),
         Part(buffer', wire', peer', reply.body, Len(reply.body))
  PROVE  Quiet'
  BY ReplyType, PartEnd DEF Quiet

\* The head of a round, and the first part of the body of its challenge.
LEMMA RoundKeepsFramed ==
  ASSUME TypeOK, Reliable, FramedInv, Round
  PROVE  FramedInv'
  <1>1. Live /\ pc = "round" /\ ~awaiting /\ result = "none"
    BY NotAwaiting DEF Round, Live
  <1>2. CASE Exit("too_many_rounds") \/ ClosedDuringAuth \/ Exit("invalid_content_length")
    BY <1>2, FailureKeepsFramed DEF ClosedDuringAuth
  <1>3. CASE ~must_drain /\ GoTo("step") /\ KeepData
    <2>1. Quiet' /\ UNCHANGED <<result, awaiting>> /\ pc' = "step"
      BY <1>1, <1>3, SMTT(40) DEF FramedInv, Framed, Quiet, GoTo, KeepData, socketVars
    <2> QED
      BY <1>1, <2>1, QuietKeepsFramed
  <1>4. CASE must_drain /\ ~ConnectionClose(response) /\ Drain
    <2> DEFINE y == reply.body
    <2>1. Answered /\ BodyFrom(0) /\ reply.status = 407 /\ ~ConnectionClose(reply)
      BY <1>1, <1>4 DEF FramedInv, Framed, Answered
    <2>2. Draining /\ response = reply /\ Truthful(reply)
      BY <2>1 DEF Draining, Answered, Reliable
    <2>3. y \in Seq(Units) /\ Len(y) \in Nat /\ wire \in Seq(Units) /\ buffer \in Seq(Units)
      BY ReplyType, SMTT(40)
    <2>4. CASE BodyFraming(response) = "chunked" /\ GoTo("size_line") /\ KeepData
      <3>1. /\ UNCHANGED <<result, awaiting, reply, response, buffer, wire, peer>>
            /\ pc' = "size_line"
        BY <2>4 DEF GoTo, KeepData, socketVars, taskVars
      <3>2. Part(buffer', wire', peer', reply.body, 0)
        BY <2>1, <3>1 DEF BodyFrom
      <3>3. ChunkPlaces(reply.body)[0] = <<"size", 0>> /\ 0 \in 0..Len(reply.body)
        BY <2>3, PlacesFollow
      <3>4. DrainedTo(<<"size", 0>>)'
        BY <2>2, <2>4, <3>1, <3>2, <3>3, DrainedAfter, ZenonT(40)
      <3> QED
        BY <1>1, <3>1, <3>4 DEF FramedInv, Framed, Outcome, Live
    <2>5. CASE BodyFraming(response) = "none" /\ GoTo("step") /\ KeepData
      <3>1. /\ UNCHANGED <<result, awaiting, reply, buffer, wire, peer>>
            /\ pc' = "step"
        BY <2>5, SMTT(40) DEF GoTo, KeepData, socketVars
      <3>2. reply.body = <<>>
        BY <2>1, <2>2, <2>5 DEF Truthful, BodyFraming
      <3>3. Len(reply.body) = 0
        BY <3>2, EmptySeq
      <3>4. Part(buffer', wire', peer', reply.body, Len(reply.body))
        BY <2>1, <3>1, <3>3 DEF BodyFrom
      <3>5. Quiet'
        BY <2>3, <3>1, <3>4, DrainedIsQuiet
      <3> QED
        BY <1>1, <3>1, <3>5, QuietKeepsFramed
    <2>6. CASE BodyFraming(response) = "length"
               /\ BeginDiscard(buffer, response.lengths[1], "step")
      <3>1. response.lengths[1] = Len(reply.body)
        BY <2>1, <2>2, <2>6 DEF Truthful, BodyFraming
      <3>2. Part(buffer, wire, peer, reply.body, 0)
        BY <2>1 DEF BodyFrom
      <3>3. BeginDiscard(buffer, Len(reply.body), "step")
        BY <2>6, <3>1
      <3>4. PICK k \in 0..Len(reply.body) :
               /\ Part(buffer', wire', peer', reply.body, 0 + k)
               /\ buffer' \in Seq(Units)
               /\ remaining' = Len(reply.body) - k
               /\ pc' = (IF k = Len(reply.body) THEN "step" ELSE "discard")
               /\ k # Len(reply.body) => buffer' = <<>>
               /\ UNCHANGED <<result, wire, peer, awaiting, reply, response>>
        <4>1. DiscardBegun(0, Len(reply.body), "step")
          BY <2>3, <3>2, <3>3, DiscardBegins, 0 \in Nat
        <4> QED
          BY <4>1 DEF DiscardBegun
      <3>5. 0 + k = k
        OBVIOUS
      <3>6. CASE k = Len(reply.body)
        <4>1. Quiet'
          BY <2>3, <3>4, <3>5, <3>6, DrainedIsQuiet, SMTT(40)
        <4> QED
          BY <1>1, <3>4, <3>6, <4>1, QuietKeepsFramed, SMTT(40)
      <3>7. CASE k # Len(reply.body)
        <4>1. remaining' > 0 /\ k + remaining' = Len(reply.body)
          BY <2>3, <3>4, <3>7
        <4>2. Draining' /\ (BodyFraming(reply) = "length")'
          BY <2>2, <2>6, <3>4, ZenonT(40) DEF Draining, Answered
        <4>3. \E d \in 0..Len(reply'.body) :
                 Part(buffer', wire', peer', reply'.body, d) /\ d + remaining' = Len(reply'.body)
          BY <3>4, <3>5, <4>1
        <4>4. Discarding'
          BY <3>4, <3>7, <4>1, <4>2, <4>3 DEF Discarding, BodyFrom
        <4> QED
          BY <1>1, <3>4, <3>7, <4>4 DEF FramedInv, Framed, Outcome, Live
      <3> QED
        BY <3>6, <3>7, SMTT(40)
    <2>7. CASE Exit("invalid_content_length")
      BY <2>7, <1>2
    <2> QED
      BY <1>4, <2>4, <2>5, <2>6, <2>7, SMTT(40) DEF Drain
  <1> QED
    BY <1>2, <1>3, <1>4 DEF Round

\* A step of the security context.
LEMMA StepKeepsFramed ==
  ASSUME TypeOK, FramedInv, Step
  PROVE  FramedInv'
  <1>1. Live /\ pc = "step" /\ ~awaiting /\ result = "none" /\ Quiet
    BY NotAwaiting DEF Step, Live, FramedInv, Framed
  <1>2. CASE Exit("auth")
    BY <1>2, FailureKeepsFramed, SMTT(40)
  <1>3. ASSUME UNCHANGED <<socketVars, buffer>>,
               (pc' = "send" /\ UNCHANGED result) \/ (pc' = "unwind" /\ result' = "auth")
        PROVE  FramedInv'
    <2>1. Quiet' /\ UNCHANGED awaiting
      BY <1>1, <1>3, SMTT(40) DEF Quiet, socketVars
    <2> QED
      BY <1>1, <1>3, <2>1 DEF FramedInv, Framed, Outcome, Live
  <1> QED
    BY <1>2, <1>3, SMTT(40) DEF Step, GoTo

\* A read of discard_exact takes no more than what is to be discarded.
LEMMA DiscardKeepsFramed ==
  ASSUME TypeOK, Reliable, FramedInv, Discard
  PROVE  FramedInv'
  <1>1. Live /\ pc = "discard" /\ ~awaiting /\ result = "none" /\ Discarding
    BY NotAwaiting DEF Discard, Live, FramedInv, Framed
  <1>2. CASE ReadFails
    BY <1>2, ReadFailsKeepsFramed
  <1>3. ASSUME NEW n \in 1..ReadSize, ReadSome(Min({ReadSize, remaining}), n),
               remaining' = remaining - n,
               pc' = (IF remaining' > 0 THEN "discard"
                      ELSE IF BodyFraming(response) = "chunked"
                      THEN "terminator" ELSE "step"),
               UNCHANGED <<result, buffer, response>>
        PROVE  FramedInv'
    <2> DEFINE wanted == Min({ReadSize, remaining})
    <2>1. wanted \in Nat /\ wanted <= remaining /\ remaining \in Nat
      BY Limits, MinPair, SMTT(40) DEF TypeOK
    <2>2. ReadSome(wanted, n) /\ UNCHANGED <<peer, awaiting, reply>>
      BY <1>3, SMTT(40) DEF ReadSome
    <2> HIDE DEF wanted
    <2>3. n \in Nat /\ 1 <= n /\ n <= wanted /\ wire' \in Seq(Units)
      BY <1>3, <2>1, <2>2, ReadMoves DEF ReadMoved
    <2>4. /\ n \in 0..remaining /\ remaining' \in Nat
          /\ 0 < remaining /\ buffer = <<>> /\ buffer' = <<>>
      BY <1>1, <1>3, <2>1, <2>3 DEF Discarding
    <2>5. reply.body \in Seq(Units) /\ Len(reply.body) \in Nat
      BY ReplyType
    <2>6. ASSUME NEW c \in 0..Len(reply.body), BodyFrom(c)
          PROVE  /\ Part(buffer', wire', peer', reply.body, c + n)
                 /\ c + n \in 0..Len(reply.body)
      <3>1. Part(<<>>, wire, peer, reply.body, c)
        BY <2>4, <2>6 DEF BodyFrom
      <3>2. /\ Part(<<>>, wire', peer', reply.body, c + n)
            /\ c + n \in Nat /\ c + n <= Len(reply.body)
        BY <2>1, <2>2, <2>5, <3>1, ReadSkipsPart
      <3> QED
        BY <2>4, <2>5, <3>2
    <2>7. CASE DrainedTo(<<"chunk", remaining>>)
      <3>1. /\ Draining /\ BodyFraming(reply) = "chunked" /\ response = reply
        BY <2>7 DEF DrainedTo, Draining, Answered
      <3>2. PICK c \in 0..Len(reply.body) :
               BodyFrom(c) /\ ChunkPlaces(reply.body)[c] = <<"chunk", remaining>>
        BY <2>7, SMTT(40) DEF DrainedTo
      <3>3. /\ Part(buffer', wire', peer', reply.body, c + n)
            /\ c + n \in 0..Len(reply.body)
        BY <2>6, <3>2
      <3>4. ChunkPlaces(reply.body)[c + n] =
               IF n = remaining THEN <<"after", 0>> ELSE <<"chunk", remaining - n>>
        <4> DEFINE y == reply.body
                   k == remaining
        <4>1. /\ y \in Seq(Units) /\ c \in Nat /\ k \in Nat /\ n \in 0..k
              /\ c + n <= Len(y) /\ ChunkPlaces(y)[c] = <<"chunk", k>> /\ 0 < k
          BY <2>1, <2>4, <2>5, <3>2, <3>3
        <4> HIDE DEF y, k
        <4>2. CountedDown(y, c, k, n)
          BY <4>1, ChunkCounts, ZenonT(40)
        <4> QED
          BY <4>2, ZenonT(40) DEF CountedDown, y, k
      <3>5. CASE n = remaining
        <4>1. pc' = "terminator"
          BY <1>3, <2>1, <3>1, <3>5
        <4>2. DrainedTo(<<"after", 0>>)'
          BY <1>3, <2>2, <3>1, <3>3, <3>4, <3>5, DrainedAfter, ZenonT(40)
        <4> QED
          BY <1>1, <1>3, <2>2, <4>1, <4>2, ZenonT(40) DEF FramedInv, Framed, Outcome, Live
      <3>6. CASE n # remaining
        <4>1. pc' = "discard" /\ remaining' > 0
          BY <1>3, <2>1, <2>4, <3>6, SMTT(40)
        <4>2. ChunkPlaces(reply.body)[c + n] = <<"chunk", remaining'>>
          BY <1>3, <3>4, <3>6, SMTT(40)
        <4>3. Draining' /\ (BodyFraming(reply) = "chunked")'
          BY <1>3, <2>2, <3>1 DEF Draining, Answered
        <4>4. \E d \in 0..Len(reply'.body) :
                 /\ Part(buffer', wire', peer', reply'.body, d)
                 /\ ChunkPlaces(reply'.body)[d] = <<"chunk", remaining'>>
          BY <2>2, <3>3, <4>2, ZenonT(40)
        <4>5. Discarding'
          BY <2>4, <4>1, <4>3, <4>4, ZenonT(40) DEF Discarding, DrainedTo, BodyFrom
        <4> QED
          BY <1>1, <1>3, <2>2, <4>1, <4>5, ZenonT(40) DEF FramedInv, Framed, Outcome, Live
      <3> QED
        BY <3>5, <3>6
    <2>8. CASE /\ Draining /\ BodyFraming(reply) = "length"
               /\ \E c \in 0..Len(reply.body) :
                     BodyFrom(c) /\ c + remaining = Len(reply.body)
      <3>1. PICK c \in 0..Len(reply.body) :
               BodyFrom(c) /\ c + remaining = Len(reply.body)
        BY <2>8
      <3>2. /\ Part(buffer', wire', peer', reply.body, c + n)
            /\ c + n \in 0..Len(reply.body)
        BY <2>6, <3>1, SMTT(40)
      <3>3. CASE n = remaining
        <4>1. pc' = "step"
          BY <1>3, <2>1, <2>8, <3>3 DEF Draining, Answered
        <4>2. buffer' \in Seq(Units)
          BY <2>4, EmptySeq
        <4>3. Quiet'
          BY <2>3, <3>1, <3>2, <3>3, <4>2, DrainedIsQuiet
        <4> QED
          BY <1>1, <1>3, <2>2, <4>1, <4>3, QuietKeepsFramed, ZenonT(40)
      <3>4. CASE n # remaining
        <4>1. pc' = "discard" /\ remaining' > 0 /\ (c + n) + remaining' = Len(reply.body)
          BY <1>3, <2>1, <2>4, <3>1, <3>4, SMTT(40)
        <4>2. Draining' /\ (BodyFraming(reply) = "length")'
          BY <1>3, <2>2, <2>8 DEF Draining, Answered
        <4>3. \E d \in 0..Len(reply'.body) :
                 Part(buffer', wire', peer', reply'.body, d) /\ d + remaining' = Len(reply'.body)
          BY <2>2, <3>2, <4>1
        <4>4. Discarding'
          BY <2>4, <4>1, <4>2, <4>3, SMTT(40) DEF Discarding, BodyFrom
        <4> QED
          BY <1>1, <1>3, <2>2, <4>1, <4>4, ZenonT(40) DEF FramedInv, Framed, Outcome, Live
      <3> QED
        BY <3>3, <3>4
    <2> QED
      BY <1>1, <2>7, <2>8, SMTT(40) DEF Discarding
  <1> QED
    BY <1>2, <1>3, SMTT(40) DEF Discard, GoTo, taskVars

\* One turn of read_line.
LEMMA FillLineKeepsFramed ==
  ASSUME TypeOK, FramedInv, NEW state \in {"size_line", "terminator", "trailer"},
         NEW limit, FillLine(state, limit)
  PROVE  FramedInv'
  <1> DEFINE place == IF state = "size_line" THEN <<"size", 0>>
                      ELSE IF state = "terminator" THEN <<"after", 0>>
                      ELSE <<"trailer", 0>>
  <1>1. Live /\ pc = state /\ ~awaiting /\ result = "none" /\ ~HasLine(buffer)
    BY NotAwaiting DEF FillLine, Live
  <1>2. CASE Exit("invalid_chunked_body")
    BY <1>2, FailureKeepsFramed
  <1>3. CASE ReadFails
    BY <1>3, ReadFailsKeepsFramed, SMTT(40)
  <1>4. ASSUME NEW n \in 1..LineReadSize, ReadSome(LineReadSize, n),
               buffer' = buffer \o Front(wire, n),
               UNCHANGED <<pc, result, taskVars, remaining, sspiVars>>
        PROVE  FramedInv'
    <2>1. UNCHANGED <<awaiting, reply, response>>
      BY <1>4 DEF ReadSome, taskVars
    <2>2. buffer # <<"crlf">>
      <3>1. HasLine(<<"crlf">>)
        BY DEF HasLine, Lines, Units
      <3> QED
        BY <1>1, <3>1
    <2>3. DrainedTo(place)
      BY <1>1, <2>2 DEF FramedInv, Framed
    <2>4. PICK c \in 0..Len(reply.body) :
             BodyFrom(c) /\ ChunkPlaces(reply.body)[c] = place
      BY <2>3, SMTT(40) DEF DrainedTo
    <2>5. Part(buffer, wire, peer, reply.body, c) /\ c \in Nat /\ reply.body \in Seq(Units)
          /\ LineReadSize \in Nat
      BY <2>4, ReplyType, Limits, SMTT(40) DEF BodyFrom
    <2>6. Part(buffer', wire', peer', reply.body, c)
      BY <1>4, <2>5, ReadKeepsPart
    <2>7. DrainedTo(place)'
      BY <2>1, <2>3, <2>4, <2>6, DrainedAfter, ZenonT(40) DEF DrainedTo
    <2> QED
      BY <1>1, <1>4, <2>1, <2>7, SMTT(40) DEF FramedInv, Framed, Outcome, Live
  <1> QED
    BY <1>2, <1>3, <1>4 DEF FillLine

\* Behind a line of one unit the body is one unit further.
LEMMA OneLine ==
  ASSUME TypeOK, NEW place, DrainedTo(place), HasLine(buffer),
         NEW u, u \notin {"end", "blank"}, LineOf(buffer) = <<u>>
  PROVE  /\ AfterLine(buffer) \in Seq(Units)
         /\ \E c \in 0..Len(reply.body) :
               /\ Part(AfterLine(buffer), wire, peer, reply.body, c)
               /\ ChunkPlaces(reply.body)[c] = AfterUnit(place, u)
  <1> DEFINE b == buffer
             y == reply.body
  <1>1. /\ b \in Seq(Units) /\ y \in Seq(Units) /\ wire \in Seq(Units)
        /\ Len(b) \in Nat /\ Len(y) \in Nat /\ Len(wire) \in Nat
    BY ReplyType
  <1>2. PICK c \in 0..Len(y) : Part(b, wire, peer, y, c) /\ ChunkPlaces(y)[c] = place
    BY DEF DrainedTo, BodyFrom
  <1>3. LineEnd(b) = 1 /\ b[1] = u /\ 1 \in 1..Len(b)
    BY <1>1, LineOfOne, FirstLine, SMTT(40)
  <1>4. AfterLine(b) = Rest(b, 1)
    BY <1>1, <1>3, FirstLine
  <1> HIDE DEF b, y
  <1>5. 1 \in 0..Len(b) /\ c \in Nat
    BY <1>1, <1>3
  <1>6. Part(Rest(b, 1), wire, peer, y, c + 1) /\ c + 1 <= Len(y) /\ Rest(b, 1) \in Seq(Units)
    BY <1>1, <1>2, <1>5, PartDrop
  <1>7. y[c + 1] = u
    BY <1>2, <1>3 DEF Part
  <1>8. ChunkPlaces(y)[c + 1] = AfterUnit(place, u)
    BY <1>1, <1>2, <1>5, <1>6, <1>7, PlaceAfter
  <1>9. c + 1 \in 0..Len(y)
    BY <1>1, <1>5, <1>6
  <1> QED
    BY <1>4, <1>6, <1>8, <1>9 DEF b, y

\* read_line returns a line of one unit, and drain_chunked goes on.
LEMMA OneLineKeepsFramed ==
  ASSUME TypeOK, NEW place, DrainedTo(place), HasLine(buffer),
         NEW u, u \notin {"end", "blank"}, LineOf(buffer) = <<u>>,
         NEW state, TakeLine(state)
  PROVE  /\ DrainedTo(AfterUnit(place, u))'
         /\ pc' = state /\ UNCHANGED <<result, awaiting>>
  <1>1. PICK c \in 0..Len(reply.body) :
           /\ Part(AfterLine(buffer), wire, peer, reply.body, c)
           /\ ChunkPlaces(reply.body)[c] = AfterUnit(place, u)
    BY OneLine
  <1>2. /\ buffer' = AfterLine(buffer) /\ pc' = state
        /\ UNCHANGED <<result, awaiting, wire, peer, reply, response>>
    BY DEF TakeLine, GoTo, socketVars, taskVars
  <1>3. Part(buffer', wire', peer', reply.body, c)
    BY <1>1, <1>2
  <1>4. Draining /\ BodyFraming(reply) = "chunked"
    BY DEF DrainedTo
  <1>5. DrainedTo(AfterUnit(place, u))'
    BY <1>1, <1>2, <1>3, <1>4, DrainedAfter
  <1> QED
    BY <1>2, <1>5

\* A size line, and what of the chunk is buffered.
LEMMA SizeLineKeepsFramed ==
  ASSUME TypeOK, FramedInv, SizeLine
  PROVE  FramedInv'
  <1>1. /\ Live /\ pc = "size_line" /\ ~awaiting /\ result = "none" /\ HasLine(buffer)
        /\ DrainedTo(<<"size", 0>>)
    BY NotAwaiting DEF SizeLine, Live, FramedInv, Framed
  <1>2. CASE Exit("invalid_chunked_body")
    BY <1>2, FailureKeepsFramed, SMTT(40)
  <1>3. CASE LineOf(buffer) = <<"last">> /\ TakeLine("trailer")
    <2>1. /\ DrainedTo(AfterUnit(<<"size", 0>>, "last"))'
          /\ pc' = "trailer" /\ UNCHANGED <<result, awaiting>>
      BY <1>1, <1>3, OneLineKeepsFramed, SMTT(40)
    <2>2. DrainedTo(<<"trailer", 0>>)'
      BY <2>1, UnitSteps
    <2> QED
      BY <1>1, <2>1, <2>2, SMTT(40) DEF FramedInv, Framed, Outcome, Live
  <1>4. CASE /\ LineOf(buffer) = <<"size">>
             /\ BeginDiscard(AfterLine(buffer), ChunkUnits, "terminator")
    <2> DEFINE from == AfterLine(buffer)
               y == reply.body
    <2>1. /\ from \in Seq(Units)
          /\ \E c \in 0..Len(y) :
                /\ Part(from, wire, peer, y, c)
                /\ ChunkPlaces(y)[c] = AfterUnit(<<"size", 0>>, "size")
      BY <1>1, <1>4, OneLine
    <2>2. PICK c \in 0..Len(y) :
             Part(from, wire, peer, y, c) /\ ChunkPlaces(y)[c] = <<"chunk", ChunkUnits>>
      BY <2>1, UnitSteps, ZenonT(40)
    <2>3. ChunkUnits \in Nat /\ 0 < ChunkUnits /\ c \in Nat /\ y \in Seq(Units) /\ Len(y) \in Nat
      BY Limits, ReplyType
    <2>4. BeginDiscard(from, ChunkUnits, "terminator")
      BY <1>4, SMTT(40)
    <2> HIDE DEF from
    <2>5. PICK k \in 0..ChunkUnits :
            /\ c + k <= Len(reply.body)
            /\ Part(buffer', wire', peer', reply.body, c + k)
            /\ remaining' = ChunkUnits - k
            /\ pc' = (IF k = ChunkUnits THEN "terminator" ELSE "discard")
            /\ k # ChunkUnits => buffer' = <<>>
            /\ UNCHANGED <<result, awaiting, reply, response>>
      <3>1. TypeOK /\ Part(from, wire, peer, reply.body, c) /\ from \in Seq(Units) /\ c \in Nat
        BY <2>1, <2>2, <2>3
      <3>2. DiscardBegun(c, ChunkUnits, "terminator")
        BY <2>3, <2>4, <3>1, DiscardBegins, ZenonT(40)
      <3> QED
        BY <3>2 DEF DiscardBegun
    <2>6. ChunkPlaces(reply.body)[c + k] =
             IF k = ChunkUnits THEN <<"after", 0>> ELSE <<"chunk", ChunkUnits - k>>
      <3> HIDE DEF y
      <3>1. /\ y \in Seq(Units) /\ c \in Nat /\ ChunkUnits \in Nat /\ k \in 0..ChunkUnits
            /\ c + k <= Len(y) /\ ChunkPlaces(y)[c] = <<"chunk", ChunkUnits>> /\ 0 < ChunkUnits
        BY <2>2, <2>3, <2>5, ZenonT(40) DEF y
      <3>2. CountedDown(y, c, ChunkUnits, k)
        BY <3>1, ChunkCounts, ZenonT(40)
      <3> QED
        BY <3>2, ZenonT(40) DEF CountedDown, y
    <2>7. c + k \in 0..Len(reply.body)
      BY <2>3, <2>5, SMTT(40)
    <2>8. Draining /\ BodyFraming(reply) = "chunked"
      BY <1>1, ZenonT(40) DEF DrainedTo
    <2>9. CASE k = ChunkUnits
      <3>1. DrainedTo(<<"after", 0>>)'
        BY <2>5, <2>6, <2>7, <2>8, <2>9, DrainedAfter, ZenonT(40)
      <3> QED
        BY <1>1, <2>5, <2>9, <3>1, SMTT(40) DEF FramedInv, Framed, Outcome, Live
    <2>10. CASE k # ChunkUnits
      <3>1. remaining' > 0
        BY <2>3, <2>5, <2>10, SMTT(40)
      <3>2. Draining' /\ (BodyFraming(reply) = "chunked")'
        BY <2>5, <2>8, SMTT(40) DEF Draining, Answered
      <3>3. \E d \in 0..Len(reply'.body) :
               /\ Part(buffer', wire', peer', reply'.body, d)
               /\ ChunkPlaces(reply'.body)[d] = <<"chunk", remaining'>>
        BY <2>5, <2>6, <2>7, <2>10
      <3>4. Discarding'
        BY <2>5, <2>10, <3>1, <3>2, <3>3, ZenonT(40) DEF Discarding, DrainedTo, BodyFrom
      <3> QED
        BY <1>1, <2>5, <2>10, <3>4, SMTT(40) DEF FramedInv, Framed, Outcome, Live
    <2> QED
      BY <2>9, <2>10
  <1> QED
    BY <1>2, <1>3, <1>4, SMTT(40) DEF SizeLine

\* The empty line after a chunk.
LEMMA TerminatorKeepsFramed ==
  ASSUME TypeOK, FramedInv, Terminator
  PROVE  FramedInv'
  <1>1. /\ Live /\ pc = "terminator" /\ ~awaiting /\ result = "none" /\ HasLine(buffer)
        /\ DrainedTo(<<"after", 0>>)
    BY NotAwaiting, SMTT(40) DEF Terminator, Live, FramedInv, Framed
  <1>2. CASE Exit("invalid_chunked_body")
    BY <1>2, FailureKeepsFramed
  <1>3. CASE LineOf(buffer) = <<"crlf">> /\ TakeLine("size_line")
    <2>1. /\ DrainedTo(AfterUnit(<<"after", 0>>, "crlf"))'
          /\ pc' = "size_line" /\ UNCHANGED <<result, awaiting>>
      BY <1>1, <1>3, OneLineKeepsFramed
    <2>2. DrainedTo(<<"size", 0>>)'
      BY <2>1, UnitSteps
    <2> QED
      BY <1>1, <2>1, <2>2 DEF FramedInv, Framed, Outcome, Live
  <1> QED
    BY <1>2, <1>3 DEF Terminator

\* A line of the trailers that is a crlf alone is the first unit there.
LEMMA CrlfAlone ==
  ASSUME NEW b \in Seq(Units), HasLine(b), LineEnd(b) = 1, b[1] = "crlf"
  PROVE  LineOf(b) = <<"crlf">>
  <1> DEFINE l == LineOf(b)
  <1>1. l \in Seq(Units) /\ Len(l) = 1 /\ \A i \in 1..LineEnd(b) : l[i] = b[i]
    BY FirstLine
  <1>2. l[1] = "crlf"
    BY <1>1
  <1> HIDE DEF l
  <1>3. l = <<"crlf">>
    BY <1>1, <1>2
  <1> QED
    BY <1>3 DEF l

\* The trailers end with an empty line, and the body with them.
LEMMA TrailerKeepsFramed ==
  ASSUME TypeOK, Reliable, FramedInv, Trailer
  PROVE  FramedInv'
  <1> DEFINE b == buffer
             y == reply.body
             l == LineEnd(b)
             u == b[l]
  <1>1. /\ Live /\ pc = "trailer" /\ ~awaiting /\ result = "none" /\ HasLine(b)
        /\ DrainedTo(<<"trailer", 0>>) \/ (buffer = <<"crlf">> /\ wire = <<>>)
    BY NotAwaiting DEF Trailer, Live, FramedInv, Framed
  <1>2. /\ buffer' = AfterLine(b)
        /\ pc' = (IF LineOf(b) = <<"crlf">> THEN "step" ELSE "trailer")
        /\ UNCHANGED <<result, awaiting, wire, peer, reply, response>>
    BY DEF Trailer, TakeLine, GoTo, socketVars, taskVars
  <1>3. /\ b \in Seq(Units) /\ y \in Seq(Units) /\ wire \in Seq(Units)
        /\ Len(b) \in Nat /\ Len(y) \in Nat /\ Len(wire) \in Nat
    BY ReplyType, SMTT(40)
  <1>4. /\ l \in 1..Len(b) /\ u \in Lines
        /\ \A i \in 1..Len(b) : b[i] \in Lines => l <= i
        /\ u \notin {"end", "blank"} => AfterLine(b) = Rest(b, l)
        /\ u \in {"end", "blank"} => AfterLine(b) = <<"crlf">> \o Rest(b, l)
    BY <1>1, <1>3, FirstLine
  <1>5. CASE buffer = <<"crlf">> /\ wire = <<>>
    <2>1. Len(b) = 1 /\ b[1] = "crlf"
      BY <1>5
    <2>2. l = 1
      BY <1>4, <2>1
    <2>3. LineOf(b) = <<"crlf">>
      BY <1>1, <1>3, <2>1, <2>2, CrlfAlone
    <2>4. buffer' = Rest(b, 1)
      BY <1>2, <1>4, <2>1, <2>2
    <2>5. buffer' = <<>>
      <3>1. 1 \in 0..Len(b) /\ Len(b) - 1 = 0
        BY <2>1
      <3>2. Rest(b, 1) \in Seq(Units) /\ Len(Rest(b, 1)) = Len(b) - 1
        BY <1>3, <3>1, RestUnits, ZenonT(40)
      <3> QED
        BY <2>4, <3>1, <3>2, EmptySeq
    <2>6. Quiet'
      BY <1>2, <1>5, <2>5 DEF Quiet
    <2> QED
      BY <1>1, <1>2, <2>3, <2>6, QuietKeepsFramed
  <1>6. CASE DrainedTo(<<"trailer", 0>>)
    <2>1. /\ Draining /\ BodyFraming(reply) = "chunked" /\ Truthful(reply)
          /\ reply.status = 407 /\ ~ConnectionClose(reply)
      BY <1>6, ZenonT(40) DEF DrainedTo, Draining, Answered, Reliable
    <2>2. \A i \in 0..Len(y) : ChunkPlaces(y)[i] = <<"over", 0>> => i = Len(y)
      BY <2>1, SMTT(40) DEF Truthful, BodyFraming
    <2>3. PICK c \in 0..Len(y) :
             Part(b, wire, peer, y, c) /\ ChunkPlaces(y)[c] = <<"trailer", 0>>
      BY <1>6 DEF DrainedTo, BodyFrom
    <2>4. \A i \in 1..(l - 1) : b[i] = "dat"
      <3> SUFFICES ASSUME NEW i \in 1..(l - 1) PROVE b[i] = "dat"
        OBVIOUS
      <3>1. i \in 1..Len(b) /\ ~(l <= i)
        BY <1>3, <1>4, SMTT(40)
      <3>2. b[i] \in Units /\ b[i] \notin Lines
        BY <1>3, <1>4, <3>1, ElementOfSeq, SMTT(40)
      <3> QED
        BY <3>2 DEF Lines
    <2>5. LineOf(b) = <<"crlf">> <=> l = 1 /\ u = "crlf"
      BY <1>1, <1>3, CrlfAlone, LineOfOne, SMTT(40)
    <2> HIDE DEF b, y, l, u
    <2>6. /\ c \in Nat /\ l \in Nat /\ 0 < l /\ l \in 0..Len(b)
      BY <1>3, <1>4
    <2>7. /\ Part(Rest(b, l), wire, peer, y, c + l)
          /\ c + l <= Len(y) /\ Rest(b, l) \in Seq(Units)
      BY <1>3, <2>3, <2>6, PartDrop, ZenonT(40)
    <2>8. y[c + l] = u /\ \A i \in 1..(l - 1) : y[c + i] = "dat"
      <3>1. \A i \in 1..Len(b) : b[i] = y[c + i]
        BY <2>3 DEF Part
      <3>2. \A i \in 1..(l - 1) : i \in 1..Len(b)
        BY <1>3, <1>4
      <3>3. y[c + l] = b[l]
        BY <1>4, <3>1
      <3> QED
        BY <2>4, <3>1, <3>2, <3>3, SMTT(40) DEF u
    <2>9. ChunkPlaces(y)[c + l - 1] = <<"trailer", IF l = 1 THEN 0 ELSE 1>>
      BY <1>3, <2>3, <2>6, <2>7, <2>8, TrailerGoesOn, ZenonT(40)
    <2>10. ChunkPlaces(y)[c + l] = AfterUnit(<<"trailer", IF l = 1 THEN 0 ELSE 1>>, u)
      <3> DEFINE d == c + l - 1
      <3>1. d \in Nat /\ d < Len(y) /\ d + 1 = c + l
        BY <1>3, <2>6, <2>7, SMTT(40)
      <3> HIDE DEF d
      <3>2. ChunkPlaces(y)[d + 1] = AfterUnit(ChunkPlaces(y)[d], y[d + 1])
        BY <1>3, <3>1, PlaceAfter
      <3> QED
        BY <2>8, <2>9, <3>1, <3>2, SMTT(40) DEF d
    <2>11. c + l \in 0..Len(y)
      BY <1>3, <2>6, <2>7, SMTT(40)
    <2>12. CASE u \in {"end", "blank"}
      <3>1. ChunkPlaces(y)[c + l] = <<"over", 0>>
        BY <2>10, <2>12, UnitSteps
      <3>2. c + l = Len(y)
        BY <2>2, <2>11, <3>1, SMTT(40)
      <3>3. Rest(b, l) = <<>> /\ wire = <<>>
        BY <1>3, <2>7, <3>2, PartEnd, SMTT(40)
      <3>4. AfterLine(b) = <<"crlf">> \o <<>>
        BY <1>4, <2>12, <3>3
      <3>5. buffer' = <<"crlf">>
        BY <1>2, <3>4
      <3>6. pc' = "trailer"
        BY <1>2, <2>5, <2>12
      <3> QED
        BY <1>1, <1>2, <3>3, <3>5, <3>6, ZenonT(40) DEF FramedInv, Framed, Outcome, Live
    <2>13. CASE l = 1 /\ u = "crlf"
      <3>1. ChunkPlaces(y)[c + l] = <<"over", 0>>
        BY <2>10, <2>13, UnitSteps
      <3>2. c + l = Len(y)
        BY <2>2, <2>11, <3>1
      <3>3. Rest(b, l) = <<>> /\ wire = <<>>
        BY <1>3, <2>7, <3>2, PartEnd
      <3>4. pc' = "step" /\ buffer' = <<>>
        BY <1>2, <1>4, <2>5, <2>13, <3>3
      <3>5. Quiet'
        BY <1>2, <3>3, <3>4, SMTT(40) DEF Quiet
      <3> QED
        BY <1>1, <1>2, <3>4, <3>5, QuietKeepsFramed, SMTT(40)
    <2>14. CASE u \notin {"end", "blank"} /\ ~(l = 1 /\ u = "crlf")
      <3>1. u # "dat"
        BY <1>4, SMTT(40) DEF Lines
      <3>2. ChunkPlaces(y)[c + l] = <<"trailer", 0>>
        BY <2>10, <2>14, <3>1, UnitSteps, SMTT(40)
      <3>3. pc' = "trailer" /\ buffer' = Rest(b, l)
        BY <1>2, <1>4, <2>5, <2>14, SMTT(40)
      <3>4. Part(buffer', wire', peer', y, c + l)
        BY <1>2, <2>7, <3>3, SMTT(40)
      <3>5. DrainedTo(<<"trailer", 0>>)'
        <4> DEFINE d == c + l
                   place == <<"trailer", 0>>
        <4>1. /\ d \in 0..Len(reply.body) /\ ChunkPlaces(reply.body)[d] = place
              /\ Part(buffer', wire', peer', reply.body, d)
          BY <2>11, <3>2, <3>4, ZenonT(40) DEF y
        <4> HIDE DEF d, place
        <4>2. DrainedTo(place)'
          BY <1>2, <2>1, <4>1, DrainedAfter, SMTT(40)
        <4> QED
          BY <4>2, ZenonT(40) DEF place
      <3> QED
        BY <1>1, <1>2, <3>3, <3>5 DEF FramedInv, Framed, Outcome, Live
    <2> QED
      BY <2>12, <2>13, <2>14, SMTT(40)
  <1> QED
    BY <1>1, <1>5, <1>6, SMTT(40)

\* The upstream answers on a socket with nothing left on it.
LEMMA RepliesKeepsFramed ==
  ASSUME TypeOK, FramedInv, UpstreamReplies
  PROVE  FramedInv'
  <1>1. awaiting /\ ~awaiting' /\ UNCHANGED <<pc, result, buffer, peer>>
    BY DEF UpstreamReplies, UpstreamUnchanged
  <1>2. PICK r \in Responses : reply' = r /\ wire' = wire \o Encode(r)
    BY DEF UpstreamReplies
  <1>3. CASE pc = "read_head"
    <2>1. Quiet /\ result = "none" /\ Len(buffer) <= MaxHeaderBytes
      BY <1>1, <1>3 DEF FramedInv, Framed, Outcome, Live
    <2>2. Encode(r) \in Seq(Units)
      <3>1. r \in Response
        BY ExchangeConstants
      <3>2. r.head \in Seq(Units) /\ r.body \in Seq(Units)
        BY <3>1 DEF Response
      <3> QED
        BY <3>2, UnitsCat DEF Encode
    <2>3. wire' = Encode(r) /\ buffer' = <<>>
      BY <1>1, <1>2, <2>1, <2>2, ConcatEmptySeq DEF Quiet
    <2>4. Part(<<>>, Encode(r), peer, Encode(r), 0)
      BY <2>2, PartNew
    <2>5. Whole'
      BY <1>1, <1>2, <2>3, <2>4, SMTT(40) DEF Whole
    <2> QED
      BY <1>1, <1>2, <1>3, <2>1, <2>5 DEF FramedInv, Framed, Outcome, Live
  <1>4. CASE pc # "read_head"
    <2>1. ~Live /\ result \notin {"ok", "header_too_large"}
      BY <1>1, <1>4 DEF FramedInv, Outcome
    <2> QED
      BY <1>1, <2>1 DEF FramedInv, Framed, Outcome, Live
  <1> QED
    BY <1>3, <1>4

\* The upstream closes, or the connection fails: what has been received is
\* still what it was, and only its end may be missing.
LEMMA ClosesKeepsFramed ==
  ASSUME TypeOK, FramedInv, UpstreamCloses
  PROVE  FramedInv'
  <1>1. /\ UNCHANGED <<pc, result, buffer, awaiting, reply, response, remaining, scheme, must_drain>>
        /\ peer = "open"
        /\ \/ peer' = "fin" /\ wire' = wire
           \/ peer' = "rst" /\ wire' = <<>>
    BY DEF UpstreamCloses, UpstreamUnchanged, taskVars
  <1>2. /\ buffer \in Seq(Units) /\ wire \in Seq(Units) /\ Len(reply.body) \in Nat
        /\ reply.body \in Seq(Units) /\ Encode(reply) \in Seq(Units)
    BY ReplyType
  <1>3. Quiet => Quiet'
    BY <1>1, SMTT(40) DEF Quiet
  <1>4. ASSUME NEW s \in Seq(Units), NEW c \in Nat, Part(buffer, wire, peer, s, c)
        PROVE  Part(buffer', wire', peer', s, c)
    <2>1. Part(buffer, wire, "fin", s, c) /\ Part(buffer, <<>>, "rst", s, c)
      BY <1>1, <1>2, <1>4, PartCloses, ZenonT(40)
    <2> QED
      BY <1>1, <2>1, ZenonT(40)
  <1>5. Whole => Whole'
    BY <1>1, <1>2, <1>4, SMTT(40) DEF Whole
  <1>6. \A c \in Nat : BodyFrom(c) => Part(buffer', wire', peer', reply'.body, c)
    BY <1>1, <1>2, <1>4, SMTT(40) DEF BodyFrom
  <1>7. BodyFrom(0) => BodyFrom(0)'
    BY <1>6 DEF BodyFrom
  <1>8. Draining => Draining'
    BY <1>1, SMTT(40) DEF Draining, Answered
  <1>9. ASSUME NEW place, DrainedTo(place)
        PROVE  DrainedTo(place)'
    <2>1. PICK c \in 0..Len(reply.body) :
             BodyFrom(c) /\ ChunkPlaces(reply.body)[c] = place
      BY <1>9, SMTT(40) DEF DrainedTo
    <2>2. Part(buffer', wire', peer', reply.body, c)
      <3>1. c \in Nat
        BY <1>2
      <3>2. Part(buffer', wire', peer', reply'.body, c)
        BY <1>6, <2>1, <3>1, ZenonT(40)
      <3> QED
        BY <1>1, <3>2, ZenonT(40)
    <2> QED
      BY <1>1, <1>9, <2>1, <2>2, DrainedAfter DEF DrainedTo
  <1>10. Discarding => Discarding'
    <2> SUFFICES ASSUME Discarding PROVE Discarding'
      OBVIOUS
    <2>1. remaining' > 0 /\ buffer' = <<>>
      BY <1>1 DEF Discarding
    <2>2. CASE DrainedTo(<<"chunk", remaining>>)
      <3>1. PICK c \in 0..Len(reply.body) :
               BodyFrom(c) /\ ChunkPlaces(reply.body)[c] = <<"chunk", remaining>>
        BY <2>2, SMTT(40) DEF DrainedTo
      <3>2. Part(buffer', wire', peer', reply'.body, c)
        <4>1. c \in Nat
          BY <1>2
        <4> QED
          BY <1>6, <3>1, <4>1, ZenonT(40)
      <3>3. \E d \in 0..Len(reply'.body) :
               /\ Part(buffer', wire', peer', reply'.body, d)
               /\ ChunkPlaces(reply'.body)[d] = <<"chunk", remaining'>>
        BY <1>1, <3>1, <3>2, SMTT(40)
      <3>4. Draining' /\ (BodyFraming(reply) = "chunked")'
        BY <1>1, <1>8, <2>2 DEF DrainedTo
      <3> QED
        BY <2>1, <3>3, <3>4, ZenonT(40) DEF Discarding, DrainedTo, BodyFrom
    <2>3. CASE /\ Draining /\ BodyFraming(reply) = "length"
               /\ \E c \in 0..Len(reply.body) :
                     BodyFrom(c) /\ c + remaining = Len(reply.body)
      <3>1. PICK c \in 0..Len(reply.body) : BodyFrom(c) /\ c + remaining = Len(reply.body)
        BY <2>3
      <3>2. Part(buffer', wire', peer', reply'.body, c)
        <4>1. c \in Nat
          BY <1>2
        <4> QED
          BY <1>6, <3>1, <4>1, ZenonT(40)
      <3>3. \E d \in 0..Len(reply'.body) :
               Part(buffer', wire', peer', reply'.body, d) /\ d + remaining' = Len(reply'.body)
        BY <1>1, <3>1, <3>2
      <3>4. Draining' /\ (BodyFraming(reply) = "length")'
        BY <1>1, <1>8, <2>3
      <3> QED
        BY <2>1, <3>3, <3>4 DEF Discarding, BodyFrom
    <2> QED
      BY <2>2, <2>3 DEF Discarding
  <1>11. Answered => Answered'
    BY <1>1, SMTT(40) DEF Answered
  <1>12. Framed'
    <2>1. (pc = "read_head" =>
             /\ Len(buffer) <= MaxHeaderBytes
             /\ awaiting => Quiet
             /\ ~awaiting => reply \in Responses /\ Whole)'
      BY <1>1, <1>3, <1>5, SMTT(40) DEF FramedInv, Framed
    <2>2. (pc \in {"first", "next"} =>
             Answered /\ BodyFrom(0) /\ Len(response.head) <= MaxHeaderBytes)'
      BY <1>1, <1>7, <1>11, SMTT(40) DEF FramedInv, Framed
    <2>3. (pc = "round" =>
             /\ must_drain => Answered /\ BodyFrom(0) /\ reply.status = 407
             /\ ~must_drain => Quiet)'
      BY <1>1, <1>3, <1>7, <1>11, SMTT(40) DEF FramedInv, Framed
    <2>4. /\ (pc \in {"step", "send"} => Quiet)'
          /\ (pc = "discard" => Discarding)'
          /\ (pc = "connect" /\ scheme # "none" => ~must_drain)'
      BY <1>1, <1>3, <1>10, SMTT(40) DEF FramedInv, Framed
    <2>5. /\ (pc = "size_line" => DrainedTo(<<"size", 0>>))'
          /\ (pc = "terminator" => DrainedTo(<<"after", 0>>))'
      BY <1>1, <1>9 DEF FramedInv, Framed
    <2>6. (pc = "trailer" => \/ DrainedTo(<<"trailer", 0>>)
                             \/ buffer = <<"crlf">> /\ wire = <<>>)'
      BY <1>1, <1>9 DEF FramedInv, Framed
    <2> QED
      BY <2>1, <2>2, <2>3, <2>4, <2>5, <2>6 DEF Framed
  <1>13. Outcome'
    BY <1>1, <1>7, SMTT(40) DEF FramedInv, Outcome, Live
  <1> QED
    BY <1>12, <1>13 DEF FramedInv

\* Nothing changes that the invariant speaks of but the control state at the end.
LEMMA UnwindKeepsFramed ==
  ASSUME FramedInv, Unwind
  PROVE  FramedInv'
  <1>1. /\ pc = "unwind" /\ pc' = "done" /\ UNCHANGED <<result, socketVars, buffer>>
    BY DEF Unwind
  <1>2. UNCHANGED <<awaiting, reply>>
    BY <1>1 DEF socketVars
  <1>3. BodyFrom(0) => BodyFrom(0)'
    BY <1>1, SameSocketSameBody
  <1> QED
    BY <1>1, <1>2, <1>3 DEF FramedInv, Framed, Outcome, Live

\* Every step of the exchange preserves the invariant.
LEMMA NextKeepsFramed ==
  ASSUME TypeOK, Reliable, FramedInv, [Next]_vars
  PROVE  FramedInv'
  <1>1. CASE Connect
    BY <1>1, ConnectKeepsFramed
  <1>2. CASE ConnectFails \/ SendFails \/ Cancelled
    BY <1>2, FailureKeepsFramed DEF ConnectFails, SendFails, Cancelled
  <1>3. CASE Send
    BY <1>3, SendKeepsFramed
  <1>4. CASE FillHead
    BY <1>4, FillHeadKeepsFramed
  <1>5. CASE TakeHead
    BY <1>5, TakeHeadKeepsFramed
  <1>6. CASE First
    BY <1>6, FirstKeepsFramed
  <1>7. CASE Following
    BY <1>7, FollowingKeepsFramed
  <1>8. CASE Round
    BY <1>8, RoundKeepsFramed
  <1>9. CASE Discard
    BY <1>9, DiscardKeepsFramed
  <1>10. CASE Step
    BY <1>10, StepKeepsFramed
  <1>11. CASE Unwind
    BY <1>11, UnwindKeepsFramed, SMTT(40)
  <1>12. CASE UpstreamReplies
    BY <1>12, RepliesKeepsFramed
  <1>13. CASE UpstreamCloses
    BY <1>13, ClosesKeepsFramed
  <1>14. CASE DrainChunked
    <2>1. CASE FillLine("size_line", LineLimit)
      BY <2>1, FillLineKeepsFramed
    <2>2. CASE FillLine("terminator", 1)
      BY <2>2, FillLineKeepsFramed
    <2>3. CASE FillLine("trailer", LineLimit)
      BY <2>3, FillLineKeepsFramed
    <2>4. CASE SizeLine
      BY <2>4, SizeLineKeepsFramed
    <2>5. CASE Terminator
      BY <2>5, TerminatorKeepsFramed
    <2>6. CASE Trailer
      BY <2>6, TrailerKeepsFramed
    <2> QED
      BY <1>14, <2>1, <2>2, <2>3, <2>4, <2>5, <2>6 DEF DrainChunked
  <1>15. CASE UNCHANGED vars
    <2>1. UNCHANGED <<pc, result, wire, peer, awaiting, reply, buffer, response,
                      scheme, must_drain, remaining>>
      BY <1>15 DEF vars, socketVars, taskVars
    <2>2. Draining' = Draining /\ \A c : BodyFrom(c)' = BodyFrom(c)
      BY <2>1 DEF Draining, Answered, BodyFrom
    <2>3. \A place : DrainedTo(place)' = DrainedTo(place)
      BY <2>1, <2>2 DEF DrainedTo
    <2>4. Discarding' = Discarding
      BY <2>1, <2>2, <2>3 DEF Discarding
    <2>5. /\ Live' = Live /\ Quiet' = Quiet /\ Whole' = Whole /\ Answered' = Answered
      BY <2>1 DEF Live, Quiet, Whole, Answered
    <2>6. Framed' = Framed
      BY <2>1, <2>2, <2>3, <2>4, <2>5 DEF Framed
    <2>7. Outcome' = Outcome
      BY <2>1, <2>2, <2>5 DEF Outcome
    <2> QED
      BY <2>6, <2>7 DEF FramedInv
  <1> QED
    BY <1>1, <1>2, <1>3, <1>4, <1>5, <1>6, <1>7, <1>8, <1>9, <1>10, <1>11, <1>12,
       <1>13, <1>14, <1>15 DEF Next, Task, Done

\* The control always stands where the response is, when responses are as long
\* as their heads say.
LEMMA FramedInvariance == Reliable => (Spec => []FramedInv)
  <1> SUFFICES ASSUME Reliable PROVE Spec => []FramedInv
    OBVIOUS
  <1>1. Init => FramedInv
    BY DEF Init, FramedInv, Framed, Outcome, Live
  <1>2. TypeOK /\ FramedInv /\ [Next]_vars => FramedInv'
    BY NextKeepsFramed
  <1> QED
    BY <1>1, <1>2, TypeCorrect, PTL DEF Spec

\* No request goes out while anything of an earlier response is unread:
\* drain_response_body takes the whole body of a challenge, whichever of its
\* framings it has and however the reads cut it.
THEOREM DrainTakesTheWholeBody == Reliable => (Spec => []NothingUnreadAtSend)
  <1> SUFFICES ASSUME Reliable PROVE Spec => []NothingUnreadAtSend
    OBVIOUS
  <1>1. FramedInv => NothingUnreadAtSend
    <2>1. <<>> \o <<>> = <<>>
      OBVIOUS
    <2> QED
      BY <2>1 DEF FramedInv, Framed, Quiet, NothingUnreadAtSend
  <1> QED
    BY <1>1, FramedInvariance, PTL

\* What establish_upstream_tunnel returns in its BufferedStream, and what is
\* still on the socket, is what the upstream sent after its head.
THEOREM TheTunnelStartsAfterTheHead == Reliable => (Spec => []PrefetchIsTunnelData)
  <1> SUFFICES ASSUME Reliable PROVE Spec => []PrefetchIsTunnelData
    OBVIOUS
  <1>1. TypeOK /\ FramedInv => PrefetchIsTunnelData
    BY ReplyType, PartWhole, ZenonT(40) DEF FramedInv, Outcome, BodyFrom, PrefetchIsTunnelData
  <1> QED
    BY <1>1, FramedInvariance, TypeCorrect, PTL

\* read_response_head refuses a head if and only if it is over the limit.
THEOREM TheHeaderLimitIsExact == Reliable => (Spec => []HeaderLimitExact)
  <1> SUFFICES ASSUME Reliable PROVE Spec => []HeaderLimitExact
    OBVIOUS
  <1>1. FramedInv => HeaderLimitExact
    BY DEF FramedInv, Framed, Outcome, HeaderLimitExact
  <1> QED
    BY <1>1, FramedInvariance, PTL

=============================================================================
