------------------------- MODULE AuthExchangeProofs -------------------------
(***************************************************************************)
(* Proofs about the exchange with the upstream proxy, for any set of       *)
(* responses, any limits and any authentication mode, whatever the         *)
(* upstream sends: the inductive invariant IInv, how large the buffer is   *)
(* (BufferBounded) and what is left of a read (LeftoverInv).  The last two *)
(* sections, about the pieces of a response, are for AuthFramingProofs.    *)
(***************************************************************************)
EXTENDS AuthExchange, WellFoundedInduction, TLAPS

\* There is much for the provers to look through here: they get more time.
USE SMTT(40), ZenonT(40)

(***************************************************************************)
(* Sequences, least elements and recursion                                 *)
(***************************************************************************)

\* The elements of a sequence.
LEMMA ElementOfSeq ==
  ASSUME NEW S, NEW s \in Seq(S), NEW n \in 1..Len(s)
  PROVE  s[n] \in S
  OBVIOUS

\* The empty sequence, and the others.
LEMMA EmptySeq ==
  ASSUME NEW S
  PROVE  /\ <<>> \in Seq(S) /\ Len(<<>>) = 0
         /\ \A s \in Seq(S) : s # <<>> => Len(s) \in Nat \ {0}
  OBVIOUS

\* A sequence is a function.
LEMMA LenProperties ==
  ASSUME NEW S, NEW s \in Seq(S)
  PROVE  Len(s) \in Nat /\ s \in [1..Len(s) -> S] /\ DOMAIN s = 1..Len(s)
  OBVIOUS

\* Two sequences with the same elements are the same.
LEMMA SeqEqual ==
  ASSUME NEW S, NEW s \in Seq(S), NEW t \in Seq(S), Len(s) = Len(t),
         \A i \in 1..Len(s) : s[i] = t[i]
  PROVE  s = t
  OBVIOUS

\* Two sequences, one after the other.
LEMMA ConcatProperties ==
  ASSUME NEW S, NEW s \in Seq(S), NEW t \in Seq(S)
  PROVE  /\ s \o t \in Seq(S) /\ Len(s \o t) = Len(s) + Len(t)
         /\ \A i \in 1..(Len(s) + Len(t)) :
               (s \o t)[i] = IF i <= Len(s) THEN s[i] ELSE t[i - Len(s)]
  OBVIOUS

\* The empty sequence adds nothing.
LEMMA ConcatEmptySeq ==
  ASSUME NEW S, NEW s \in Seq(S)
  PROVE  s \o <<>> = s /\ <<>> \o s = s
  OBVIOUS

\* A part of a sequence.
LEMMA SubSeqProperties ==
  ASSUME NEW S, NEW s, NEW m \in Int, NEW n \in Int, \A i \in m..n : s[i] \in S
  PROVE  /\ SubSeq(s, m, n) \in Seq(S)
         /\ Len(SubSeq(s, m, n)) = IF m <= n THEN n - m + 1 ELSE 0
         /\ \A i \in 1..(n - m + 1) : SubSeq(s, m, n)[i] = s[m + i - 1]
  OBVIOUS

\* A set of natural numbers has a least element.
LEMMA Least ==
  ASSUME NEW M, M \subseteq Nat, M # {}
  PROVE  \E x \in M : \A y \in M : x <= y
  <1> DEFINE R == OpToRel(<, Nat)
  <1>1. IsWellFoundedOn(R, Nat)
    BY NatLessThanWellFounded
  <1>2. \A x, y \in Nat : x < y => <<x, y>> \in R
    BY DEF OpToRel
  <1> HIDE DEF R
  <1>3. PICK x \in M : \A y \in M : ~(<<y, x>> \in R)
    BY <1>1, WFMin
  <1>4. \A y \in M : x <= y
    <2> SUFFICES ASSUME NEW y \in M PROVE x <= y
      OBVIOUS
    <2>1. x \in Nat /\ y \in Nat
      OBVIOUS
    <2>2. ~(y < x)
      BY <1>2, <1>3, <2>1
    <2> QED
      BY <2>1, <2>2
  <1> QED
    BY <1>4

\* The values that a recursion steps through.
Recursion(f, S, base, step, n) ==
    /\ f \in [0..n -> S]
    /\ f[0] = base
    /\ \A i \in 1..n : f[i] = step[i][f[i - 1]]

\* They exist.
LEMMA RecursionExists ==
  ASSUME NEW S, NEW base \in S, NEW n \in Nat, NEW step \in [1..n -> [S -> S]]
  PROVE  \E f : Recursion(f, S, base, step, n)
  <1> DEFINE M == {k \in 0..n : ~\E f : Recursion(f, S, base, step, k)}
  <1> SUFFICES ASSUME M # {} PROVE FALSE
    <2>1. n \in 0..n
      OBVIOUS
    <2> QED
      BY <2>1
  <1>1. M \subseteq Nat
    OBVIOUS
  <1>2. PICK k \in M : \A y \in M : k <= y
    BY <1>1, Least
  <1>3. k \in 0..n /\ ~\E f : Recursion(f, S, base, step, k)
    OBVIOUS
  <1>4. k # 0
    <2> SUFFICES ASSUME k = 0 PROVE FALSE
      OBVIOUS
    <2>1. Recursion([i \in 0..0 |-> base], S, base, step, 0)
      BY DEF Recursion
    <2> QED
      BY <1>3, <2>1
  <1>5. k - 1 \in 0..n /\ ~(k <= k - 1) /\ k \in 1..n
    BY <1>3, <1>4
  <1>6. \E g : Recursion(g, S, base, step, k - 1)
    BY <1>2, <1>5
  <1> HIDE DEF M
  <1>7. PICK g : Recursion(g, S, base, step, k - 1)
    BY <1>6
  <1> DEFINE f == [i \in 0..k |-> IF i = k THEN step[k][g[k - 1]] ELSE g[i]]
  <1>8. g \in [0..(k - 1) -> S] /\ g[0] = base
    BY <1>7 DEF Recursion
  <1>9. step[k] \in [S -> S] /\ g[k - 1] \in S
    BY <1>5, <1>8
  <1>10. f \in [0..k -> S]
    BY <1>5, <1>8, <1>9
  <1>11. f[0] = base
    BY <1>5, <1>8
  <1>12. \A i \in 1..k : f[i] = step[i][f[i - 1]]
    BY <1>5, <1>7 DEF Recursion
  <1>13. Recursion(f, S, base, step, k)
    BY <1>10, <1>11, <1>12 DEF Recursion
  <1> QED
    BY <1>3, <1>13

(***************************************************************************)
(* Facts about the operators                                               *)
(***************************************************************************)

\* A non-empty set of naturals has a least element.
LEMMA MinNat ==
  ASSUME NEW S \in SUBSET Nat, S # {}
  PROVE  Min(S) \in S /\ \A y \in S : Min(S) <= y
  <1>1. PICK x \in S : \A y \in S : x <= y
    BY Least, ZenonT(40)
  <1> QED
    BY <1>1, ZenonT(40) DEF Min

\* The smaller of two naturals.
LEMMA MinPair ==
  ASSUME NEW a \in Nat, NEW b \in Nat
  PROVE  Min({a, b}) \in Nat /\ Min({a, b}) <= a /\ Min({a, b}) <= b
  BY MinNat, {a, b} \in SUBSET Nat, {a, b} # {}

\* The larger of two naturals.
LEMMA MaxPair ==
  ASSUME NEW a \in Nat, NEW b \in Nat
  PROVE  Max({a, b}) \in Nat /\ a <= Max({a, b}) /\ b <= Max({a, b})
  <1>1. \E x \in {a, b} : \A y \in {a, b} : x >= y
    BY a >= b \/ b >= a
  <1> QED
    BY <1>1 DEF Max

\* What is left of a sequence after its first n elements.
LEMMA RestType ==
  ASSUME NEW S, NEW s \in Seq(S), NEW n \in Nat
  PROVE  /\ Rest(s, n) \in Seq(S)
         /\ Len(Rest(s, n)) = IF n <= Len(s) THEN Len(s) - n ELSE 0
  <1>1. Len(s) \in Nat
    BY LenProperties
  <1>2. \A i \in n + 1 .. Len(s) : s[i] \in S
    BY <1>1, ElementOfSeq
  <1>3. /\ SubSeq(s, n + 1, Len(s)) \in Seq(S)
        /\ Len(SubSeq(s, n + 1, Len(s)))
              = IF n + 1 <= Len(s) THEN Len(s) - (n + 1) + 1 ELSE 0
    BY <1>1, <1>2, SubSeqProperties
  <1> QED
    BY <1>1, <1>3 DEF Rest

\* The first n elements of a sequence.
LEMMA FrontType ==
  ASSUME NEW S, NEW s \in Seq(S), NEW n \in 0..Len(s)
  PROVE  Front(s, n) \in Seq(S) /\ Len(Front(s, n)) = n
  <1>1. Len(s) \in Nat
    BY LenProperties
  <1>2. \A i \in 1..n : s[i] \in S
    BY <1>1, ElementOfSeq
  <1>3. /\ SubSeq(s, 1, n) \in Seq(S)
        /\ Len(SubSeq(s, 1, n)) = IF 1 <= n THEN n - 1 + 1 ELSE 0
    BY <1>1, <1>2, SubSeqProperties
  <1> QED
    BY <1>1, <1>3 DEF Front

\* find_header_end points into the buffer.
LEMMA HeaderEndType ==
  ASSUME NEW b \in Seq(Units), HasHeaderEnd(b)
  PROVE  FindHeaderEnd(b) \in 1..Len(b)
  <1>1. Len(b) \in Nat
    BY LenProperties
  <1>2. HeaderEnds(b) \subseteq 1..Len(b) /\ HeaderEnds(b) # {}
    BY DEF HasHeaderEnd, HeaderEnds
  <1>3. HeaderEnds(b) \in SUBSET Nat
    BY <1>1, <1>2
  <1> QED
    BY <1>2, <1>3, MinNat DEF FindHeaderEnd

\* Taking a head out of the buffer leaves a shorter buffer.
LEMMA AfterHeadType ==
  ASSUME NEW b \in Seq(Units), HasHeaderEnd(b)
  PROVE  AfterHead(b) \in Seq(Units) /\ Len(AfterHead(b)) < Len(b)
  <1>1. Len(b) \in Nat
    BY LenProperties
  <1>2. FindHeaderEnd(b) \in 1..Len(b)
    BY HeaderEndType
  <1> QED
    BY <1>1, <1>2, RestType DEF AfterHead

\* Taking a line out of the buffer leaves a buffer that is no longer.
LEMMA AfterLineType ==
  ASSUME NEW b \in Seq(Units), HasLine(b)
  PROVE  AfterLine(b) \in Seq(Units) /\ Len(AfterLine(b)) <= Len(b)
  <1> DEFINE ends == {i \in 1..Len(b) : b[i] \in Lines}
             first == IF b[LineEnd(b)] \in {"end", "blank"} THEN <<"crlf">> ELSE <<>>
             rest == Rest(b, LineEnd(b))
  <1>1. Len(b) \in Nat
    BY LenProperties
  <1>2. ends \in SUBSET Nat /\ ends # {}
    BY <1>1 DEF HasLine
  <1>3. LineEnd(b) \in ends
    BY <1>2, MinNat, ZenonT(40) DEF LineEnd
  <1>4. LineEnd(b) \in Nat /\ 1 <= LineEnd(b) /\ LineEnd(b) <= Len(b)
    BY <1>1, <1>3
  <1>5. rest \in Seq(Units) /\ Len(rest) = Len(b) - LineEnd(b)
    BY <1>4, RestType, ZenonT(40)
  <1>6. first \in Seq(Units) /\ Len(first) \in {0, 1}
    <2>1. <<"crlf">> \in Seq(Units) /\ Len(<<"crlf">>) = 1
      BY DEF Units
    <2>2. <<>> \in Seq(Units) /\ Len(<<>>) = 0
      OBVIOUS
    <2>3. CASE b[LineEnd(b)] \in {"end", "blank"}
      BY <2>1, <2>3
    <2>4. CASE b[LineEnd(b)] \notin {"end", "blank"}
      BY <2>2, <2>4
    <2> QED
      BY <2>3, <2>4
  <1>7. AfterLine(b) = first \o rest
    BY DEF AfterLine
  <1> HIDE DEF first, rest
  <1>8. first \o rest \in Seq(Units) /\ Len(first \o rest) = Len(first) + Len(rest)
    BY <1>5, <1>6, ConcatProperties, ZenonT(40)
  <1>9. \A m, n \in Nat, k \in {0, 1} : 1 <= n /\ n <= m => k + (m - n) <= m
    OBVIOUS
  <1>10. Len(first) + Len(rest) <= Len(b)
    BY <1>1, <1>4, <1>5, <1>6, <1>9, ZenonT(40)
  <1> QED
    BY <1>7, <1>8, <1>10

\* The initial value of the variables that hold a response is one, too.
LEMMA NoResponseType == NoResponse \in Response
  <1>1. <<>> \in Seq(Nat \union {NotANumber}) /\ <<>> \in Seq(Units)
    BY EmptySeq
  <1>2. <<>> \in Seq([scheme : Schemes, token : Tokens])
    BY EmptySeq
  <1>3. {} \in SUBSET {"close", "keep-alive"} /\ FALSE \in BOOLEAN
    OBVIOUS
  <1> QED
    BY <1>1, <1>2, <1>3 DEF NoResponse, Response

\* A challenge that is there has a token or lacks one.
LEMMA ChallengeType ==
  ASSUME NEW r \in Response, NEW s, HasChallenge(r, s)
  PROVE  FindChallenge(r, s) \in Tokens
  <1> DEFINE matches == {i \in 1..Len(r.challenges) : r.challenges[i].scheme = s}
  <1>1. r.challenges \in Seq([scheme : Schemes, token : Tokens])
    BY DEF Response
  <1>2. Len(r.challenges) \in Nat
    BY <1>1, LenProperties
  <1>3. matches \in SUBSET Nat /\ matches # {}
    BY <1>2 DEF HasChallenge
  <1>4. Min(matches) \in 1..Len(r.challenges)
    BY <1>3, MinNat, ZenonT(40)
  <1>5. r.challenges[Min(matches)] \in [scheme : Schemes, token : Tokens]
    BY <1>1, <1>4, ElementOfSeq, ZenonT(40)
  <1> QED
    BY <1>5 DEF FindChallenge

\* choose_scheme chooses a scheme that is offered, if any.
LEMMA ChooseSchemeType ==
  ASSUME NEW r, NEW mode
  PROVE  /\ ChooseScheme(r, mode) \in Schemes \union {"none"}
         /\ ChooseScheme(r, mode) # "none" => HasChallenge(r, ChooseScheme(r, mode))
  BY DEF ChooseScheme, Schemes

\* A body framed by a Content-Length has one that is a number.
LEMMA LengthType ==
  ASSUME NEW r \in Response, BodyFraming(r) = "length"
  PROVE  r.lengths[1] \in Nat
  <1>1. r.lengths \in Seq(Nat \union {NotANumber})
    BY DEF Response
  <1>2. r.lengths # <<>> /\ ~ContentLengthError(r)
    BY DEF BodyFraming
  <1>3. 1 \in 1..Len(r.lengths)
    BY <1>1, <1>2, EmptySeq
  <1>4. r.lengths[1] \in Nat \union {NotANumber}
    BY <1>1, <1>3, ElementOfSeq
  <1>5. r.lengths[1] # NotANumber
    BY <1>2, <1>3 DEF ContentLengthError, LengthsOf
  <1> QED
    BY <1>4, <1>5

(***************************************************************************)
(* The inductive invariant                                                 *)
(***************************************************************************)

\* The future has not begun to unwind.
Live == pc \notin {"unwind", "done"}

\* Inside the body of the `for' loop.
InRound == pc \in {"step", "discard", "size_line", "terminator", "trailer"}

\* Where the control is says what has been done: which socket the exchange is
\* on, whether a scheme was chosen, and that a round is left.
Control ==
    /\ pc = "connect" => /\ conn = (IF scheme = "none" THEN 0 ELSE 1)
                         /\ round = 0
                         /\ challenge.token = "absent"
    /\ pc # "connect" => conn <= (IF scheme = "none" THEN 1 ELSE 2)
    /\ Live /\ pc # "connect" => conn >= 1
    /\ pc = "first" => scheme = "none"
    /\ InRound \/ pc \in {"next", "round"} => scheme # "none"
    /\ InRound => round < MAX_AUTH_ROUNDS
    /\ scheme = "none" => round = 0 /\ ~created /\ challenge.token = "absent"
    /\ auth = "None" => scheme = "none"
    /\ Live /\ challenge.token # "absent" => challenge.conn = conn

\* The flags of the SspiContext and the handles that SSPI has given out agree.
Handles ==
    /\ credentials = (IF created THEN 1 ELSE 0)
    /\ contexts = (IF created /\ has_context THEN 1 ELSE 0)
    /\ Live /\ scheme # "none" => created
    /\ Live /\ finished /\ created => complete
    /\ pc = "done" => ~created

IInv == TypeOK /\ Control /\ Handles

\* The constants are positive naturals, each by itself.
LEMMA Limits ==
  /\ MaxHeaderBytes \in Nat \ {0} /\ ReadSize \in Nat \ {0}
  /\ LineReadSize \in Nat \ {0} /\ LineLimit \in Nat \ {0}
  /\ ChunkUnits \in Nat \ {0} /\ MAX_AUTH_ROUNDS \in Nat \ {0}
  BY ExchangeConstants

\* What the variables that hold a response can hold.
LEMMA ResponseType == TypeOK => response \in Response /\ reply \in Response
  BY ExchangeConstants, NoResponseType DEF TypeOK

\* The invariant holds when establish_upstream_tunnel is called.
LEMMA IInvInit == Init => IInv
  <1> SUFFICES ASSUME Init PROVE IInv
    OBVIOUS
  <1>1. TypeOK
    <2>1. /\ auth \in AuthModes
          /\ pc \in States /\ result \in {"none", "ok"} \union Errors
          /\ peer \in {"open", "fin", "rst"}
          /\ scheme \in Schemes \union {"none"}
          /\ reply \in Responses \union {NoResponse}
          /\ response \in Responses \union {NoResponse}
      BY ExchangeConstants DEF Init, States, Awaits
    <2>2. wire \in Seq(Units) /\ buffer \in Seq(Units)
      BY EmptySeq DEF Init
    <2>3. conn \in 0..2 /\ round \in 0..MAX_AUTH_ROUNDS /\ remaining \in Nat
      BY Limits DEF Init
    <2>4. challenge \in [token : Tokens, conn : 0..2]
      BY DEF Init, Tokens
    <2>5. awaiting \in BOOLEAN /\ must_drain \in BOOLEAN
      BY ZenonT(40) DEF Init
    <2>6. SspiTypeOK
      <3>1. credentials \in 0..1 /\ contexts \in 0..1
        BY DEF Init, SspiInit
      <3>2. /\ created \in BOOLEAN /\ has_context \in BOOLEAN
            /\ complete \in BOOLEAN /\ finished \in BOOLEAN
        BY ZenonT(40) DEF Init, SspiInit
      <3> QED
        BY <3>1, <3>2 DEF SspiTypeOK
    <2> QED
      BY <2>1, <2>2, <2>3, <2>4, <2>5, <2>6 DEF TypeOK
  <1>2. Control
    BY DEF Init, SspiInit, Control, InRound, Live
  <1>3. Handles
    BY DEF Init, SspiInit, Handles, Live
  <1> QED
    BY <1>1, <1>2, <1>3 DEF IInv

\* Leaving the exchange, with any result.
LEMMA ExitPreservesIInv ==
  ASSUME IInv, Live, NEW r \in {"ok"} \union Errors, Exit(r)
  PROVE  IInv'
  <1> USE DEF IInv, Exit, KeepData, socketVars, taskVars, sspiVars
  <1>1. TypeOK'
    BY DEF TypeOK, SspiTypeOK, States
  <1>2. Control'
    BY DEF Control, InRound, Live, TypeOK
  <1>3. Handles'
    BY DEF Handles, Live
  <1> QED
    BY <1>1, <1>2, <1>3

\* A step that reads or drops units, inside the loop: the buffer, the wire and
\* the count of what is left to discard are all that changes.
LEMMA DataStepPreservesIInv ==
  ASSUME IInv, NEW state \in States, GoTo(state),
         buffer' \in Seq(Units), wire' \in Seq(Units), remaining' \in Nat,
         UNCHANGED <<conn, peer, awaiting, reply, taskVars, sspiVars>>,
         \/ state = pc /\ Live
         \/ /\ InRound \/ (pc = "round" /\ round < MAX_AUTH_ROUNDS)
            /\ state \in {"step", "discard", "size_line", "terminator", "trailer"}
  PROVE  IInv'
  <1> USE DEF IInv, GoTo, taskVars, sspiVars
  <1>1. TypeOK'
    BY DEF TypeOK, SspiTypeOK
  <1>2. Control'
    BY DEF Control, InRound, Live, TypeOK
  <1>3. Handles'
    BY DEF Handles, Live, InRound
  <1> QED
    BY <1>1, <1>2, <1>3

(***************************************************************************)
(* Every step preserves it                                                 *)
(***************************************************************************)

\* Opening the first socket, or the second one.
LEMMA ConnectPreservesIInv ==
  ASSUME IInv, Connect
  PROVE  IInv'
  <1> USE DEF IInv, Connect, GoTo, taskVars, sspiVars
  <1>1. TypeOK'
    <2>1. conn' \in 0..2
      BY DEF Control, TypeOK
    <2>2. wire' \in Seq(Units) /\ buffer' \in Seq(Units)
      BY EmptySeq
    <2>3. awaiting' \in BOOLEAN
      BY ZenonT(40)
    <2> QED
      BY <2>1, <2>2, <2>3 DEF TypeOK, SspiTypeOK, States, Awaits
  <1>2. Control'
    BY DEF Control, InRound, Live, TypeOK
  <1>3. Handles'
    BY DEF Handles, Live
  <1> QED
    BY <1>1, <1>2, <1>3

\* Sending a request.
LEMMA SendPreservesIInv ==
  ASSUME IInv, Send
  PROVE  IInv'
  <1> USE DEF IInv, Send, GoTo, taskVars, sspiVars
  <1>1. TypeOK'
    <2>1. awaiting' \in BOOLEAN
      BY ZenonT(40)
    <2> QED
      BY <2>1 DEF TypeOK, SspiTypeOK, States, Awaits
  <1>2. Control'
    BY DEF Control, InRound, Live, TypeOK
  <1>3. Handles'
    BY DEF Handles, Live
  <1> QED
    BY <1>1, <1>2, <1>3

\* A read that fails ends the exchange.
LEMMA ReadFailsPreservesIInv ==
  ASSUME IInv, Live, ReadFails
  PROVE  IInv'
  BY ExitPreservesIInv DEF ReadFails, Errors

\* A read moves units from the wire to the buffer, at most as many as asked.
LEMMA ReadIntoBuffer ==
  ASSUME TypeOK, NEW wanted \in Nat, NEW n, ReadSome(wanted, n),
         buffer' = buffer \o Front(wire, n)
  PROVE  /\ buffer' \in Seq(Units) /\ wire' \in Seq(Units)
         /\ n \in Nat /\ n <= wanted
         /\ Len(buffer') = Len(buffer) + n
  <1>1. wire \in Seq(Units) /\ buffer \in Seq(Units) /\ Len(wire) \in Nat
    BY LenProperties DEF TypeOK
  <1>2. n \in 1..Min({wanted, Len(wire)}) /\ wire' = Rest(wire, n)
    BY DEF ReadSome
  <1>3. /\ Min({wanted, Len(wire)}) \in Nat
        /\ Min({wanted, Len(wire)}) <= wanted
        /\ Min({wanted, Len(wire)}) <= Len(wire)
    BY <1>1, MinPair, SMTT(40)
  <1>4. n \in Nat /\ n <= wanted /\ n \in 0..Len(wire)
    BY <1>1, <1>2, <1>3
  <1>5. Front(wire, n) \in Seq(Units) /\ Len(Front(wire, n)) = n
    BY <1>1, <1>4, FrontType
  <1>6. wire' \in Seq(Units)
    BY <1>1, <1>2, <1>4, RestType
  <1> QED
    BY <1>1, <1>4, <1>5, <1>6, ConcatProperties, ZenonT(40)

\* One turn of read_response_head.
LEMMA FillHeadPreservesIInv ==
  ASSUME IInv, FillHead
  PROVE  IInv'
  <1>1. TypeOK /\ Live
    BY DEF IInv, FillHead, Live
  <1>2. CASE HeadTooLarge
    BY <1>1, <1>2, ExitPreservesIInv DEF FillHead, Errors
  <1>3. CASE ~HeadTooLarge /\ ReadFails
    BY <1>1, <1>3, ReadFailsPreservesIInv
  <1>4. CASE /\ ~HeadTooLarge
             /\ \E n \in 1..ReadSize :
                   /\ ReadSome(Min({ReadSize, MaxHeaderBytes - Len(buffer)}), n)
                   /\ buffer' = buffer \o Front(wire, n)
                   /\ UNCHANGED <<pc, result, taskVars, remaining, sspiVars>>
    <2>1. PICK n \in 1..ReadSize :
                   /\ ReadSome(Min({ReadSize, MaxHeaderBytes - Len(buffer)}), n)
                   /\ buffer' = buffer \o Front(wire, n)
                   /\ UNCHANGED <<pc, result, taskVars, remaining, sspiVars>>
      BY <1>4
    <2>2. MaxHeaderBytes - Len(buffer) \in Nat
      BY <1>1, <1>4, Limits, LenProperties DEF HeadTooLarge, TypeOK
    <2>3. Min({ReadSize, MaxHeaderBytes - Len(buffer)}) \in Nat
      BY <2>2, Limits, MinPair
    <2>4. buffer' \in Seq(Units) /\ wire' \in Seq(Units)
      BY <1>1, <2>1, <2>3, ReadIntoBuffer
    <2> QED
      BY <1>1, <2>1, <2>4, DataStepPreservesIInv
      DEF ReadSome, GoTo, TypeOK
  <1> QED
    BY <1>2, <1>3, <1>4, ZenonT(40) DEF FillHead

\* Taking the head out of the buffer.
LEMMA TakeHeadPreservesIInv ==
  ASSUME IInv, TakeHead
  PROVE  IInv'
  <1> USE DEF IInv, TakeHead, socketVars, sspiVars
  <1>1. buffer' \in Seq(Units)
    BY AfterHeadType DEF TypeOK
  <1>2. TypeOK'
    BY <1>1 DEF TypeOK, SspiTypeOK, States, Errors
  <1>3. Control'
    BY DEF Control, InRound, Live, TypeOK
  <1>4. Handles'
    BY DEF Handles, Live
  <1> QED
    BY <1>2, <1>3, <1>4

\* The first 407 creates the context; no other step does.
LEMMA FirstChallengedPreservesIInv ==
  ASSUME IInv, pc = "first", FirstChallenged
  PROVE  IInv'
  <1> DEFINE chosen == ChooseScheme(response, auth)
             token == FindChallenge(response, chosen)
  <1>1. /\ SspiNew /\ AuthEnabled
        /\ scheme' = chosen /\ chosen # "none"
        /\ challenge' = [token |-> token, conn |-> conn]
        /\ must_drain' = ~ConnectionClose(response)
        /\ \/ pc' = "unwind" /\ result' \in {"invalid_token", "closed_during_auth"}
           \/ /\ pc' = "connect" /\ UNCHANGED result
              /\ ~ConnectionBound(token)
           \/ pc' = "round" /\ UNCHANGED result
        /\ UNCHANGED <<socketVars, buffer, auth, response, round, remaining>>
    BY DEF FirstChallenged, GoTo
  <1>2. chosen \in Schemes /\ HasChallenge(response, chosen)
    BY <1>1, ChooseSchemeType
  <1>3. token \in Tokens
    BY <1>2, ResponseType, ChallengeType DEF IInv
  <1>4. scheme = "none" /\ ~created /\ conn <= 1 /\ conn \in 0..2 /\ round = 0
    BY DEF IInv, Control, TypeOK
  <1> HIDE DEF chosen, token
  <1>5. SspiTypeOK'
    <2>1. credentials' \in 0..1 /\ contexts' \in 0..1
      BY <1>1, <1>4 DEF IInv, Handles, SspiNew, TypeOK, SspiTypeOK
    <2>2. /\ created' \in BOOLEAN /\ has_context' \in BOOLEAN
          /\ complete' \in BOOLEAN /\ finished' \in BOOLEAN
      BY <1>1, ZenonT(40) DEF SspiNew
    <2> QED
      BY <2>1, <2>2 DEF SspiTypeOK
  <1>6. TypeOK'
    <2>1. challenge' \in [token : Tokens, conn : 0..2]
      BY <1>1, <1>3, <1>4
    <2>2. must_drain' \in BOOLEAN
      BY <1>1, ZenonT(40) DEF ConnectionClose
    <2>3. pc' \in States /\ result' \in {"none", "ok"} \union Errors
      BY <1>1 DEF IInv, TypeOK, States, Awaits, Errors
    <2> QED
      BY <1>1, <1>2, <1>5, <2>1, <2>2, <2>3 DEF IInv, TypeOK, socketVars
  <1>7. Control'
    <2>1. scheme' # "none" /\ auth' # "None"
      BY <1>1 DEF AuthEnabled
    <2>2. /\ pc' \in {"unwind", "connect", "round"} /\ round' = 0 /\ conn' = conn
          /\ challenge'.conn = conn
      BY <1>1, <1>4 DEF socketVars
    <2>3. pc' = "connect" => challenge'.token = "absent"
      BY <1>1 DEF ConnectionBound
    <2>4. pc' = "connect" => conn = 1
      BY <1>1, <1>4 DEF IInv, Control, Live
    <2>5. conn >= 1
      BY DEF IInv, Control, Live
    <2> QED
      BY <1>4, <2>1, <2>2, <2>3, <2>4, <2>5 DEF Control, InRound, Live
  <1>8. Handles'
    <2>1. pc' # "done"
      BY <1>1
    <2> QED
      BY <1>1, <1>4, <2>1 DEF IInv, Handles, SspiNew, Live
  <1> QED
    BY <1>6, <1>7, <1>8 DEF IInv

\* Judging the first response.
LEMMA FirstPreservesIInv ==
  ASSUME IInv, First
  PROVE  IInv'
  <1>1. pc = "first" /\ Live
    BY DEF First, Live
  <1>2. CASE \E r \in {"ok"} \union Errors : Exit(r)
    BY <1>1, <1>2, ExitPreservesIInv
  <1>3. CASE FirstChallenged
    BY <1>1, <1>3, FirstChallengedPreservesIInv
  <1>4. CASE CreateFails
    BY <1>1, <1>4, ExitPreservesIInv DEF CreateFails, Errors
  <1> QED
    BY <1>2, <1>3, <1>4 DEF First

\* Judging the response to a token.
LEMMA FollowingPreservesIInv ==
  ASSUME IInv, Following
  PROVE  IInv'
  <1>1. pc = "next" /\ Live
    BY DEF Following, Live
  <1>2. CASE \E r \in {"ok"} \union Errors : Exit(r)
    BY <1>1, <1>2, ExitPreservesIInv
  <1>3. CASE NextChallenged
    <2> DEFINE token == FindChallenge(response, scheme)
    <2>1. /\ HasChallenge(response, scheme)
          /\ challenge' = [token |-> token, conn |-> conn]
          /\ must_drain' = TRUE
          /\ \/ pc' = "unwind" /\ result' = "invalid_token"
             \/ pc' = "round" /\ UNCHANGED result
          /\ UNCHANGED <<socketVars, buffer, auth, response, scheme, round>>
          /\ UNCHANGED <<remaining, sspiVars>>
      BY <1>3 DEF NextChallenged, GoTo
    <2>2. token \in Tokens
      BY <2>1, ResponseType, ChallengeType DEF IInv
    <2> HIDE DEF token
    <2>3. TypeOK'
      <3>1. challenge' \in [token : Tokens, conn : 0..2]
        BY <2>1, <2>2 DEF IInv, TypeOK
      <3>2. must_drain' \in BOOLEAN
        BY <2>1, ZenonT(40)
      <3> QED
        BY <2>1, <3>1, <3>2
        DEF IInv, TypeOK, SspiTypeOK, socketVars, sspiVars, States, Errors
    <2>4. Control'
      BY <1>1, <2>1 DEF IInv, Control, InRound, Live, socketVars, sspiVars
    <2>5. Handles'
      BY <1>1, <2>1 DEF IInv, Handles, Live, sspiVars
    <2> QED
      BY <2>3, <2>4, <2>5 DEF IInv
  <1>4. CASE NextUnchallenged
    BY <1>1, <1>4, ExitPreservesIInv DEF NextUnchallenged, Errors
  <1> QED
    BY <1>2, <1>3, <1>4 DEF Following

\* discard_exact keeps its count a natural number.
LEMMA BeginDiscardPreservesIInv ==
  ASSUME IInv, NEW from \in Seq(Units), NEW length \in Nat,
         NEW after \in {"step", "terminator"}, BeginDiscard(from, length, after),
         InRound \/ (pc = "round" /\ round < MAX_AUTH_ROUNDS)
  PROVE  IInv'
  <1>1. Len(from) \in Nat
    BY LenProperties
  <1>2. /\ Buffered(length, from) \in Nat
        /\ Buffered(length, from) <= length
    BY <1>1, MinPair DEF Buffered
  <1>3. buffer' \in Seq(Units)
    BY <1>2, RestType DEF BeginDiscard
  <1>4. remaining' \in Nat
    BY <1>2 DEF BeginDiscard
  <1>5. /\ UNCHANGED <<conn, wire, peer, awaiting, reply, taskVars, sspiVars>>
        /\ GoTo(IF remaining' = 0 THEN after ELSE "discard")
    BY DEF BeginDiscard, socketVars
  <1>6. (IF remaining' = 0 THEN after ELSE "discard")
            \in {"step", "discard", "terminator"}
    OBVIOUS
  <1>7. wire' \in Seq(Units)
    BY <1>5 DEF IInv, TypeOK
  <1>8. \A state \in {"step", "discard", "terminator"} : state \in States
    BY DEF States, Awaits
  <1> QED
    BY <1>3, <1>4, <1>5, <1>6, <1>7, <1>8, DataStepPreservesIInv

\* A step of control alone, into or within the loop's body.
LEMMA EnterPreservesIInv ==
  ASSUME IInv, NEW state \in {"step", "size_line"}, GoTo(state), KeepData,
         pc = "round" /\ round < MAX_AUTH_ROUNDS
  PROVE  IInv'
  <1>1. state \in States
    BY DEF States, Awaits
  <1>2. /\ UNCHANGED <<conn, peer, awaiting, reply, taskVars, sspiVars>>
        /\ UNCHANGED <<wire, buffer, remaining>>
    BY DEF KeepData, socketVars
  <1>3. buffer' \in Seq(Units) /\ wire' \in Seq(Units) /\ remaining' \in Nat
    BY <1>2 DEF IInv, TypeOK
  <1> QED
    BY <1>1, <1>2, <1>3, DataStepPreservesIInv

\* The head of the loop.
LEMMA RoundPreservesIInv ==
  ASSUME IInv, Round
  PROVE  IInv'
  <1>1. pc = "round" /\ Live
    BY DEF Round, Live
  <1>2. CASE RoundsExhausted
    BY <1>1, <1>2, ExitPreservesIInv DEF Round, Errors
  <1>3. CASE ~RoundsExhausted
    <2>1. round < MAX_AUTH_ROUNDS
      BY <1>3, Limits DEF RoundsExhausted, IInv, TypeOK
    <2>2. CASE ClosedDuringAuth
      BY <1>1, <2>2, ExitPreservesIInv DEF ClosedDuringAuth, Errors
    <2>3. CASE Drain
      <3>1. CASE BodyFraming(response) = "chunked" /\ GoTo("size_line") /\ KeepData
        BY <1>1, <2>1, <3>1, EnterPreservesIInv
      <3>2. CASE BodyFraming(response) = "invalid" /\ Exit("invalid_content_length")
        BY <1>1, <3>2, ExitPreservesIInv DEF Errors
      <3>3. CASE /\ BodyFraming(response) = "length"
                 /\ BeginDiscard(buffer, response.lengths[1], "step")
        <4>1. response.lengths[1] \in Nat
          BY <3>3, ResponseType, LengthType DEF IInv
        <4>2. buffer \in Seq(Units)
          BY DEF IInv, TypeOK
        <4> QED
          BY <1>1, <2>1, <3>3, <4>1, <4>2, BeginDiscardPreservesIInv
      <3>4. CASE BodyFraming(response) = "none" /\ GoTo("step") /\ KeepData
        BY <1>1, <2>1, <3>4, EnterPreservesIInv
      <3> QED
        BY <2>3, <3>1, <3>2, <3>3, <3>4 DEF Drain
    <2>4. CASE GoTo("step") /\ KeepData
      BY <1>1, <2>1, <2>4, EnterPreservesIInv
    <2> QED
      BY <1>3, <2>2, <2>3, <2>4 DEF Round
  <1> QED
    BY <1>2, <1>3

\* A read of discard_exact.
LEMMA DiscardPreservesIInv ==
  ASSUME IInv, Discard
  PROVE  IInv'
  <1>1. pc = "discard" /\ Live /\ InRound /\ TypeOK
    BY DEF Discard, Live, InRound, IInv
  <1>2. CASE ReadFails
    BY <1>1, <1>2, ReadFailsPreservesIInv
  <1>3. ASSUME NEW n \in 1..ReadSize,
               ReadSome(Min({ReadSize, remaining}), n),
               remaining' = remaining - n,
               GoTo(IF remaining' > 0 THEN "discard"
                    ELSE IF BodyFraming(response) = "chunked"
                    THEN "terminator" ELSE "step"),
               UNCHANGED <<buffer, taskVars, sspiVars>>
        PROVE  IInv'
    <2> DEFINE wanted == Min({ReadSize, remaining})
               state == IF remaining' > 0 THEN "discard"
                        ELSE IF BodyFraming(response) = "chunked"
                        THEN "terminator" ELSE "step"
    <2>1. wanted \in Nat /\ wanted <= remaining /\ remaining \in Nat
      BY <1>1, Limits, MinPair DEF TypeOK
    <2>2. Len(wire) \in Nat /\ wire \in Seq(Units)
      BY <1>1, LenProperties DEF TypeOK
    <2>3. n \in 1..Min({wanted, Len(wire)}) /\ wire' = Rest(wire, n)
      BY <1>3 DEF ReadSome
    <2> HIDE DEF wanted
    <2>4. Min({wanted, Len(wire)}) \in Nat /\ Min({wanted, Len(wire)}) <= wanted
      BY <2>1, <2>2, MinPair
    <2>5. n \in Nat /\ n <= remaining
      BY <2>1, <2>3, <2>4
    <2>6. remaining' \in Nat /\ wire' \in Seq(Units) /\ buffer' \in Seq(Units)
      BY <1>1, <1>3, <2>1, <2>2, <2>3, <2>5, RestType DEF TypeOK
    <2>7. state \in {"discard", "terminator", "step"} /\ GoTo(state)
      BY <1>3
    <2>8. UNCHANGED <<conn, peer, awaiting, reply, taskVars, sspiVars>>
      BY <1>3 DEF ReadSome
    <2> HIDE DEF state
    <2>9. state \in States
      BY <2>7 DEF States, Awaits
    <2> QED
      BY <1>1, <2>6, <2>7, <2>8, <2>9, DataStepPreservesIInv
  <1> QED
    BY <1>2, <1>3 DEF Discard

\* One turn of read_line.
LEMMA FillLinePreservesIInv ==
  ASSUME IInv, NEW state \in {"size_line", "terminator", "trailer"},
         NEW limit, FillLine(state, limit)
  PROVE  IInv'
  <1>1. pc = state /\ Live /\ TypeOK
    BY DEF FillLine, Live, IInv
  <1>2. CASE LineTooLong(limit)
    BY <1>1, <1>2, ExitPreservesIInv DEF FillLine, Errors
  <1>3. CASE ReadFails
    BY <1>1, <1>3, ReadFailsPreservesIInv
  <1>4. ASSUME NEW n \in 1..LineReadSize, ReadSome(LineReadSize, n),
               buffer' = buffer \o Front(wire, n),
               UNCHANGED <<pc, result, taskVars, remaining, sspiVars>>
        PROVE  IInv'
    <2>1. buffer' \in Seq(Units) /\ wire' \in Seq(Units)
      BY <1>1, <1>4, Limits, ReadIntoBuffer, ZenonT(40)
    <2>2. pc \in States /\ GoTo(pc) /\ remaining' \in Nat
      BY <1>1, <1>4 DEF TypeOK, GoTo
    <2>3. UNCHANGED <<conn, peer, awaiting, reply, taskVars, sspiVars>>
      BY <1>4 DEF ReadSome
    <2> QED
      BY <1>1, <2>1, <2>2, <2>3, DataStepPreservesIInv
  <1> QED
    BY <1>2, <1>3, <1>4 DEF FillLine

\* A line taken out of the buffer.
LEMMA TakeLinePreservesIInv ==
  ASSUME IInv, InRound, HasLine(buffer),
         NEW state \in {"step", "size_line", "trailer"}, TakeLine(state)
  PROVE  IInv'
  <1>1. /\ UNCHANGED <<conn, peer, awaiting, reply, taskVars, sspiVars>>
        /\ UNCHANGED <<wire, remaining>>
        /\ GoTo(state) /\ buffer' = AfterLine(buffer)
    BY DEF TakeLine, socketVars
  <1>2. buffer' \in Seq(Units) /\ wire' \in Seq(Units) /\ remaining' \in Nat
    BY <1>1, AfterLineType DEF IInv, TypeOK
  <1>3. state \in States
    BY DEF States, Awaits
  <1> QED
    BY <1>1, <1>2, <1>3, DataStepPreservesIInv

\* The steps of drain_chunked.
LEMMA DrainChunkedPreservesIInv ==
  ASSUME IInv, DrainChunked
  PROVE  IInv'
  <1>1. CASE \E state \in {"size_line", "terminator", "trailer"},
                limit \in {1, LineLimit} : FillLine(state, limit)
    BY <1>1, FillLinePreservesIInv
  <1>2. CASE SizeLine
    <2>1. pc = "size_line" /\ Live /\ InRound /\ HasLine(buffer)
      BY <1>2 DEF SizeLine, Live, InRound
    <2>2. CASE TakeLine("trailer")
      BY <2>1, <2>2, TakeLinePreservesIInv
    <2>3. CASE BeginDiscard(AfterLine(buffer), ChunkUnits, "terminator")
      <3>1. AfterLine(buffer) \in Seq(Units)
        BY <2>1, AfterLineType DEF IInv, TypeOK
      <3> QED
        BY <2>1, <2>3, <3>1, Limits, BeginDiscardPreservesIInv
    <2>4. CASE Exit("invalid_chunked_body")
      BY <2>1, <2>4, ExitPreservesIInv DEF Errors
    <2> QED
      BY <1>2, <2>2, <2>3, <2>4 DEF SizeLine
  <1>3. CASE Terminator
    <2>1. pc = "terminator" /\ Live /\ InRound /\ HasLine(buffer)
      BY <1>3 DEF Terminator, Live, InRound
    <2>2. CASE TakeLine("size_line")
      BY <2>1, <2>2, TakeLinePreservesIInv
    <2>3. CASE Exit("invalid_chunked_body")
      BY <2>1, <2>3, ExitPreservesIInv DEF Errors
    <2> QED
      BY <1>3, <2>2, <2>3 DEF Terminator
  <1>4. CASE Trailer
    <2>1. InRound /\ HasLine(buffer)
      BY <1>4 DEF Trailer, InRound
    <2>2. TakeLine("step") \/ TakeLine("trailer")
      BY <1>4 DEF Trailer
    <2> QED
      BY <2>1, <2>2, TakeLinePreservesIInv
  <1> QED
    BY <1>1, <1>2, <1>3, <1>4 DEF DrainChunked

\* One call of SSPI: the token is counted, and the handle is.
LEMMA StepPreservesIInv ==
  ASSUME IInv, Step
  PROVE  IInv'
  <1>1. pc = "step" /\ Live /\ InRound /\ scheme # "none" /\ created
    BY DEF Step, Live, InRound, IInv, Control, Handles
  <1>2. CASE Exit("auth")
    BY <1>1, <1>2, ExitPreservesIInv DEF Errors
  <1>3. ASSUME NEW status \in Statuses, NEW completes \in BOOLEAN, NEW frees \in BOOLEAN,
               SspiStep(status, completes, frees),
               IF StepSucceeds(status, completes, frees)
               THEN GoTo("send") /\ round' = round + 1
               ELSE pc' = "unwind" /\ result' = "auth" /\ UNCHANGED round,
               UNCHANGED <<socketVars, buffer, auth, response, scheme, challenge>>,
               UNCHANGED <<must_drain, remaining>>
        PROVE  IInv'
    <2>1. /\ created' \in BOOLEAN /\ has_context' \in BOOLEAN
          /\ complete' \in BOOLEAN /\ finished' \in BOOLEAN
      BY <1>3, ZenonT(40) DEF SspiStep, IInv, TypeOK, SspiTypeOK
    <2>2. /\ created' /\ credentials' = credentials
          /\ contexts' = (IF has_context' THEN 1 ELSE 0)
      <3>1. contexts = (IF has_context THEN 1 ELSE 0) /\ created' = created
        BY <1>1, <1>3 DEF SspiStep, IInv, Handles
      <3>2. has_context' <=> has_context \/ status \in Accepted
        BY <1>3, ZenonT(40) DEF SspiStep
      <3>3. contexts' = IF status \in Accepted /\ ~has_context
                        THEN contexts + 1 ELSE contexts
        BY <1>3 DEF SspiStep
      <3> QED
        BY <1>1, <1>3, <3>1, <3>2, <3>3 DEF SspiStep
    <2>3. ~finished
      BY <1>1, <1>3 DEF SspiStep, IInv, Handles
    <2>4. round < MAX_AUTH_ROUNDS /\ round \in Nat /\ MAX_AUTH_ROUNDS \in Nat
      BY <1>1, Limits DEF IInv, Control, TypeOK
    <2>5. \/ /\ pc' = "send" /\ UNCHANGED result /\ round' = round + 1
             /\ finished' => complete'
          \/ pc' = "unwind" /\ result' = "auth" /\ round' = round
      BY <1>3, <2>3 DEF SspiStep, GoTo
    <2>6. TypeOK'
      <3>1. credentials' \in 0..1 /\ contexts' \in 0..1
        BY <2>2 DEF IInv, TypeOK, SspiTypeOK
      <3>2. round' \in 0..MAX_AUTH_ROUNDS
        BY <2>4, <2>5
      <3>3. pc' \in States /\ result' \in {"none", "ok"} \union Errors
        BY <2>5 DEF IInv, TypeOK, States, Awaits, Errors
      <3> QED
        BY <1>3, <2>1, <3>1, <3>2, <3>3 DEF IInv, TypeOK, SspiTypeOK, socketVars
    <2>7. Control'
      BY <1>1, <1>3, <2>4, <2>5 DEF IInv, Control, InRound, Live, socketVars
    <2>8. Handles'
      BY <1>1, <1>3, <2>2, <2>5 DEF IInv, Handles, Live
    <2> QED
      BY <2>6, <2>7, <2>8 DEF IInv
  <1> QED
    BY <1>2, <1>3 DEF Step

\* Dropping the locals releases whatever handles there are.
LEMMA UnwindPreservesIInv ==
  ASSUME IInv, Unwind
  PROVE  IInv'
  <1> USE DEF IInv, Unwind, socketVars, taskVars
  <1>1. /\ created' = FALSE
        /\ credentials' = 0 /\ contexts' = 0
        /\ UNCHANGED <<has_context, complete, finished>>
    BY DEF SspiDrop, sspiVars, Handles, TypeOK, SspiTypeOK
  <1>2. TypeOK'
    <2>1. created' \in BOOLEAN
      BY <1>1, ZenonT(40)
    <2> QED
      BY <1>1, <2>1 DEF TypeOK, SspiTypeOK, States
  <1>3. Control'
    BY <1>1 DEF Control, InRound, Live
  <1>4. Handles'
    BY <1>1 DEF Handles, Live
  <1> QED
    BY <1>2, <1>3, <1>4

\* The upstream changes the wire only.
LEMMA UpstreamPreservesIInv ==
  ASSUME IInv, UpstreamReplies \/ UpstreamCloses
  PROVE  IInv'
  <1>1. UpstreamUnchanged
    BY DEF UpstreamReplies, UpstreamCloses
  <1> USE DEF IInv, UpstreamUnchanged, taskVars, sspiVars
  <1>2. /\ wire' \in Seq(Units) /\ peer' \in {"open", "fin", "rst"}
        /\ reply' \in Responses \union {NoResponse}
    <2>1. CASE UpstreamReplies
      <3>1. PICK r \in Responses : reply' = r /\ wire' = wire \o Encode(r)
        BY <2>1 DEF UpstreamReplies
      <3>2. r.head \in Seq(Units) /\ r.body \in Seq(Units)
        BY ExchangeConstants DEF Response
      <3>3. Encode(r) \in Seq(Units)
        BY <3>2, ConcatProperties DEF Encode
      <3> QED
        BY <2>1, <3>1, <3>3, ConcatProperties DEF UpstreamReplies, TypeOK
    <2>2. CASE UpstreamCloses
      BY <2>2, EmptySeq, ZenonT(40) DEF UpstreamCloses, TypeOK
    <2> QED
      BY <2>1, <2>2
  <1>3. awaiting' \in BOOLEAN
    BY ZenonT(40) DEF UpstreamReplies, UpstreamCloses, TypeOK
  <1>4. TypeOK'
    BY <1>1, <1>2, <1>3 DEF TypeOK, SspiTypeOK
  <1>5. Control' /\ Handles'
    BY <1>1 DEF Control, Handles, InRound, Live
  <1> QED
    BY <1>4, <1>5

\* Every step of the exchange preserves the invariant.
LEMMA IInvNext == IInv /\ [Next]_vars => IInv'
  <1> SUFFICES ASSUME IInv, [Next]_vars PROVE IInv'
    OBVIOUS
  <1>1. CASE Connect
    BY <1>1, ConnectPreservesIInv
  <1>2. CASE ConnectFails
    BY <1>2, ExitPreservesIInv DEF ConnectFails, Live, Errors
  <1>3. CASE Send
    BY <1>3, SendPreservesIInv
  <1>4. CASE SendFails
    BY <1>4, ExitPreservesIInv DEF SendFails, Live, Errors
  <1>5. CASE FillHead
    BY <1>5, FillHeadPreservesIInv
  <1>6. CASE TakeHead
    BY <1>6, TakeHeadPreservesIInv
  <1>7. CASE First
    BY <1>7, FirstPreservesIInv
  <1>8. CASE Following
    BY <1>8, FollowingPreservesIInv
  <1>9. CASE Round
    BY <1>9, RoundPreservesIInv
  <1>10. CASE Discard
    BY <1>10, DiscardPreservesIInv
  <1>11. CASE DrainChunked
    BY <1>11, DrainChunkedPreservesIInv
  <1>12. CASE Step
    BY <1>12, StepPreservesIInv
  <1>13. CASE Unwind
    BY <1>13, UnwindPreservesIInv
  <1>14. CASE Cancelled
    BY <1>14, ExitPreservesIInv DEF Cancelled, Awaits, Live, Errors
  <1>15. CASE UpstreamReplies \/ UpstreamCloses
    BY <1>15, UpstreamPreservesIInv
  <1>16. CASE Done \/ UNCHANGED vars
    <2>1. UNCHANGED vars
      BY <1>16 DEF Done
    <2> QED
      BY <2>1
      DEF vars, socketVars, taskVars, sspiVars, IInv, TypeOK, SspiTypeOK,
          Control, Handles, InRound, Live
  <1> QED
    BY <1>1, <1>2, <1>3, <1>4, <1>5, <1>6, <1>7, <1>8, <1>9, <1>10, <1>11,
       <1>12, <1>13, <1>14, <1>15, <1>16
    DEF Next, Task

(***************************************************************************)
(* The buffer stays small                                                  *)
(***************************************************************************)

\* The bound, and what is within it.
LEMMA BoundIsLarge ==
  LET bound == Max({MaxHeaderBytes, LineLimit - 1 + LineReadSize})
  IN  /\ bound \in Nat /\ MaxHeaderBytes <= bound
      /\ LineLimit - 1 + LineReadSize <= bound
  <1>1. LineLimit - 1 + LineReadSize \in Nat /\ MaxHeaderBytes \in Nat
    BY Limits
  <1> QED
    BY <1>1, MaxPair

\* Skipping buffered units makes the buffer no longer.
LEMMA BeginDiscardShrinks ==
  ASSUME NEW from \in Seq(Units), NEW length \in Nat, NEW after,
         BeginDiscard(from, length, after)
  PROVE  Len(buffer') <= Len(from)
  <1>1. Len(from) \in Nat
    BY LenProperties
  <1>2. Buffered(length, from) \in Nat
    BY <1>1, MinPair DEF Buffered
  <1>3. Len(buffer') = IF Buffered(length, from) <= Len(from)
                       THEN Len(from) - Buffered(length, from) ELSE 0
    BY <1>2, RestType, ZenonT(40) DEF BeginDiscard
  <1> QED
    BY <1>1, <1>2, <1>3

\* A step either shrinks the buffer, or reads into it within a limit.
LEMMA BufferNext ==
  ASSUME TypeOK, BufferBounded, [Next]_vars
  PROVE  BufferBounded'
  <1> DEFINE bound == Max({MaxHeaderBytes, LineLimit - 1 + LineReadSize})
  <1>1. /\ bound \in Nat /\ MaxHeaderBytes <= bound
        /\ LineLimit - 1 + LineReadSize <= bound
    BY BoundIsLarge
  <1>2. buffer \in Seq(Units) /\ Len(buffer) \in Nat /\ Len(buffer) <= bound
    BY LenProperties DEF TypeOK, BufferBounded
  <1> SUFFICES Len(buffer') <= bound
    BY DEF BufferBounded
  <1> HIDE DEF bound
  <1>3. CASE UNCHANGED buffer
    BY <1>2, <1>3
  <1>4. CASE Connect
    <2>1. buffer' = <<>> /\ Len(<<>>) = 0
      BY <1>4, EmptySeq DEF Connect
    <2> QED
      BY <1>1, <2>1
  <1>5. CASE FillHead /\ ~UNCHANGED buffer
    <2>1. PICK n \in 1..ReadSize :
                   /\ ReadSome(Min({ReadSize, MaxHeaderBytes - Len(buffer)}), n)
                   /\ buffer' = buffer \o Front(wire, n)
      BY <1>5, ZenonT(40) DEF FillHead, ReadFails, Exit, KeepData
    <2>2. MaxHeaderBytes - Len(buffer) \in Nat
      BY <1>2, <1>5, Limits DEF FillHead, HeadTooLarge, Exit, KeepData
    <2> DEFINE wanted == Min({ReadSize, MaxHeaderBytes - Len(buffer)})
    <2>3. wanted \in Nat /\ wanted <= MaxHeaderBytes - Len(buffer)
      BY <2>2, Limits, MinPair
    <2>4. n \in Nat /\ n <= wanted /\ Len(buffer') = Len(buffer) + n
      BY <2>1, <2>3, ReadIntoBuffer, ZenonT(40)
    <2> HIDE DEF wanted
    <2> QED
      BY <1>1, <1>2, <2>3, <2>4, Limits
  <1>6. CASE TakeHead
    <2>1. AfterHead(buffer) \in Seq(Units) /\ Len(AfterHead(buffer)) < Len(buffer)
      BY <1>2, <1>6, AfterHeadType DEF TakeHead
    <2>2. Len(AfterHead(buffer)) \in Nat
      BY <2>1, LenProperties
    <2> QED
      BY <1>1, <1>2, <1>6, <2>1, <2>2 DEF TakeHead
  <1>7. CASE Round /\ ~UNCHANGED buffer
    <2>1. /\ BodyFraming(response) = "length"
          /\ BeginDiscard(buffer, response.lengths[1], "step")
      BY <1>7 DEF Round, ClosedDuringAuth, Drain, Exit, KeepData
    <2>2. response.lengths[1] \in Nat
      BY <2>1, ResponseType, LengthType
    <2>3. Len(buffer') <= Len(buffer)
      BY <1>2, <2>1, <2>2, BeginDiscardShrinks
    <2>4. Len(buffer') \in Nat
      BY <1>2, <2>1, <2>2, RestType, MinPair, LenProperties DEF BeginDiscard, Buffered
    <2> QED
      BY <1>1, <1>2, <2>3, <2>4
  <1>8. ASSUME NEW state, NEW limit \in {1, LineLimit}, FillLine(state, limit),
               ~UNCHANGED buffer
        PROVE  Len(buffer') <= bound
    <2>1. PICK n \in 1..LineReadSize :
                   /\ ReadSome(LineReadSize, n)
                   /\ buffer' = buffer \o Front(wire, n)
      BY <1>8 DEF FillLine, ReadFails, Exit, KeepData
    <2>2. Len(buffer) < LineLimit
      BY <1>2, <1>8, Limits DEF FillLine, LineTooLong, Exit, KeepData
    <2>3. n \in Nat /\ n <= LineReadSize /\ Len(buffer') = Len(buffer) + n
      BY <2>1, Limits, ReadIntoBuffer
    <2> QED
      BY <1>1, <1>2, <2>2, <2>3, Limits
  <1>9. CASE SizeLine \/ Terminator \/ Trailer
    <2>1. HasLine(buffer)
      BY <1>9 DEF SizeLine, Terminator, Trailer
    <2>2. AfterLine(buffer) \in Seq(Units) /\ Len(AfterLine(buffer)) <= Len(buffer)
      BY <1>2, <2>1, AfterLineType
    <2>3. Len(AfterLine(buffer)) \in Nat
      BY <2>2, LenProperties
    <2>4. CASE BeginDiscard(AfterLine(buffer), ChunkUnits, "terminator")
      <3>1. Len(buffer') <= Len(AfterLine(buffer))
        BY <2>2, <2>4, Limits, BeginDiscardShrinks
      <3>2. Len(buffer') \in Nat
        BY <2>2, <2>3, <2>4, Limits, RestType, MinPair, LenProperties
        DEF BeginDiscard, Buffered
      <3> QED
        BY <1>1, <1>2, <2>2, <2>3, <3>1, <3>2
    <2>5. CASE buffer' = AfterLine(buffer)
      BY <1>1, <1>2, <2>2, <2>3, <2>5
    <2> QED
      BY <1>3, <1>9, <2>4, <2>5
      DEF SizeLine, Terminator, Trailer, TakeLine, Exit, KeepData
  <1>10. CASE DrainChunked /\ ~UNCHANGED buffer
    BY <1>8, <1>9, <1>10 DEF DrainChunked
  <1>11. CASE \/ ConnectFails \/ Send \/ SendFails \/ First \/ Following
              \/ Discard \/ Step \/ Unwind \/ Cancelled
              \/ UpstreamReplies \/ UpstreamCloses \/ Done \/ UNCHANGED vars
    <2>1. UNCHANGED buffer
      BY <1>11, ZenonT(40)
      DEF ConnectFails, Send, SendFails, First, FirstChallenged, CreateFails,
          Following, NextChallenged, NextUnchallenged, Discard, ReadFails, Step,
          Unwind, Cancelled, UpstreamReplies, UpstreamCloses, UpstreamUnchanged,
          Done, vars, Exit, KeepData
    <2> QED
      BY <1>3, <2>1
  <1> QED
    BY <1>3, <1>4, <1>5, <1>6, <1>7, <1>10, <1>11 DEF Next, Task

(***************************************************************************)
(* Theorems                                                                *)
(***************************************************************************)

\* The inductive invariant holds throughout.
THEOREM Invariance == Spec => []IInv
  BY IInvInit, IInvNext, PTL DEF Spec

\* The variables always have their types: in particular the exchange opens at
\* most two sockets and produces at most MAX_AUTH_ROUNDS tokens.
THEOREM TypeCorrect == Spec => []TypeOK
  <1>1. IInv => TypeOK
    BY DEF IInv
  <1> QED
    BY Invariance, <1>1, PTL

\* A challenge with a token is never answered on a socket other than its own.
THEOREM ChallengeStaysOnSocket == Spec => []ChallengeAnsweredOnItsSocket
  <1>1. IInv => ChallengeAnsweredOnItsSocket
    BY DEF IInv, Control, Live, ChallengeAnsweredOnItsSocket
  <1> QED
    BY Invariance, <1>1, PTL

\* No way out of the exchange leaks a handle of its security context.
THEOREM NoHandleLeaks == Spec => []HandlesReleased
  <1>1. IInv => HandlesReleased
    BY DEF IInv, Handles, HandlesReleased
  <1> QED
    BY Invariance, <1>1, PTL

\* A finished security context is never stepped again.
THEOREM FinishedStaysFinished == Spec => []FinishedIsNeverStepped
  <1>1. IInv => FinishedIsNeverStepped
    BY DEF IInv, Control, Handles, Live, InRound, FinishedIsNeverStepped
  <1> QED
    BY Invariance, <1>1, PTL

\* With --auth none there is no context, no token and no second socket.
THEOREM NoAuthIsNoAuth == Spec => []NoAuthNoContext
  <1>1. IInv => NoAuthNoContext
    BY DEF IInv, Control, TypeOK, NoAuthNoContext
  <1> QED
    BY Invariance, <1>1, PTL

\* After the first token neither the socket nor the scheme changes.
THEOREM OneSocketForTokens == Spec => TokensStayOnOneSocket
  <1>1. ASSUME IInv, [Next]_vars, round > 0
        PROVE  conn' = conn /\ scheme' = scheme
    <2>1. CASE Connect
      BY <1>1, <2>1 DEF Connect, IInv, Control
    <2>2. CASE First
      BY <1>1, <2>2 DEF First, IInv, Control
    <2>3. CASE \/ ConnectFails \/ Send \/ SendFails \/ FillHead \/ TakeHead
               \/ Following \/ Round \/ Discard \/ DrainChunked \/ Step
               \/ Unwind \/ Cancelled \/ UpstreamReplies \/ UpstreamCloses
               \/ Done \/ UNCHANGED vars
      BY <2>3, ZenonT(40)
      DEF ConnectFails, Send, SendFails, FillHead, ReadSome, ReadFails,
          TakeHead, Following, NextChallenged, NextUnchallenged, Round,
          ClosedDuringAuth, Drain, BeginDiscard, Discard, DrainChunked,
          FillLine, SizeLine, Terminator, Trailer, TakeLine, Step, Unwind,
          Cancelled, UpstreamReplies, UpstreamCloses, UpstreamUnchanged, Done,
          Exit, KeepData, vars, socketVars, taskVars
    <2> QED
      BY <1>1, <2>1, <2>2, <2>3 DEF Next, Task
  <1>2. IInv /\ [Next]_vars => [round > 0 => conn' = conn /\ scheme' = scheme]_vars
    BY <1>1
  <1> QED
    BY Invariance, <1>2, PTL DEF Spec, TokensStayOnOneSocket

\* The buffer never outgrows its bound, whatever the upstream sends.
THEOREM BufferStaysBounded == Spec => []BufferBounded
  <1>1. Init => BufferBounded
    <2>1. Init => Len(buffer) = 0
      BY EmptySeq DEF Init
    <2> QED
      BY <2>1, BoundIsLarge DEF BufferBounded
  <1>2. IInv /\ BufferBounded /\ [Next]_vars => BufferBounded'
    BY BufferNext DEF IInv
  <1> QED
    BY Invariance, <1>1, <1>2, PTL DEF Spec

(***************************************************************************)
(* What is read too far is less than one read                              *)
(***************************************************************************)

\* What is left of a sequence of units after its first ones.
LEMMA RestUnits ==
  ASSUME NEW s \in Seq(Units), NEW n \in 0..Len(s)
  PROVE  /\ Rest(s, n) \in Seq(Units) /\ Len(Rest(s, n)) = Len(s) - n
         /\ \A i \in 1..(Len(s) - n) : Rest(s, n)[i] = s[n + i]
  <1>1. Len(s) \in Nat /\ n \in Nat /\ n <= Len(s)
    BY LenProperties
  <1>2. \A i \in n + 1 .. Len(s) : s[i] \in Units
    BY <1>1, ElementOfSeq
  <1>3. /\ SubSeq(s, n + 1, Len(s)) \in Seq(Units)
        /\ Len(SubSeq(s, n + 1, Len(s)))
              = IF n + 1 <= Len(s) THEN Len(s) - (n + 1) + 1 ELSE 0
        /\ \A i \in 1..(Len(s) - (n + 1) + 1) :
              SubSeq(s, n + 1, Len(s))[i] = s[n + 1 + i - 1]
    BY <1>1, <1>2, SubSeqProperties
  <1>4. \A i \in Nat : n + 1 + i - 1 = n + i
    BY <1>1
  <1>5. Len(s) - (n + 1) + 1 = Len(s) - n
    BY <1>1
  <1>6. \A i \in 1..(Len(s) - n) : i \in Nat
    OBVIOUS
  <1>7. \A i \in 1..(Len(s) - n) : SubSeq(s, n + 1, Len(s))[i] = s[n + i]
    BY <1>3, <1>4, <1>5, <1>6, ZenonT(40)
  <1>8. Len(SubSeq(s, n + 1, Len(s))) = Len(s) - n
    BY <1>1, <1>3
  <1> QED
    BY <1>3, <1>7, <1>8, ZenonT(40) DEF Rest

\* The first units of a sequence.
LEMMA FrontUnits ==
  ASSUME NEW s \in Seq(Units), NEW n \in 0..Len(s)
  PROVE  /\ Front(s, n) \in Seq(Units) /\ Len(Front(s, n)) = n
         /\ \A i \in 1..n : Front(s, n)[i] = s[i]
  <1>1. Len(s) \in Nat /\ n \in Nat /\ n <= Len(s)
    BY LenProperties
  <1>2. \A i \in 1..n : s[i] \in Units
    BY <1>1, ElementOfSeq
  <1>3. \A i \in 1..(n - 1 + 1) : SubSeq(s, 1, n)[i] = s[1 + i - 1]
    BY <1>1, <1>2, SubSeqProperties
  <1>4. \A i \in Nat : 1 + i - 1 = i
    OBVIOUS
  <1>5. \A i \in 1..n : i \in 1..(n - 1 + 1) /\ i \in Nat
    BY <1>1
  <1>6. \A i \in 1..n : SubSeq(s, 1, n)[i] = s[i]
    BY <1>3, <1>4, <1>5, ZenonT(40)
  <1> QED
    BY <1>6, FrontType DEF Front

\* Sequences of units put together.
LEMMA UnitsCat ==
  ASSUME NEW a \in Seq(Units), NEW b \in Seq(Units)
  PROVE  /\ a \o b \in Seq(Units) /\ Len(a \o b) = Len(a) + Len(b)
         /\ \A i \in 1..Len(a) : (a \o b)[i] = a[i]
         /\ \A i \in 1..Len(b) : (a \o b)[Len(a) + i] = b[i]
  BY ConcatProperties, LenProperties

\* At most so many units have left the wire, perhaps for the buffer.
ReadMoved(wanted, n) ==
    /\ n \in Nat /\ 1 <= n /\ n <= wanted /\ n <= Len(wire)
    /\ Len(wire) \in Nat /\ Len(buffer) \in Nat
    /\ wire' \in Seq(Units) /\ Len(wire') = Len(wire) - n
    /\ \A i \in 1..(Len(wire) - n) : wire'[i] = wire[n + i]
    /\ buffer' = buffer \o Front(wire, n) =>
          /\ buffer' \in Seq(Units) /\ Len(buffer') = Len(buffer) + n
          /\ \A i \in 1..Len(buffer) : buffer'[i] = buffer[i]
          /\ \A i \in 1..n : buffer'[Len(buffer) + i] = wire[i]

\* A read puts units of the wire at the end of the buffer.
LEMMA ReadMoves ==
  ASSUME TypeOK, NEW wanted \in Nat, NEW n, ReadSome(wanted, n)
  PROVE  ReadMoved(wanted, n)
  <1>1. wire \in Seq(Units) /\ buffer \in Seq(Units)
        /\ Len(wire) \in Nat /\ Len(buffer) \in Nat
    BY LenProperties DEF TypeOK
  <1>2. n \in 1..Min({wanted, Len(wire)}) /\ wire' = Rest(wire, n)
    BY DEF ReadSome
  <1>3. /\ Min({wanted, Len(wire)}) \in Nat
        /\ Min({wanted, Len(wire)}) <= wanted
        /\ Min({wanted, Len(wire)}) <= Len(wire)
    BY <1>1, MinPair
  <1>4. n \in Nat /\ 1 <= n /\ n <= wanted /\ n <= Len(wire) /\ n \in 0..Len(wire)
    BY <1>1, <1>2, <1>3
  <1>5. /\ wire' \in Seq(Units) /\ Len(wire') = Len(wire) - n
        /\ \A i \in 1..(Len(wire) - n) : wire'[i] = wire[n + i]
    BY <1>1, <1>2, <1>4, RestUnits, ZenonT(40)
  <1> DEFINE f == Front(wire, n)
  <1>6. f \in Seq(Units) /\ Len(f) = n /\ \A i \in 1..n : f[i] = wire[i]
    BY <1>1, <1>4, FrontUnits, ZenonT(40)
  <1> HIDE DEF f
  <1> DEFINE b == buffer
  <1>7. /\ b \o f \in Seq(Units) /\ Len(b \o f) = Len(b) + Len(f)
        /\ \A i \in 1..Len(b) : (b \o f)[i] = b[i]
        /\ \A i \in 1..Len(f) : (b \o f)[Len(b) + i] = f[i]
    <2>1. b \in Seq(Units)
      BY <1>1
    <2> HIDE DEF b
    <2> QED
      BY <1>6, <2>1, UnitsCat, ZenonT(40)
  <1>8. /\ buffer \o f \in Seq(Units) /\ Len(buffer \o f) = Len(buffer) + n
        /\ \A i \in 1..Len(buffer) : (buffer \o f)[i] = buffer[i]
        /\ \A i \in 1..n : (buffer \o f)[Len(buffer) + i] = wire[i]
    BY <1>6, <1>7, ZenonT(40)
  <1> QED
    BY <1>1, <1>4, <1>5, <1>8, ZenonT(40) DEF ReadMoved, f

\* Whether a head ends at a place is decided by what is before it.
LEMMA HeaderEndsBefore ==
  ASSUME NEW b \in Seq(Units), NEW c \in Seq(Units), NEW n \in Nat,
         n <= Len(b), n <= Len(c), \A i \in 1..n : b[i] = c[i]
  PROVE  \A i \in 1..n : i \in HeaderEnds(b) <=> i \in HeaderEnds(c)
  <1>1. Len(b) \in Nat /\ Len(c) \in Nat
    BY LenProperties
  <1> SUFFICES ASSUME NEW i \in 1..n
               PROVE  i \in HeaderEnds(b) <=> i \in HeaderEnds(c)
    OBVIOUS
  <1>2. i \in 1..Len(b) /\ i \in 1..Len(c) /\ b[i] = c[i]
    BY <1>1
  <1>3. i > 1 => i - 1 \in 1..n
    OBVIOUS
  <1>4. i > 1 => b[i - 1] = c[i - 1]
    BY <1>3
  <1> QED
    BY <1>2, <1>4 DEF HeaderEnds

\* The end of the head is the first of the places where one ends.
LEMMA HeaderEndFirst ==
  ASSUME NEW b \in Seq(Units), HasHeaderEnd(b)
  PROVE  /\ FindHeaderEnd(b) \in HeaderEnds(b) /\ FindHeaderEnd(b) \in 1..Len(b)
         /\ \A i \in HeaderEnds(b) : FindHeaderEnd(b) <= i
  <1>1. Len(b) \in Nat
    BY LenProperties
  <1>2. HeaderEnds(b) \subseteq 1..Len(b) /\ HeaderEnds(b) # {}
    BY DEF HasHeaderEnd, HeaderEnds
  <1>3. HeaderEnds(b) \in SUBSET Nat
    BY <1>1, <1>2
  <1> QED
    BY <1>2, <1>3, MinNat DEF FindHeaderEnd

\* The first line of the buffer, and what it leaves.
LEMMA FirstLine ==
  ASSUME NEW b \in Seq(Units), HasLine(b)
  PROVE  /\ LineEnd(b) \in 1..Len(b) /\ b[LineEnd(b)] \in Lines
         /\ \A i \in 1..Len(b) : b[i] \in Lines => LineEnd(b) <= i
         /\ Len(LineOf(b)) = LineEnd(b) /\ LineOf(b) \in Seq(Units)
         /\ \A i \in 1..LineEnd(b) : LineOf(b)[i] = b[i]
         /\ b[LineEnd(b)] \notin {"end", "blank"} =>
               AfterLine(b) = Rest(b, LineEnd(b))
         /\ b[LineEnd(b)] \in {"end", "blank"} =>
               AfterLine(b) = <<"crlf">> \o Rest(b, LineEnd(b))
  <1> DEFINE ends == {i \in 1..Len(b) : b[i] \in Lines}
  <1>1. Len(b) \in Nat
    BY LenProperties
  <1>2. ends \in SUBSET Nat /\ ends # {}
    BY <1>1 DEF HasLine
  <1>3. LineEnd(b) \in ends /\ \A i \in ends : LineEnd(b) <= i
    BY <1>2, MinNat, ZenonT(40) DEF LineEnd
  <1>4. LineEnd(b) \in 0..Len(b)
    BY <1>1, <1>3
  <1>5. /\ Len(LineOf(b)) = LineEnd(b) /\ LineOf(b) \in Seq(Units)
        /\ \A i \in 1..LineEnd(b) : LineOf(b)[i] = b[i]
    BY <1>4, FrontUnits DEF LineOf
  <1> DEFINE r == Rest(b, LineEnd(b))
  <1>6. r \in Seq(Units)
    BY <1>4, RestUnits
  <1> HIDE DEF r
  <1>7. <<>> \o r = r
    BY <1>6, ConcatEmptySeq
  <1>8. /\ b[LineEnd(b)] \notin {"end", "blank"} => AfterLine(b) = r
        /\ b[LineEnd(b)] \in {"end", "blank"} => AfterLine(b) = <<"crlf">> \o r
    BY <1>7, ZenonT(40) DEF AfterLine, r
  <1> QED
    BY <1>3, <1>5, <1>8 DEF r

\* A line of one unit.
LEMMA LineOfOne ==
  ASSUME NEW b \in Seq(Units), HasLine(b), NEW u, LineOf(b) = <<u>>
  PROVE  LineEnd(b) = 1 /\ b[1] = u
  <1>1. Len(LineOf(b)) = LineEnd(b) /\ \A i \in 1..LineEnd(b) : LineOf(b)[i] = b[i]
    BY FirstLine
  <1>2. Len(<<u>>) = 1 /\ <<u>>[1] = u
    OBVIOUS
  <1> QED
    BY <1>1, <1>2

\* Less than one read is in the buffer.
Small == Len(buffer) < ReadSize

\* read_line runs.
AtLine == pc \in {"size_line", "terminator", "trailer"}

\* What is buffered beyond the head, or beyond the line, that is looked for is
\* less than one read: the last read found it.
LeftoverInv ==
    /\ Live => result = "none"
    /\ result = "ok" => Small
    /\ Live /\ pc # "read_head" /\ ~AtLine => Small
    /\ pc = "read_head" /\ HasHeaderEnd(buffer) =>
          Len(buffer) < FindHeaderEnd(buffer) + ReadSize
    /\ AtLine /\ HasLine(buffer) => Len(buffer) < LineEnd(buffer) + ReadSize

\* A small buffer is small enough everywhere.
LEMMA SmallIsEnough ==
  ASSUME buffer' \in Seq(Units), Len(buffer') < ReadSize, Live' => result' = "none"
  PROVE  LeftoverInv'
  <1> DEFINE b == buffer'
  <1>1. b \in Seq(Units) /\ Len(b) \in Nat /\ Len(b) < ReadSize /\ ReadSize \in Nat
    BY LenProperties, Limits
  <1> HIDE DEF b
  <1>2. HasHeaderEnd(b) => Len(b) < FindHeaderEnd(b) + ReadSize
    <2> SUFFICES ASSUME HasHeaderEnd(b) PROVE Len(b) < FindHeaderEnd(b) + ReadSize
      OBVIOUS
    <2>1. FindHeaderEnd(b) \in 1..Len(b)
      BY <1>1, HeaderEndFirst
    <2> QED
      BY <1>1, <2>1
  <1>3. HasLine(b) => Len(b) < LineEnd(b) + ReadSize
    <2> SUFFICES ASSUME HasLine(b) PROVE Len(b) < LineEnd(b) + ReadSize
      OBVIOUS
    <2>1. LineEnd(b) \in 1..Len(b)
      BY <1>1, FirstLine
    <2> QED
      BY <1>1, <2>1
  <1> QED
    BY <1>1, <1>2, <1>3 DEF LeftoverInv, Small, b

\* An exchange that fails hands on nothing.
LEMMA FailureLeavesNothing ==
  ASSUME NEW r, r # "ok", Exit(r)
  PROVE  LeftoverInv'
  BY DEF Exit, LeftoverInv, Live, AtLine

\* A step that leaves no more in a small buffer.
LEMMA StaysSmall ==
  ASSUME TypeOK, LeftoverInv, Live, pc # "read_head", ~AtLine,
         buffer' \in Seq(Units), Len(buffer') <= Len(buffer),
         UNCHANGED result \/ pc' = "unwind"
  PROVE  LeftoverInv'
  <1>1. Len(buffer) < ReadSize /\ result = "none"
    BY DEF LeftoverInv, Small
  <1>2. Len(buffer) \in Nat /\ Len(buffer') \in Nat /\ ReadSize \in Nat
    BY LenProperties, Limits DEF TypeOK
  <1>3. Len(buffer') < ReadSize
    BY <1>1, <1>2
  <1>4. Live' => result' = "none"
    BY <1>1 DEF Live
  <1> QED
    BY <1>3, <1>4, SmallIsEnough

\* One turn of read_response_head.
LEMMA FillHeadLeavesSmall ==
  ASSUME TypeOK, LeftoverInv, FillHead
  PROVE  LeftoverInv'
  <1>1. CASE \E r \in Errors : r # "ok" /\ Exit(r)
    BY <1>1, FailureLeavesNothing
  <1>2. ASSUME NEW n \in 1..ReadSize, ~HeadTooLarge,
               ReadSome(Min({ReadSize, MaxHeaderBytes - Len(buffer)}), n),
               buffer' = buffer \o Front(wire, n),
               UNCHANGED <<pc, result, taskVars, remaining, sspiVars>>
        PROVE  LeftoverInv'
    <2> DEFINE b == buffer
               c == buffer'
    <2>1. pc = "read_head" /\ ~HasHeaderEnd(b) /\ b \in Seq(Units)
      BY DEF FillHead, TypeOK
    <2>2. MaxHeaderBytes - Len(buffer) \in Nat
      BY <1>2, Limits, LenProperties DEF HeadTooLarge, TypeOK
    <2>3. /\ Min({ReadSize, MaxHeaderBytes - Len(buffer)}) \in Nat
          /\ Min({ReadSize, MaxHeaderBytes - Len(buffer)}) <= ReadSize
      BY <2>2, Limits, MinPair
    <2>4. /\ n \in Nat /\ Len(b) \in Nat /\ c \in Seq(Units) /\ Len(c) = Len(b) + n
          /\ \A i \in 1..Len(b) : c[i] = b[i]
      BY <1>2, <2>3, ReadMoves, ZenonT(40) DEF ReadMoved
    <2>5. n <= ReadSize /\ ReadSize \in Nat
      BY <1>2, Limits
    <2> HIDE DEF b, c
    <2>6. ASSUME HasHeaderEnd(c) PROVE Len(c) < FindHeaderEnd(c) + ReadSize
      <3>1. FindHeaderEnd(c) \in HeaderEnds(c) /\ FindHeaderEnd(c) \in 1..Len(c)
        BY <2>4, <2>6, HeaderEndFirst
      <3>2. Len(b) <= Len(b) /\ Len(b) <= Len(c) /\ Len(c) \in Nat
        BY <2>4
      <3>3. \A i \in 1..Len(b) : i \in HeaderEnds(b) <=> i \in HeaderEnds(c)
        BY <2>1, <2>4, <3>2, HeaderEndsBefore, ZenonT(40)
      <3>4. FindHeaderEnd(c) \notin 1..Len(b)
        BY <2>1, <3>1, <3>3 DEF HasHeaderEnd
      <3> QED
        BY <2>4, <2>5, <3>1, <3>2, <3>4
    <2> QED
      BY <1>2, <2>1, <2>6 DEF LeftoverInv, Live, AtLine, b, c
  <1>3. CASE ReadFails \/ Exit("header_too_large")
    BY <1>1, <1>3 DEF ReadFails, Errors
  <1> QED
    BY <1>2, <1>3, ZenonT(40) DEF FillHead

\* One turn of read_line.
LEMMA FillLineLeavesSmall ==
  ASSUME TypeOK, LeftoverInv, LineReadSize <= ReadSize,
         NEW state \in {"size_line", "terminator", "trailer"},
         NEW limit, FillLine(state, limit)
  PROVE  LeftoverInv'
  <1>1. CASE \E r \in Errors : r # "ok" /\ Exit(r)
    BY <1>1, FailureLeavesNothing
  <1>2. ASSUME NEW n \in 1..LineReadSize, ReadSome(LineReadSize, n),
               buffer' = buffer \o Front(wire, n),
               UNCHANGED <<pc, result, taskVars, remaining, sspiVars>>
        PROVE  LeftoverInv'
    <2> DEFINE b == buffer
               c == buffer'
    <2>1. pc = state /\ ~HasLine(b) /\ b \in Seq(Units)
      BY DEF FillLine, TypeOK
    <2>2. /\ n \in Nat /\ Len(b) \in Nat /\ c \in Seq(Units) /\ Len(c) = Len(b) + n
          /\ \A i \in 1..Len(b) : c[i] = b[i]
      BY <1>2, Limits, ReadMoves, ZenonT(40) DEF ReadMoved
    <2>3. n <= ReadSize /\ ReadSize \in Nat
      BY <1>2, Limits
    <2> HIDE DEF b, c
    <2>4. ASSUME HasLine(c) PROVE Len(c) < LineEnd(c) + ReadSize
      <3>1. LineEnd(c) \in 1..Len(c) /\ c[LineEnd(c)] \in Lines /\ Len(c) \in Nat
        BY <2>2, <2>4, FirstLine, LenProperties
      <3>2. LineEnd(c) \notin 1..Len(b)
        BY <2>1, <2>2, <3>1 DEF HasLine
      <3> QED
        BY <2>2, <2>3, <3>1, <3>2
    <2> QED
      BY <1>2, <2>1, <2>4 DEF LeftoverInv, Live, AtLine, b, c
  <1>3. CASE ReadFails \/ Exit("invalid_chunked_body")
    BY <1>1, <1>3 DEF ReadFails, Errors
  <1> QED
    BY <1>2, <1>3 DEF FillLine

\* A line is taken out of the buffer.
LEMMA LineLeavesSmall ==
  ASSUME TypeOK, LeftoverInv, SizeLine \/ Terminator \/ Trailer
  PROVE  LeftoverInv'
  <1>1. /\ AtLine /\ Live /\ HasLine(buffer) /\ result = "none"
        /\ buffer \in Seq(Units) /\ Len(buffer) \in Nat /\ ReadSize \in Nat
        /\ Len(buffer) < LineEnd(buffer) + ReadSize
    BY LenProperties, Limits
    DEF SizeLine, Terminator, Trailer, AtLine, Live, TypeOK, LeftoverInv
  <1> DEFINE b == buffer
             l == LineEnd(b)
             r == Rest(b, l)
  <1>2. /\ l \in 1..Len(b) /\ b[l] \in Lines
        /\ b[l] \notin {"end", "blank"} => AfterLine(b) = r
        /\ b[l] \in {"end", "blank"} => AfterLine(b) = <<"crlf">> \o r
    BY <1>1, FirstLine
  <1>3. l \in 0..Len(b)
    BY <1>2
  <1>4. r \in Seq(Units) /\ Len(r) = Len(b) - l
    BY <1>1, <1>3, RestUnits
  <1>5. Len(r) \in Nat /\ Len(r) < ReadSize
    BY <1>1, <1>2, <1>4
  <1>6. CASE \E u \in {"last", "size", "crlf"} :
                LineOf(buffer) = <<u>> /\ (\E state \in States : TakeLine(state))
    <2>1. AfterLine(b) = r
      BY <1>1, <1>2, <1>6, LineOfOne
    <2>2. buffer' = r /\ UNCHANGED result
      BY <1>6, <2>1 DEF TakeLine, GoTo
    <2> HIDE DEF b, l, r
    <2> QED
      BY <1>1, <1>4, <1>5, <2>2, SmallIsEnough
  <1>7. CASE /\ LineOf(buffer) = <<"size">>
             /\ BeginDiscard(AfterLine(buffer), ChunkUnits, "terminator")
    <2>1. AfterLine(b) = r
      BY <1>1, <1>2, <1>7, LineOfOne
    <2>2. BeginDiscard(r, ChunkUnits, "terminator") /\ UNCHANGED result
      BY <1>7, <2>1 DEF BeginDiscard, GoTo
    <2>3. ChunkUnits \in Nat /\ Buffered(ChunkUnits, r) \in Nat
      BY <1>5, Limits, MinPair DEF Buffered
    <2> HIDE DEF b, l, r
    <2>4. Len(buffer') <= Len(r)
      BY <1>4, <2>2, <2>3, BeginDiscardShrinks
    <2>5. buffer' \in Seq(Units) /\ Len(buffer') \in Nat
      BY <1>4, <2>2, <2>3, RestType, LenProperties DEF BeginDiscard
    <2>6. Len(buffer') < ReadSize
      BY <1>1, <1>5, <2>4, <2>5
    <2> QED
      BY <1>1, <2>2, <2>5, <2>6, SmallIsEnough
  <1>8. CASE TakeLine("trailer") /\ pc' = "trailer"
    <2>1. buffer' = AfterLine(b) /\ UNCHANGED result
      BY <1>8 DEF TakeLine, GoTo
    <2>2. <<"crlf">> \in Seq(Units) /\ Len(<<"crlf">>) = 1
      BY DEF Units
    <2> HIDE DEF r
    <2>3. <<"crlf">> \o r \in Seq(Units) /\ Len(<<"crlf">> \o r) = 1 + Len(r)
      BY <1>4, <2>2, UnitsCat
    <2>4. buffer' \in Seq(Units) /\ Len(buffer') \in {Len(r), 1 + Len(r)}
      BY <1>2, <1>4, <2>1, <2>3, ZenonT(40)
    <2> DEFINE c == buffer'
    <2>5. c \in Seq(Units) /\ Len(c) \in Nat /\ Len(c) <= ReadSize
      BY <1>1, <1>5, <2>4
    <2> HIDE DEF c
    <2>6. ASSUME HasLine(c) PROVE Len(c) < LineEnd(c) + ReadSize
      <3>1. LineEnd(c) \in 1..Len(c)
        BY <2>5, <2>6, FirstLine
      <3> QED
        BY <1>1, <2>5, <3>1
    <2> QED
      BY <1>1, <1>8, <2>1, <2>6 DEF LeftoverInv, Live, AtLine, c
  <1>9. CASE Exit("invalid_chunked_body")
    BY <1>9, FailureLeavesNothing
  <1> QED
    BY <1>6, <1>7, <1>8, <1>9
    DEF SizeLine, Terminator, Trailer, TakeLine, GoTo, States, Awaits

\* Every step leaves less than one read beyond what it looked for.
LEMMA LeftoverNext ==
  ASSUME TypeOK, TypeOK', LeftoverInv, LineReadSize <= ReadSize, [Next]_vars
  PROVE  LeftoverInv'
  <1>1. /\ buffer \in Seq(Units) /\ Len(buffer) \in Nat
        /\ buffer' \in Seq(Units) /\ Len(buffer') \in Nat
    BY LenProperties DEF TypeOK
  <1>2. CASE Connect
    <2>1. buffer' = <<>> /\ Len(<<>>) = 0 /\ UNCHANGED result /\ Live
      BY <1>2, EmptySeq DEF Connect, GoTo, Live
    <2> QED
      BY <1>1, <2>1, Limits, SmallIsEnough DEF LeftoverInv
  <1>3. CASE FillHead
    BY <1>3, FillHeadLeavesSmall
  <1>4. CASE TakeHead
    <2>1. /\ buffer' = Rest(buffer, FindHeaderEnd(buffer)) /\ HasHeaderEnd(buffer)
      BY <1>4 DEF TakeHead, AfterHead
    <2>2. FindHeaderEnd(buffer) \in 1..Len(buffer)
      BY <1>1, <2>1, <1>4, HeaderEndFirst, SMTT(40) DEF TakeHead
    <2>3. Len(buffer') = Len(buffer) - FindHeaderEnd(buffer)
      BY <1>1, <1>4, <2>2, RestUnits DEF TakeHead, AfterHead
    <2>4. Len(buffer) < FindHeaderEnd(buffer) + ReadSize /\ result = "none"
      BY <1>4 DEF TakeHead, LeftoverInv, Live
    <2>5. Len(buffer') < ReadSize
      BY <1>1, <2>2, <2>3, <2>4, Limits
    <2>6. Live' => result' = "none"
      BY <1>4, <2>4 DEF TakeHead, Live
    <2> QED
      BY <1>1, <2>5, <2>6, SmallIsEnough
  <1>5. CASE Round
    <2>1. Live /\ pc # "read_head" /\ ~AtLine
      BY <1>5 DEF Round, Live, AtLine
    <2>2. UNCHANGED result \/ pc' = "unwind"
      BY <1>5 DEF Round, ClosedDuringAuth, Drain, BeginDiscard, Exit, GoTo
    <2>3. Len(buffer') <= Len(buffer)
      <3>1. CASE UNCHANGED buffer
        BY <1>1, <3>1
      <3>2. CASE ~UNCHANGED buffer
        <4>1. /\ BodyFraming(response) = "length"
              /\ BeginDiscard(buffer, response.lengths[1], "step")
          BY <1>5, <3>2 DEF Round, ClosedDuringAuth, Drain, Exit, KeepData
        <4>2. response.lengths[1] \in Nat
          BY <4>1, ResponseType, LengthType
        <4> QED
          BY <1>1, <4>1, <4>2, BeginDiscardShrinks, SMTT(40)
      <3> QED
        BY <3>1, <3>2
    <2> QED
      BY <1>1, <2>1, <2>2, <2>3, StaysSmall
  <1>6. CASE DrainChunked
    <2>1. CASE \E state \in {"size_line", "terminator", "trailer"},
                  limit \in {1, LineLimit} : FillLine(state, limit)
      BY <2>1, FillLineLeavesSmall
    <2> QED
      BY <1>6, <2>1, LineLeavesSmall DEF DrainChunked
  <1>7. CASE ConnectFails \/ SendFails \/ Cancelled
    BY <1>7, FailureLeavesNothing DEF ConnectFails, SendFails, Cancelled
  <1>8. CASE Send \/ First \/ Following \/ Step \/ Discard
    <2>1. /\ Live /\ pc # "read_head" /\ ~AtLine
      BY <1>8 DEF Send, First, Following, Step, Discard, Live, AtLine
    <2>2. UNCHANGED buffer /\ (UNCHANGED result \/ pc' = "unwind")
      BY <1>8, ZenonT(40)
      DEF Send, First, FirstChallenged, CreateFails, Following, NextChallenged,
          NextUnchallenged, Discard, ReadFails, Step, Exit, GoTo, KeepData
    <2> QED
      BY <1>1, <2>1, <2>2, StaysSmall
  <1>9. CASE Unwind
    BY <1>9 DEF Unwind, LeftoverInv, Live, AtLine, Small
  <1>10. CASE UpstreamReplies \/ UpstreamCloses \/ Done \/ UNCHANGED vars
    <2>1. UNCHANGED <<pc, result, buffer>>
      BY <1>10 DEF UpstreamReplies, UpstreamCloses, UpstreamUnchanged, Done, vars
    <2> QED
      BY <2>1 DEF LeftoverInv, Live, AtLine, Small
  <1> QED
    BY <1>2, <1>3, <1>4, <1>5, <1>6, <1>7, <1>8, <1>9, <1>10 DEF Next, Task

\* What a successful exchange has read beyond the head is less than one read,
\* if read_line reads no more at once than read_response_head does (1024 and
\* 8192 bytes): for any responses, and with all that earlier rounds left in the
\* buffer.
THEOREM LessThanOneReadIsLeft ==
  LineReadSize <= ReadSize => (Spec => []PrefetchBelowRead)
  <1> SUFFICES ASSUME LineReadSize <= ReadSize PROVE Spec => []PrefetchBelowRead
    OBVIOUS
  <1>1. Init => LeftoverInv
    <2> SUFFICES ASSUME Init PROVE LeftoverInv
      OBVIOUS
    <2>1. Len(buffer) = 0 /\ pc = "connect" /\ result = "none"
      BY EmptySeq DEF Init
    <2> QED
      BY <2>1, Limits DEF LeftoverInv, Live, AtLine, Small
  <1>2. IInv /\ IInv' /\ LeftoverInv /\ [Next]_vars => LeftoverInv'
    BY LeftoverNext DEF IInv
  <1>3. LeftoverInv => PrefetchBelowRead
    BY DEF LeftoverInv, PrefetchBelowRead, Small
  <1> QED
    BY Invariance, <1>1, <1>2, <1>3, PTL DEF Spec

(***************************************************************************)
(* The pieces of a response                                                *)
(***************************************************************************)

\* The buffer b and then the wire w hold what of s comes after its first c
\* units: all of it, unless the connection has failed.
Part(b, w, p, s, c) ==
    /\ c + Len(b) + Len(w) <= Len(s)
    /\ p # "rst" => c + Len(b) + Len(w) = Len(s)
    /\ \A i \in 1..Len(b) : b[i] = s[c + i]
    /\ \A i \in 1..Len(w) : w[i] = s[c + Len(b) + i]

\* A response that has just arrived.
LEMMA PartNew ==
  ASSUME NEW s \in Seq(Units), NEW p
  PROVE  Part(<<>>, s, p, s, 0)
  <1>1. Len(<<>>) = 0 /\ Len(s) \in Nat
    BY EmptySeq, LenProperties
  <1> QED
    BY <1>1 DEF Part

\* A read takes units from the wire to the buffer.
LEMMA ReadKeepsPart ==
  ASSUME TypeOK, NEW wanted \in Nat, NEW n, ReadSome(wanted, n),
         buffer' = buffer \o Front(wire, n),
         NEW s \in Seq(Units), NEW c \in Nat, Part(buffer, wire, peer, s, c)
  PROVE  /\ Part(buffer', wire', peer', s, c)
         /\ n \in Nat /\ 1 <= n /\ n <= wanted /\ n <= Len(wire)
         /\ Len(buffer') = Len(buffer) + n
  <1> DEFINE b == buffer
             w == wire
             bb == buffer'
             ww == wire'
             p == peer
  <1>a. /\ n \in Nat /\ 1 <= n /\ n <= wanted /\ n <= Len(w)
        /\ Len(b) \in Nat /\ Len(w) \in Nat
        /\ Len(bb) = Len(b) + n /\ Len(ww) = Len(w) - n
        /\ \A i \in 1..Len(b) : bb[i] = b[i]
        /\ \A i \in 1..n : bb[Len(b) + i] = w[i]
        /\ \A i \in 1..(Len(w) - n) : ww[i] = w[n + i]
        /\ bb \in Seq(Units) /\ ww \in Seq(Units)
    <2>1. buffer' = buffer \o Front(wire, n) /\ ReadMoved(wanted, n)
      BY ReadMoves, ZenonT(40)
    <2>2. /\ n \in Nat /\ 1 <= n /\ n <= wanted /\ n <= Len(wire)
          /\ Len(wire) \in Nat /\ Len(buffer) \in Nat
          /\ wire' \in Seq(Units) /\ Len(wire') = Len(wire) - n
          /\ \A i \in 1..(Len(wire) - n) : wire'[i] = wire[n + i]
      BY <2>1, ZenonT(40) DEF ReadMoved
    <2>3. /\ buffer' \in Seq(Units) /\ Len(buffer') = Len(buffer) + n
          /\ \A i \in 1..Len(buffer) : buffer'[i] = buffer[i]
          /\ \A i \in 1..n : buffer'[Len(buffer) + i] = wire[i]
      BY <2>1, ZenonT(40) DEF ReadMoved
    <2> QED
      BY <2>2, <2>3, ZenonT(40)
  <1>b. Part(b, w, p, s, c) /\ peer' = p
    BY DEF ReadSome
  <1> HIDE DEF b, w, bb, ww, p
  <1>1. /\ Len(b) \in Nat /\ Len(w) \in Nat /\ Len(s) \in Nat /\ n \in Nat
        /\ Len(bb) = Len(b) + n /\ Len(ww) = Len(w) - n
    BY <1>a, LenProperties
  <1>2. \A i \in 1..Len(bb) : bb[i] = s[c + i]
    <2> SUFFICES ASSUME NEW i \in 1..Len(bb) PROVE bb[i] = s[c + i]
      OBVIOUS
    <2>1. CASE i \in 1..Len(b)
      BY <1>a, <1>b, <2>1 DEF Part
    <2>2. CASE i \notin 1..Len(b)
      <3> DEFINE j == i - Len(b)
      <3>1. j \in 1..n /\ i = Len(b) + j /\ j \in 1..Len(w)
        BY <1>1, <1>a, <2>2
      <3>2. w[j] = s[c + Len(b) + j]
        BY <1>b, <3>1 DEF Part
      <3>3. bb[Len(b) + j] = w[j]
        BY <1>a, <3>1
      <3>4. c + Len(b) + j = c + i
        BY <1>1
      <3> QED
        BY <3>1, <3>2, <3>3, <3>4
    <2> QED
      BY <2>1, <2>2
  <1>3. \A i \in 1..Len(ww) : ww[i] = s[c + Len(bb) + i]
    <2> SUFFICES ASSUME NEW i \in 1..Len(ww) PROVE ww[i] = s[c + Len(bb) + i]
      OBVIOUS
    <2>1. /\ n + i \in 1..Len(w) /\ i \in 1..(Len(w) - n)
          /\ c + Len(b) + (n + i) = c + Len(bb) + i
      BY <1>1
    <2>2. w[n + i] = s[c + Len(b) + (n + i)]
      BY <1>b, <2>1, ZenonT(40) DEF Part
    <2>3. ww[i] = w[n + i]
      BY <1>a, <2>1, ZenonT(40)
    <2> QED
      BY <2>1, <2>2, <2>3, ZenonT(40)
  <1>4. c + Len(bb) + Len(ww) = c + Len(b) + Len(w)
    BY <1>1, <1>a
  <1>5. Part(bb, ww, p, s, c)
    BY <1>b, <1>2, <1>3, <1>4 DEF Part
  <1> QED
    BY <1>a, <1>b, <1>5 DEF b, w, bb, ww, p

\* Units are dropped from the buffer.
LEMMA PartDrop ==
  ASSUME NEW b \in Seq(Units), NEW w \in Seq(Units), NEW p, NEW s \in Seq(Units),
         NEW c \in Nat, Part(b, w, p, s, c), NEW n \in 0..Len(b)
  PROVE  /\ Part(Rest(b, n), w, p, s, c + n)
         /\ c + n \in Nat /\ c + n <= Len(s) /\ Rest(b, n) \in Seq(Units)
         /\ Len(Rest(b, n)) = Len(b) - n
  <1> DEFINE r == Rest(b, n)
  <1>1. Len(b) \in Nat /\ Len(w) \in Nat /\ Len(s) \in Nat /\ n \in Nat
    BY LenProperties
  <1>2. /\ r \in Seq(Units) /\ Len(r) = Len(b) - n
        /\ \A i \in 1..(Len(b) - n) : r[i] = b[n + i]
    BY RestUnits, ZenonT(40)
  <1> HIDE DEF r
  <1>3. \A i \in 1..Len(r) : r[i] = s[c + n + i]
    <2> SUFFICES ASSUME NEW i \in 1..Len(r) PROVE r[i] = s[c + n + i]
      OBVIOUS
    <2>1. n + i \in 1..Len(b) /\ i \in 1..(Len(b) - n) /\ c + (n + i) = c + n + i
      BY <1>1, <1>2
    <2>2. b[n + i] = s[c + (n + i)]
      BY <2>1 DEF Part
    <2>3. r[i] = b[n + i]
      BY <1>2, <2>1, ZenonT(40)
    <2> QED
      BY <2>1, <2>2, <2>3, ZenonT(40)
  <1>4. c + n + Len(r) = c + Len(b) /\ c + n \in Nat
    BY <1>1, <1>2
  <1>5. Part(r, w, p, s, c + n)
    BY <1>3, <1>4, SMTT(40) DEF Part
  <1>6. c + n <= Len(s)
    BY <1>1 DEF Part
  <1> QED
    BY <1>2, <1>4, <1>5, <1>6 DEF r

\* Units are dropped from the wire, with nothing in the buffer.
LEMMA ReadSkipsPart ==
  ASSUME TypeOK, NEW wanted \in Nat, NEW n, ReadSome(wanted, n),
         NEW s \in Seq(Units), NEW c \in Nat, Part(<<>>, wire, peer, s, c)
  PROVE  /\ Part(<<>>, wire', peer', s, c + n)
         /\ n \in Nat /\ 1 <= n /\ n <= wanted
         /\ c + n \in Nat /\ c + n <= Len(s)
  <1> DEFINE w == wire
             ww == wire'
             p == peer
  <1>a. /\ n \in Nat /\ 1 <= n /\ n <= wanted /\ n <= Len(w) /\ Len(w) \in Nat
        /\ ww \in Seq(Units) /\ Len(ww) = Len(w) - n
        /\ \A i \in 1..(Len(w) - n) : ww[i] = w[n + i]
    <2>1. ReadMoved(wanted, n)
      BY ReadMoves, ZenonT(40)
    <2> QED
      BY <2>1, ZenonT(40) DEF ReadMoved
  <1>b. Part(<<>>, w, p, s, c) /\ peer' = p
    BY DEF ReadSome
  <1> HIDE DEF w, ww, p
  <1>1. Len(w) \in Nat /\ Len(s) \in Nat /\ n \in Nat /\ Len(<<>>) = 0
    BY <1>a, LenProperties, EmptySeq
  <1>2. \A i \in 1..Len(ww) : ww[i] = s[c + n + Len(<<>>) + i]
    <2> SUFFICES ASSUME NEW i \in 1..Len(ww) PROVE ww[i] = s[c + n + Len(<<>>) + i]
      OBVIOUS
    <2>1. n + i \in 1..Len(w) /\ i \in 1..(Len(w) - n)
      BY <1>1, <1>a
    <2>2. w[n + i] = s[c + Len(<<>>) + (n + i)] /\ ww[i] = w[n + i]
      BY <1>a, <1>b, <2>1 DEF Part
    <2>3. c + Len(<<>>) + (n + i) = c + n + Len(<<>>) + i
      BY <1>1
    <2> QED
      BY <2>2, <2>3
  <1>3. \A i \in 1..Len(<<>>) : <<>>[i] = s[c + n + i]
    BY <1>1
  <1>4. c + n + Len(<<>>) + Len(ww) = c + Len(<<>>) + Len(w)
    BY <1>1, <1>a
  <1>5. c + n \in Nat /\ c + n <= Len(s)
    BY <1>1, <1>a, <1>b DEF Part
  <1>6. Part(<<>>, ww, p, s, c + n)
    BY <1>b, <1>2, <1>3, <1>4 DEF Part
  <1> QED
    BY <1>a, <1>b, <1>5, <1>6 DEF w, ww, p

\* The connection ends, or fails and takes what was not read with it.
LEMMA PartCloses ==
  ASSUME NEW b \in Seq(Units), NEW w \in Seq(Units), NEW p, NEW s \in Seq(Units),
         NEW c \in Nat, Part(b, w, p, s, c), p # "rst"
  PROVE  Part(b, w, "fin", s, c) /\ Part(b, <<>>, "rst", s, c)
  <1>1. /\ Len(b) \in Nat /\ Len(w) \in Nat /\ Len(s) \in Nat /\ Len(<<>>) = 0
    BY LenProperties, EmptySeq
  <1>2. c + Len(b) + Len(<<>>) <= Len(s)
    BY <1>1 DEF Part
  <1> QED
    BY <1>1, <1>2 DEF Part

\* Nothing comes after the end.
LEMMA PartEnd ==
  ASSUME NEW b \in Seq(Units), NEW w \in Seq(Units), NEW p, NEW s \in Seq(Units),
         Part(b, w, p, s, Len(s))
  PROVE  b = <<>> /\ w = <<>>
  <1>1. Len(b) \in Nat /\ Len(w) \in Nat /\ Len(s) \in Nat
    BY LenProperties
  <1>2. Len(b) = 0 /\ Len(w) = 0
    BY <1>1 DEF Part
  <1> QED
    BY <1>2, EmptySeq

\* All of a sequence.
LEMMA PartWhole ==
  ASSUME NEW b \in Seq(Units), NEW w \in Seq(Units), NEW p, NEW s \in Seq(Units),
         Part(b, w, p, s, 0), p # "rst"
  PROVE  b \o w = s
  <1>1. Len(b) \in Nat /\ Len(w) \in Nat /\ Len(s) \in Nat
    BY LenProperties
  <1> DEFINE x == b \o w
  <1>2. /\ x \in Seq(Units) /\ Len(x) = Len(b) + Len(w)
        /\ \A i \in 1..Len(b) : x[i] = b[i]
        /\ \A i \in 1..Len(w) : x[Len(b) + i] = w[i]
    BY UnitsCat
  <1> HIDE DEF x
  <1>3. Len(x) = Len(s)
    BY <1>1, <1>2 DEF Part
  <1>4. \A i \in 1..Len(x) : x[i] = s[i]
    <2> SUFFICES ASSUME NEW i \in 1..Len(x) PROVE x[i] = s[i]
      OBVIOUS
    <2>1. CASE i \in 1..Len(b)
      <3>1. b[i] = s[0 + i] /\ 0 + i = i
        BY <2>1 DEF Part
      <3> QED
        BY <1>2, <2>1, <3>1
    <2>2. CASE i \notin 1..Len(b)
      <3> DEFINE j == i - Len(b)
      <3>1. j \in 1..Len(w) /\ Len(b) + j = i /\ 0 + Len(b) + j = i
        BY <1>1, <1>2, <2>2
      <3>2. w[j] = s[0 + Len(b) + j] /\ x[Len(b) + j] = w[j]
        BY <1>2, <3>1, ZenonT(40) DEF Part
      <3> QED
        BY <3>1, <3>2
    <2> QED
      BY <2>1, <2>2
  <1>5. x = s
    BY <1>2, <1>3, <1>4, SeqEqual
  <1> QED
    BY <1>5 DEF x

\* The head is taken: what is left is part of the body.
LEMMA PartHead ==
  ASSUME NEW b \in Seq(Units), NEW w \in Seq(Units), NEW p,
         NEW h \in Seq(Units), NEW y \in Seq(Units),
         Part(b, w, p, h \o y, 0), Len(h) <= Len(b)
  PROVE  Part(Rest(b, Len(h)), w, p, y, 0)
  <1> DEFINE s == h \o y
             n == Len(h)
             r == Rest(b, n)
  <1>1. Len(b) \in Nat /\ Len(w) \in Nat /\ Len(y) \in Nat /\ n \in Nat /\ n \in 0..Len(b)
    BY LenProperties
  <1>2. /\ s \in Seq(Units) /\ Len(s) = n + Len(y)
        /\ \A i \in 1..Len(y) : s[n + i] = y[i]
    BY UnitsCat
  <1>3. /\ r \in Seq(Units) /\ Len(r) = Len(b) - n
        /\ \A i \in 1..(Len(b) - n) : r[i] = b[n + i]
    BY <1>1, RestUnits, ZenonT(40)
  <1>4. Part(b, w, p, s, 0)
    OBVIOUS
  <1> HIDE DEF s, n, r
  <1>5. Len(b) + Len(w) <= n + Len(y)
    BY <1>1, <1>2, <1>4 DEF Part
  <1>6. \A i \in 1..Len(r) : r[i] = y[0 + i]
    <2> SUFFICES ASSUME NEW i \in 1..Len(r) PROVE r[i] = y[0 + i]
      OBVIOUS
    <2>1. /\ n + i \in 1..Len(b) /\ i \in 1..(Len(b) - n) /\ i \in 1..Len(y)
          /\ 0 + (n + i) = n + i /\ 0 + i = i
      BY <1>1, <1>3, <1>5, SMTT(40)
    <2>2. b[n + i] = s[0 + (n + i)] /\ s[n + i] = y[i] /\ r[i] = b[n + i]
      BY <1>2, <1>3, <1>4, <2>1 DEF Part
    <2> QED
      BY <2>1, <2>2
  <1>7. \A i \in 1..Len(w) : w[i] = y[0 + Len(r) + i]
    <2> SUFFICES ASSUME NEW i \in 1..Len(w) PROVE w[i] = y[0 + Len(r) + i]
      OBVIOUS
    <2> DEFINE j == Len(r) + i
    <2>1. /\ j \in 1..Len(y) /\ 0 + Len(b) + i = n + j /\ 0 + Len(r) + i = j
      BY <1>1, <1>3, <1>5, SMTT(40)
    <2>2. w[i] = s[0 + Len(b) + i]
      BY <1>4, ZenonT(40) DEF Part
    <2>3. s[n + j] = y[j]
      BY <1>2, <2>1, ZenonT(40)
    <2> QED
      BY <2>1, <2>2, <2>3, ZenonT(40)
  <1>8. 0 + Len(r) + Len(w) <= Len(y)
    BY <1>1, <1>3, <1>5
  <1>9. p # "rst" => 0 + Len(r) + Len(w) = Len(y)
    <2> SUFFICES ASSUME p # "rst" PROVE 0 + Len(r) + Len(w) = Len(y)
      OBVIOUS
    <2>1. 0 + Len(b) + Len(w) = n + Len(y)
      BY <1>2, <1>4 DEF Part
    <2> QED
      BY <1>1, <1>3, <2>1
  <1>10. Part(r, w, p, y, 0)
    BY <1>6, <1>7, <1>8, <1>9 DEF Part
  <1> QED
    BY <1>10 DEF r, n

(***************************************************************************)
(* Where a chunked body is                                                 *)
(***************************************************************************)

\* The places of a chunked body.
Places == {"size", "chunk", "after", "trailer", "over", "bad"} \X Int

\* What the units do, place by place.
LEMMA UnitSteps ==
  /\ AfterUnit(<<"size", 0>>, "size") = <<"chunk", ChunkUnits>>
  /\ AfterUnit(<<"size", 0>>, "last") = <<"trailer", 0>>
  /\ AfterUnit(<<"after", 0>>, "crlf") = <<"size", 0>>
  /\ \A u : AfterUnit(<<"chunk", 1>>, u) = <<"after", 0>>
  /\ \A u, n : n # 1 => AfterUnit(<<"chunk", n>>, u) = <<"chunk", n - 1>>
  /\ \A n : AfterUnit(<<"trailer", n>>, "dat") = <<"trailer", 1>>
  /\ \A n, u : u \in {"end", "blank"} => AfterUnit(<<"trailer", n>>, u) = <<"over", 0>>
  /\ AfterUnit(<<"trailer", 0>>, "crlf") = <<"over", 0>>
  /\ AfterUnit(<<"trailer", 1>>, "crlf") = <<"trailer", 0>>
  /\ \A n, u : u \notin {"end", "blank", "crlf", "dat"} =>
        AfterUnit(<<"trailer", n>>, u) = <<"trailer", 0>>
  BY DEF AfterUnit

\* They lead from place to place.
LEMMA UnitsStayInPlaces ==
  ASSUME NEW q \in Places, NEW u
  PROVE  AfterUnit(q, u) \in Places
  <1>1. ChunkUnits \in Int
    BY Limits
  <1>2. q = <<q[1], q[2]>> /\ q[2] \in Int
        /\ q[1] \in {"size", "chunk", "after", "trailer", "over", "bad"}
    BY DEF Places
  <1>3. q[2] - 1 \in Int
    BY <1>2
  <1> DEFINE names == {"size", "chunk", "after", "trailer", "over", "bad"}
  <1>4. \A a \in names, n \in Int : <<a, n>> \in Places
    BY DEF Places
  <1>5. CASE q = <<"size", 0>>
    BY <1>1, <1>4, <1>5 DEF AfterUnit
  <1>6. CASE q[1] = "chunk"
    BY <1>2, <1>3, <1>4, <1>6 DEF AfterUnit
  <1>7. CASE q = <<"after", 0>>
    BY <1>4, <1>7 DEF AfterUnit
  <1>8. CASE q[1] = "trailer"
    BY <1>2, <1>4, <1>8 DEF AfterUnit
  <1>9. CASE /\ q # <<"size", 0>> /\ q[1] # "chunk" /\ q # <<"after", 0>>
             /\ q[1] # "trailer"
    BY <1>9 DEF AfterUnit
  <1> QED
    BY <1>5, <1>6, <1>7, <1>8, <1>9

\* ChunkPlaces goes from unit to unit.
LEMMA PlacesFollow ==
  ASSUME NEW b \in Seq(Units)
  PROVE  /\ ChunkPlaces(b)[0] = <<"size", 0>>
         /\ \A i \in 1..Len(b) :
               ChunkPlaces(b)[i] = AfterUnit(ChunkPlaces(b)[i - 1], b[i])
  <1> DEFINE n == Len(b)
             base == <<"size", 0>>
             Go(q, i) == AfterUnit(q, b[i])
             step == [i \in 1..n |-> [q \in Places |-> Go(q, i)]]
             Body(f) == [i \in 0..n |-> IF i = 0 THEN base ELSE Go(f[i - 1], i)]
             at == CHOOSE f : f = Body(f)
  <1>1. n \in Nat
    BY LenProperties
  <1>2. base \in Places
    BY DEF Places
  <1>3. step \in [1..n -> [Places -> Places]]
    BY UnitsStayInPlaces
  <1>4. \A i \in 1..n, q \in Places : step[i][q] = Go(q, i)
    OBVIOUS
  <1> HIDE DEF n, base, Go, step
  <1>5. PICK g : Recursion(g, Places, base, step, n)
    BY <1>1, <1>2, <1>3, RecursionExists
  <1>6. /\ g \in [0..n -> Places] /\ g[0] = base
        /\ \A i \in 1..n : g[i] = step[i][g[i - 1]] /\ g[i - 1] \in Places
    BY <1>1, <1>5 DEF Recursion
  <1>7. \A i \in 1..n : g[i] = Go(g[i - 1], i)
    BY <1>4, <1>6
  <1>8. g = Body(g)
    BY <1>1, <1>6, <1>7
  <1>9. at = Body(at)
    BY <1>8, ZenonT(40)
  <1>10. ChunkPlaces(b) = at
    BY DEF ChunkPlaces, n, base, Go
  <1> HIDE DEF at
  <1>11. at[0] = base /\ \A i \in 1..n : at[i] = Go(at[i - 1], i)
    BY <1>1, <1>9
  <1> QED
    BY <1>10, <1>11 DEF n, base, Go

\* One unit further.
LEMMA PlaceAfter ==
  ASSUME NEW b \in Seq(Units), NEW c \in Nat, c < Len(b)
  PROVE  ChunkPlaces(b)[c + 1] = AfterUnit(ChunkPlaces(b)[c], b[c + 1])
  <1> DEFINE i == c + 1
  <1>1. i \in 1..Len(b) /\ i - 1 = c
    BY LenProperties
  <1>2. ChunkPlaces(b)[i] = AfterUnit(ChunkPlaces(b)[i - 1], b[i])
    BY <1>1, PlacesFollow
  <1> QED
    BY <1>1, <1>2

\* A chunk of k units is entered at c, and n units further on.
CountedDown(b, c, k, n) ==
    ChunkPlaces(b)[c + n] = IF n = k THEN <<"after", 0>> ELSE <<"chunk", k - n>>

\* The units of a chunk are counted down.
LEMMA ChunkCounts ==
  ASSUME NEW b \in Seq(Units), NEW c \in Nat, NEW k \in Nat, NEW n \in 0..k,
         c + n <= Len(b), ChunkPlaces(b)[c] = <<"chunk", k>>, 0 < k
  PROVE  CountedDown(b, c, k, n)
  <1> DEFINE at == ChunkPlaces(b)
             Due(m) == IF m = k THEN <<"after", 0>> ELSE <<"chunk", k - m>>
             M == {m \in 0..n : at[c + m] # Due(m)}
  <1>1. Len(b) \in Nat /\ n \in Nat /\ n <= k
    BY LenProperties
  <1> SUFFICES ASSUME M # {} PROVE FALSE
    <2>1. n \in 0..n
      BY <1>1
    <2> QED
      BY <2>1, ZenonT(40) DEF CountedDown
  <1>2. M \subseteq Nat
    OBVIOUS
  <1>3. PICK m \in M : \A y \in M : m <= y
    BY <1>2, Least, ZenonT(40)
  <1>4. m \in 0..n /\ at[c + m] # Due(m)
    OBVIOUS
  <1>5. m # 0
    <2>1. c + 0 = c /\ k # 0 /\ k - 0 = k
      OBVIOUS
    <2>2. at[c + 0] = Due(0)
      BY <2>1, ZenonT(40)
    <2> QED
      BY <1>4, <2>2
  <1> DEFINE j == m - 1
  <1>6. /\ j \in 0..n /\ ~(m <= j) /\ m = j + 1 /\ j \in Nat /\ j # k
        /\ c + j \in Nat /\ c + j < Len(b) /\ c + j + 1 = c + m
    BY <1>1, <1>4, <1>5
  <1>7. at[c + j] = Due(j)
    BY <1>3, <1>6, ZenonT(40)
  <1> HIDE DEF M, j
  <1>8. at[c + j] = <<"chunk", k - j>>
    BY <1>6, <1>7
  <1>9. at[c + j + 1] = AfterUnit(at[c + j], b[c + j + 1])
    BY <1>6, PlaceAfter
  <1> HIDE DEF at
  <1>10. at[c + m] = AfterUnit(<<"chunk", k - j>>, b[c + j + 1])
    BY <1>6, <1>8, <1>9
  <1>11. CASE k - j = 1
    <2>1. m = k
      BY <1>1, <1>6, <1>11
    <2>2. at[c + m] = <<"after", 0>>
      BY <1>10, <1>11, UnitSteps, ZenonT(40)
    <2> QED
      BY <1>4, <2>1, <2>2
  <1>12. CASE k - j # 1
    <2>1. m # k /\ k - j - 1 = k - m
      BY <1>1, <1>4, <1>6, <1>12, SMTT(40)
    <2>2. at[c + m] = <<"chunk", k - j - 1>>
      BY <1>10, <1>12, UnitSteps
    <2> QED
      BY <1>4, <2>1, <2>2
  <1> QED
    BY <1>11, <1>12

\* A trailer line goes on up to its CRLF.
LEMMA TrailerGoesOn ==
  ASSUME NEW b \in Seq(Units), NEW c \in Nat, NEW l \in Nat, 0 < l,
         c + l <= Len(b), ChunkPlaces(b)[c] = <<"trailer", 0>>,
         \A i \in 1..(l - 1) : b[c + i] = "dat"
  PROVE  ChunkPlaces(b)[c + l - 1] = <<"trailer", IF l = 1 THEN 0 ELSE 1>>
  <1> DEFINE at == ChunkPlaces(b)
             M == {m \in 1..(l - 1) : at[c + m] # <<"trailer", 1>>}
  <1>1. Len(b) \in Nat
    BY LenProperties
  <1>2. CASE l = 1
    BY <1>2
  <1>3. CASE l # 1
    <2> SUFFICES ASSUME M # {} PROVE FALSE
      <3>1. l - 1 \in 1..(l - 1) /\ c + (l - 1) = c + l - 1
        BY <1>3
      <3> QED
        BY <1>3, <3>1, ZenonT(40)
    <2>1. M \subseteq Nat
      OBVIOUS
    <2>2. PICK m \in M : \A y \in M : m <= y
      BY <2>1, Least, ZenonT(40)
    <2>3. m \in 1..(l - 1) /\ at[c + m] # <<"trailer", 1>>
      OBVIOUS
    <2> DEFINE j == m - 1
    <2>4. /\ j \in Nat /\ ~(m <= j) /\ (j # 0 => j \in 1..(l - 1))
          /\ c + j \in Nat /\ c + j < Len(b) /\ c + j + 1 = c + m
      BY <1>1, <2>3
    <2>5. j # 0 => at[c + j] = <<"trailer", 1>>
      BY <2>2, <2>4, SMTT(40)
    <2> HIDE DEF M, j
    <2>6. \E n : at[c + j] = <<"trailer", n>>
      <3>1. CASE j = 0
        <4>1. c + j = c
          BY <3>1
        <4> QED
          BY <4>1
      <3>2. CASE j # 0
        BY <2>5, <3>2
      <3> QED
        BY <3>1, <3>2
    <2>7. at[c + j + 1] = AfterUnit(at[c + j], b[c + j + 1])
      BY <2>4, PlaceAfter
    <2>8. b[c + j + 1] = "dat"
      BY <2>3, <2>4, ZenonT(40)
    <2> HIDE DEF at
    <2>9. at[c + m] = <<"trailer", 1>>
      BY <2>4, <2>6, <2>7, <2>8, UnitSteps, ZenonT(40)
    <2> QED
      BY <2>3, <2>9
  <1> QED
    BY <1>2, <1>3

=============================================================================
