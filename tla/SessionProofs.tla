--------------------------- MODULE SessionProofs ---------------------------
(***************************************************************************)
(* Proofs about one client's session, for any requests, resolver answers,  *)
(* limits and reads: handle_client implements SessionOutline, it chooses   *)
(* one route to which it keeps, and both streams stay intact.              *)
(***************************************************************************)
EXTENDS Session, WellFoundedInduction, TLAPS

\* There is much for the provers to look through here: they get more time.
USE SMTT(40), ZenonT(40)

(***************************************************************************)
(* Sequences, least elements and recursion                                 *)
(***************************************************************************)

\* The elements of a sequence.
LEMMA ElementOfSeq ==
  ASSUME NEW S, NEW s \in Seq(S), NEW n \in 1..Len(s)
  PROVE  s[n] \in S
  OBVIOUS

\* The empty sequence, and the others.
LEMMA EmptySeq ==
  ASSUME NEW S
  PROVE  /\ <<>> \in Seq(S) /\ Len(<<>>) = 0
         /\ \A s \in Seq(S) : s # <<>> => Len(s) \in Nat \ {0}
  OBVIOUS

\* A sequence is a function.
LEMMA LenProperties ==
  ASSUME NEW S, NEW s \in Seq(S)
  PROVE  Len(s) \in Nat /\ s \in [1..Len(s) -> S] /\ DOMAIN s = 1..Len(s)
  OBVIOUS

\* Two sequences with the same elements are the same.
LEMMA SeqEqual ==
  ASSUME NEW S, NEW s \in Seq(S), NEW t \in Seq(S), Len(s) = Len(t),
         \A i \in 1..Len(s) : s[i] = t[i]
  PROVE  s = t
  OBVIOUS

\* Two sequences, one after the other.
LEMMA ConcatProperties ==
  ASSUME NEW S, NEW s \in Seq(S), NEW t \in Seq(S)
  PROVE  /\ s \o t \in Seq(S) /\ Len(s \o t) = Len(s) + Len(t)
         /\ \A i \in 1..(Len(s) + Len(t)) :
               (s \o t)[i] = IF i <= Len(s) THEN s[i] ELSE t[i - Len(s)]
  OBVIOUS

\* The empty sequence adds nothing.
LEMMA ConcatEmptySeq ==
  ASSUME NEW S, NEW s \in Seq(S)
  PROVE  s \o <<>> = s /\ <<>> \o s = s
  OBVIOUS

\* It does not matter how sequences are grouped.
LEMMA ConcatAssociative ==
  ASSUME NEW S, NEW s \in Seq(S), NEW t \in Seq(S), NEW u \in Seq(S)
  PROVE  (s \o t) \o u = s \o (t \o u)
  OBVIOUS

\* A part of a sequence.
LEMMA SubSeqProperties ==
  ASSUME NEW S, NEW s, NEW m \in Int, NEW n \in Int, \A i \in m..n : s[i] \in S
  PROVE  /\ SubSeq(s, m, n) \in Seq(S)
         /\ Len(SubSeq(s, m, n)) = IF m <= n THEN n - m + 1 ELSE 0
         /\ \A i \in 1..(n - m + 1) : SubSeq(s, m, n)[i] = s[m + i - 1]
  OBVIOUS

\* The part of a sequence that has no element.
LEMMA SubSeqEmpty ==
  ASSUME NEW s, NEW m \in Int, NEW n \in Int, n < m
  PROVE  SubSeq(s, m, n) = <<>>
  OBVIOUS

\* The first element of a sequence, and the others.
LEMMA HeadTailProperties ==
  ASSUME NEW S, NEW s \in Seq(S), s # <<>>
  PROVE  /\ Head(s) \in S /\ Tail(s) \in Seq(S) /\ Len(Tail(s)) = Len(s) - 1
         /\ \A i \in 1..Len(Tail(s)) : Tail(s)[i] = s[i + 1]
  OBVIOUS

\* The part of a sequence that is all of it.
LEMMA SubSeqFull ==
  ASSUME NEW S, NEW s \in Seq(S)
  PROVE  SubSeq(s, 1, Len(s)) = s
  OBVIOUS

\* Two parts of a sequence, the one next to the other.
LEMMA ConcatAdjacentSubSeq ==
  ASSUME NEW S, NEW s \in Seq(S), NEW m \in 1..(Len(s) + 1),
         NEW k \in (m - 1)..Len(s), NEW n \in k..Len(s)
  PROVE  SubSeq(s, m, k) \o SubSeq(s, k + 1, n) = SubSeq(s, m, n)
  OBVIOUS

\* A part of the first of two sequences.
LEMMA SubSeqOfConcat1 ==
  ASSUME NEW S, NEW s \in Seq(S), NEW t \in Seq(S),
         NEW m \in 1..Len(s), NEW n \in 1..Len(s)
  PROVE  SubSeq(s \o t, m, n) = SubSeq(s, m, n)
  OBVIOUS

\* A sequence and one more element.
LEMMA AppendProperties ==
  ASSUME NEW S, NEW s \in Seq(S), NEW e \in S
  PROVE  /\ Append(s, e) \in Seq(S) /\ Append(s, e) # <<>>
         /\ Len(Append(s, e)) = Len(s) + 1
         /\ \A i \in 1..Len(s) : Append(s, e)[i] = s[i]
         /\ Append(s, e)[Len(s) + 1] = e
  OBVIOUS

\* One more element is one more sequence.
LEMMA AppendIsConcat ==
  ASSUME NEW S, NEW s \in Seq(S), NEW e \in S
  PROVE  Append(s, e) = s \o <<e>>
  OBVIOUS

\* A set of natural numbers has a least element.
LEMMA Least ==
  ASSUME NEW M, M \subseteq Nat, M # {}
  PROVE  \E x \in M : \A y \in M : x <= y
  <1> DEFINE R == OpToRel(<, Nat)
  <1>1. IsWellFoundedOn(R, Nat)
    BY NatLessThanWellFounded, ZenonT(40)
  <1>2. \A x, y \in Nat : x < y => <<x, y>> \in R
    BY DEF OpToRel
  <1> HIDE DEF R
  <1>3. PICK x \in M : \A y \in M : ~(<<y, x>> \in R)
    BY <1>1, WFMin, ZenonT(40)
  <1>4. \A y \in M : x <= y
    <2> SUFFICES ASSUME NEW y \in M PROVE x <= y
      OBVIOUS
    <2>1. x \in Nat /\ y \in Nat
      OBVIOUS
    <2>2. ~(y < x)
      BY <1>2, <1>3, <2>1, ZenonT(40)
    <2> QED
      BY <2>1, <2>2
  <1> QED
    BY <1>4

\* The values that a recursion steps through.
Recursion(f, S, base, step, n) ==
    /\ f \in [0..n -> S]
    /\ f[0] = base
    /\ \A i \in 1..n : f[i] = step[i][f[i - 1]]

\* They exist.
LEMMA RecursionExists ==
  ASSUME NEW S, NEW base \in S, NEW n \in Nat, NEW step \in [1..n -> [S -> S]]
  PROVE  \E f : Recursion(f, S, base, step, n)
  <1> DEFINE M == {k \in 0..n : ~\E f : Recursion(f, S, base, step, k)}
  <1> SUFFICES ASSUME M # {} PROVE FALSE
    <2>1. n \in 0..n
      OBVIOUS
    <2> QED
      BY <2>1
  <1>1. M \subseteq Nat
    OBVIOUS
  <1>2. PICK k \in M : \A y \in M : k <= y
    BY <1>1, Least, ZenonT(40)
  <1>3. k \in 0..n /\ ~\E f : Recursion(f, S, base, step, k)
    OBVIOUS
  <1>4. k # 0
    <2> SUFFICES ASSUME k = 0 PROVE FALSE
      OBVIOUS
    <2>1. Recursion([i \in 0..0 |-> base], S, base, step, 0)
      BY DEF Recursion
    <2> QED
      BY <1>3, <2>1
  <1>5. k - 1 \in 0..n /\ ~(k <= k - 1) /\ k \in 1..n
    BY <1>3, <1>4
  <1>6. \E g : Recursion(g, S, base, step, k - 1)
    BY <1>2, <1>5
  <1> HIDE DEF M
  <1>7. PICK g : Recursion(g, S, base, step, k - 1)
    BY <1>6
  <1> DEFINE f == [i \in 0..k |-> IF i = k THEN step[k][g[k - 1]] ELSE g[i]]
  <1>8. g \in [0..(k - 1) -> S] /\ g[0] = base
    BY <1>7 DEF Recursion
  <1>9. step[k] \in [S -> S] /\ g[k - 1] \in S
    BY <1>5, <1>8
  <1>10. f \in [0..k -> S]
    BY <1>5, <1>8, <1>9
  <1>11. f[0] = base
    BY <1>5, <1>8
  <1>12. \A i \in 1..k : f[i] = step[i][f[i - 1]]
    BY <1>5, <1>7 DEF Recursion
  <1>13. Recursion(f, S, base, step, k)
    BY <1>10, <1>11, <1>12 DEF Recursion
  <1> QED
    BY <1>3, <1>13

\* A sequence of bytes and its parts.
LEMMA Cut ==
  ASSUME NEW s \in Seq(Int), NEW n \in 0..Len(s)
  PROVE  /\ SubSeq(s, 1, n) \in Seq(Int) /\ Len(SubSeq(s, 1, n)) = n
         /\ SubSeq(s, n + 1, Len(s)) \in Seq(Int)
         /\ Len(SubSeq(s, n + 1, Len(s))) = Len(s) - n
         /\ SubSeq(s, 1, n) \o SubSeq(s, n + 1, Len(s)) = s
  <1>1. Len(s) \in Nat
    BY LenProperties
  <1>2. \A i \in 1..Len(s) : s[i] \in Int
    BY ElementOfSeq
  <1>3. /\ SubSeq(s, 1, n) \in Seq(Int)
        /\ Len(SubSeq(s, 1, n)) = IF 1 <= n THEN n - 1 + 1 ELSE 0
    BY <1>1, <1>2, SubSeqProperties
  <1>4. /\ SubSeq(s, n + 1, Len(s)) \in Seq(Int)
        /\ Len(SubSeq(s, n + 1, Len(s)))
              = IF n + 1 <= Len(s) THEN Len(s) - (n + 1) + 1 ELSE 0
    BY <1>1, <1>2, SubSeqProperties
  <1>5. SubSeq(s, 1, n) \o SubSeq(s, n + 1, Len(s)) = SubSeq(s, 1, Len(s))
    <2>1. /\ 1 \in 1..(Len(s) + 1) /\ n \in (1 - 1)..Len(s)
          /\ Len(s) \in n..Len(s)
      BY <1>1
    <2> QED
      BY <2>1, ConcatAdjacentSubSeq, ZenonT(40)
  <1>6. SubSeq(s, 1, Len(s)) = s
    BY SubSeqFull
  <1>7. Len(SubSeq(s, 1, n)) = n
    BY <1>1, <1>3
  <1>8. Len(SubSeq(s, n + 1, Len(s))) = Len(s) - n
    BY <1>1, <1>4
  <1>9. SubSeq(s, 1, n) \o SubSeq(s, n + 1, Len(s)) = s
    BY <1>5, <1>6, ZenonT(40)
  <1> QED
    BY <1>3, <1>4, <1>7, <1>8, <1>9, ZenonT(40)

\* Two sequences, one after the other.
LEMMA Cat ==
  ASSUME NEW a \in Seq(Int), NEW b \in Seq(Int)
  PROVE  a \o b \in Seq(Int) /\ Len(a \o b) = Len(a) + Len(b)
  BY ConcatProperties

\* It does not matter how sequences are grouped.
LEMMA Assoc ==
  ASSUME NEW a \in Seq(Int), NEW b \in Seq(Int), NEW c \in Seq(Int)
  PROVE  (a \o b) \o c = a \o (b \o c)
  BY ConcatAssociative

\* The empty sequence adds nothing.
LEMMA Empty ==
  ASSUME NEW a \in Seq(Int)
  PROVE  a \o <<>> = a /\ <<>> \o a = a /\ <<>> \in Seq(Int)
  <1>1. a \o <<>> = a /\ <<>> \o a = a
    BY ConcatEmptySeq
  <1> QED
    BY <1>1, EmptySeq

\* Bytes f move from what is in flight, f and then q, to the head.
LEMMA FillMoves ==
  \A b, f, q \in Seq(Int) :
     (((b \o f) \o <<>>) \o <<>>) \o q = ((b \o <<>>) \o <<>>) \o (f \o q)
  <1>1. ASSUME NEW b \in Seq(Int), NEW f \in Seq(Int), NEW q \in Seq(Int)
        PROVE  (((b \o f) \o <<>>) \o <<>>) \o q = ((b \o <<>>) \o <<>>) \o (f \o q)
    <2>1. b \o f \in Seq(Int)
      BY Cat
    <2>2. (b \o f) \o <<>> = b \o f
      BY <2>1, Empty
    <2>3. b \o <<>> = b
      BY Empty
    <2>4. (b \o f) \o q = b \o (f \o q)
      BY Assoc
    <2> QED
      BY <2>2, <2>3, <2>4, ZenonT(40)
  <1> QED
    BY <1>1, ZenonT(40)

\* Bytes t move from the end of the head to what was read too far.
LEMMA TakeMoves ==
  \A h, t, i \in Seq(Int) :
     ((h \o <<>>) \o t) \o i = (((h \o t) \o <<>>) \o <<>>) \o i
  <1>1. ASSUME NEW h \in Seq(Int), NEW t \in Seq(Int), NEW i \in Seq(Int)
        PROVE  ((h \o <<>>) \o t) \o i = (((h \o t) \o <<>>) \o <<>>) \o i
    <2>1. h \o t \in Seq(Int)
      BY Cat
    <2>2. (h \o t) \o <<>> = h \o t
      BY <2>1, Empty
    <2>3. h \o <<>> = h
      BY Empty
    <2> QED
      BY <2>2, <2>3, ZenonT(40)
  <1> QED
    BY <1>1, ZenonT(40)

\* Bytes p that were read too far are handed on.
LEMMA FlushMoves ==
  \A b, a, p \in Seq(Int) :
     /\ (b \o (a \o p)) \o <<>> = (b \o a) \o p
     /\ (a \o p) \o <<>> = a \o p
  <1>1. ASSUME NEW b \in Seq(Int), NEW a \in Seq(Int), NEW p \in Seq(Int)
        PROVE  /\ (b \o (a \o p)) \o <<>> = (b \o a) \o p
               /\ (a \o p) \o <<>> = a \o p
    <2>1. a \o p \in Seq(Int)
      BY Cat
    <2>2. b \o (a \o p) \in Seq(Int)
      BY <2>1, Cat
    <2>3. (b \o (a \o p)) \o <<>> = b \o (a \o p)
      BY <2>2, Empty
    <2>4. (a \o p) \o <<>> = a \o p
      BY <2>1, Empty
    <2>5. (b \o a) \o p = b \o (a \o p)
      BY Assoc
    <2> QED
      BY <2>3, <2>4, <2>5, ZenonT(40)
  <1> QED
    BY <1>1, ZenonT(40)

\* Bytes f are relayed after the others.
LEMMA ForwardMoves ==
  \A a, f, q \in Seq(Int) :
     ((a \o f) \o <<>>) \o q = (a \o <<>>) \o (f \o q)
  <1>1. ASSUME NEW a \in Seq(Int), NEW f \in Seq(Int), NEW q \in Seq(Int)
        PROVE  ((a \o f) \o <<>>) \o q = (a \o <<>>) \o (f \o q)
    <2>1. a \o f \in Seq(Int)
      BY Cat
    <2>2. (a \o f) \o <<>> = a \o f
      BY <2>1, Empty
    <2>3. a \o <<>> = a
      BY Empty
    <2>4. (a \o f) \o q = a \o (f \o q)
      BY Assoc
    <2> QED
      BY <2>2, <2>3, <2>4, ZenonT(40)
  <1> QED
    BY <1>1, ZenonT(40)

\* Bytes f are added to what is in flight.
LEMMA SendMoves ==
  \A x, i, f \in Seq(Int) :
     x \o (i \o f) = (x \o i) \o f
  <1>1. ASSUME NEW x \in Seq(Int), NEW i \in Seq(Int), NEW f \in Seq(Int)
        PROVE  x \o (i \o f) = (x \o i) \o f
    BY Assoc
  <1> QED
    BY <1>1, ZenonT(40)

\* If the end of a piece is cut off, what is left still begins the whole.
LEMMA CutBegins ==
  ASSUME NEW x \in Seq(Int), NEW s \in Seq(Int), NEW n \in 0..Len(s),
         NEW t \in Seq(Int)
  PROVE  \E r \in Seq(Int) : (x \o SubSeq(s, 1, n)) \o r = (x \o s) \o t
  <1>1. ASSUME NEW a \in Seq(Int), NEW b \in Seq(Int)
        PROVE  (x \o a) \o (b \o t) = (x \o (a \o b)) \o t
    <2>1. x \o a \in Seq(Int)
      BY Cat
    <2>2. (x \o a) \o b = x \o (a \o b)
      BY Assoc, ZenonT(40)
    <2> DEFINE y == x \o a
    <2> HIDE DEF y
    <2>3. (y \o b) \o t = y \o (b \o t)
      <3>1. y \in Seq(Int)
        BY <2>1 DEF y
      <3> QED
        BY <3>1, Assoc, ZenonT(40)
    <2> QED
      BY <2>2, <2>3, ZenonT(40) DEF y
  <1> DEFINE a == SubSeq(s, 1, n)
             b == SubSeq(s, n + 1, Len(s))
  <1>2. a \in Seq(Int) /\ b \in Seq(Int) /\ a \o b = s
    BY Cut, ZenonT(40)
  <1> HIDE DEF a, b
  <1>3. b \o t \in Seq(Int)
    BY <1>2, Cat
  <1>4. (x \o a) \o (b \o t) = (x \o s) \o t
    BY <1>1, <1>2, ZenonT(40)
  <1> QED
    BY <1>3, <1>4, ZenonT(40) DEF a

\* The elements of two sequences, one after the other.
LEMMA CatElements ==
  ASSUME NEW a \in Seq(Int), NEW b \in Seq(Int)
  PROVE  /\ a \o b \in Seq(Int) /\ Len(a \o b) = Len(a) + Len(b)
         /\ Len(a) \in Nat /\ Len(b) \in Nat
         /\ \A i \in 1..Len(a) : (a \o b)[i] = a[i]
         /\ \A i \in 1..Len(b) : (a \o b)[Len(a) + i] = b[i]
  BY ConcatProperties, LenProperties

\* The elements of the first two of three pieces.
LEMMA FirstElements ==
  ASSUME NEW b \in Seq(Int), NEW a \in Seq(Int), NEW u \in Seq(Int)
  PROVE  /\ Len(b) + Len(a) <= Len((b \o a) \o u)
         /\ \A j \in 1..Len(a) : ((b \o a) \o u)[Len(b) + j] = a[j]
  <1> DEFINE x == b \o a
  <1>1. /\ x \in Seq(Int) /\ Len(x) = Len(b) + Len(a)
        /\ Len(b) \in Nat /\ Len(a) \in Nat /\ Len(u) \in Nat
        /\ \A j \in 1..Len(a) : x[Len(b) + j] = a[j]
    BY CatElements, LenProperties
  <1> HIDE DEF x
  <1>2. /\ Len(x \o u) = Len(x) + Len(u)
        /\ \A j \in 1..Len(x) : (x \o u)[j] = x[j]
    BY <1>1, CatElements, ZenonT(40)
  <1>3. \A j \in 1..Len(a) : Len(b) + j \in 1..Len(x)
    BY <1>1
  <1>4. /\ Len(b) + Len(a) <= Len(x \o u)
        /\ \A j \in 1..Len(a) : (x \o u)[Len(b) + j] = a[j]
    BY <1>1, <1>2, <1>3
  <1> QED
    BY <1>4 DEF x

(***************************************************************************)
(* handle_client implements SessionOutline                                 *)
(***************************************************************************)

\* Where handle_client can be before it has replied, and after a 200.
Before == {"read_head", "send_error", "lookup", "dial", "upstream", "established"}
After == {"write_upstream", "write_client", "relay"}

\* How the replies depend on where it is.
Replying ==
    /\ pc \in Before \union After \union {"closed"}
    /\ pc \in Before => replies = <<>>
    /\ pc = "send_error" => status \in {400, 405, 502}

\* The step of the outline that a step of the session amounts to.
OutlineStep == Outline!Next \/ UNCHANGED Outline!vars

\* A step to another phase with another reply.
LEMMA MoveMaps ==
  ASSUME NEW from, NEW to, NEW code,
         OutlinePhase = from, OutlinePhase' = to, OutlineReply' = code
  PROVE  /\ Outline!Move("client", from, to)
         /\ Outline!Answer("client", code)
         /\ OutlineReply = code =>
               UNCHANGED [c \in {"client"} |-> OutlineReply]
  BY ZenonT(40) DEF Outline!Move, Outline!Answer

\* A step within a phase.
LEMMA StayMaps ==
  ASSUME OutlinePhase' = OutlinePhase, OutlineReply' = OutlineReply
  PROVE  OutlineStep
  BY DEF OutlineStep, Outline!vars

\* The moves that the outline has.
LEMMA OutlineMoves ==
  ASSUME OutlinePhase # OutlinePhase',
         \/ /\ OutlinePhase = "reading" /\ OutlinePhase' = "over"
            /\ OutlineReply' \in {400, 405} \/ OutlineReply' = OutlineReply
         \/ /\ OutlinePhase = "reading" /\ OutlinePhase' = "opening"
            /\ OutlineReply' = OutlineReply
         \/ /\ OutlinePhase = "opening" /\ OutlinePhase' = "over"
            /\ OutlineReply' = 502 \/ OutlineReply' = OutlineReply
         \/ /\ OutlinePhase = "opening" /\ OutlinePhase' = "open"
            /\ OutlineReply' = 200
         \/ /\ OutlinePhase = "open" /\ OutlinePhase' = "over"
            /\ OutlineReply' = OutlineReply
  PROVE  OutlineStep
  <1>1. /\ Outline!Move("client", OutlinePhase, OutlinePhase')
        /\ Outline!Answer("client", OutlineReply')
        /\ OutlineReply' = OutlineReply =>
              UNCHANGED [c \in {"client"} |-> OutlineReply]
    BY MoveMaps
  <1>2. Outline!Step("client")
    BY <1>1 DEF Outline!Step, Outline!Refuse, Outline!Begin, Outline!Settle,
                Outline!GiveUp, Outline!Open, Outline!End
  <1> QED
    BY <1>2 DEF OutlineStep, Outline!Next

\* The reply of a session that has sent one.
LEMMA OneReply ==
  ASSUME NEW code
  PROVE  /\ Append(<<>>, code)[Len(Append(<<>>, code))] = code
         /\ Append(<<>>, code) # <<>>
  OBVIOUS

\* What is the same whatever the session does next.
LEMMA SameMaps ==
  ASSUME Replying, UNCHANGED <<pc, status, replies>>
  PROVE  Replying' /\ OutlineStep
  <1>1. Replying'
    BY DEF Replying, Before, After
  <1>2. OutlinePhase' = OutlinePhase /\ OutlineReply' = OutlineReply
    BY DEF OutlinePhase, OutlineReply
  <1> QED
    BY <1>1, <1>2, StayMaps

\* A step before the reply is sent: within "reading", within "opening", or
\* from the one to the other.
LEMMA BeforeMaps ==
  ASSUME Replying, pc \in Before, pc' \in Before, UNCHANGED replies,
         pc' = "send_error" => status' \in {400, 405, 502},
         OutlinePhase' \in {OutlinePhase, "opening"}
  PROVE  Replying' /\ OutlineStep
  <1>1. Replying'
    BY DEF Replying, Before, After
  <1>2. OutlineReply' = OutlineReply
    BY DEF OutlineReply
  <1>3. OutlinePhase \in {"reading", "opening"}
    BY DEF Replying, Before, OutlinePhase
  <1>4. OutlineStep
    <2>1. CASE OutlinePhase' = OutlinePhase
      BY <1>2, <2>1, StayMaps
    <2>2. CASE OutlinePhase' # OutlinePhase
      BY <1>2, <1>3, <2>2, OutlineMoves
    <2> QED
      BY <2>1, <2>2
  <1> QED
    BY <1>1, <1>4

\* read_request_head and the tests on the request.
LEMMA HeadMaps ==
  ASSUME Replying, FillHead \/ HeadFails \/ TakeHead
  PROVE  Replying' /\ OutlineStep
  <1>1. CASE FillHead
    BY <1>1, SameMaps DEF FillHead
  <1>2. CASE HeadFails
    <2>1. pc = "read_head" /\ pc' = "send_error" /\ status' = 400 /\ replies' = replies
      BY <1>2 DEF HeadFails, Refuse
    <2>2. OutlinePhase = "reading" /\ OutlinePhase' = "reading"
      BY <2>1 DEF OutlinePhase
    <2> QED
      BY <2>1, <2>2, BeforeMaps DEF Before
  <1>3. CASE TakeHead
    <2>1. pc = "read_head" /\ replies' = replies
      BY <1>3 DEF TakeHead
    <2>2. \/ pc' = "send_error" /\ status' \in {400, 405}
          \/ pc' \in {"lookup", "upstream"}
      BY <1>3 DEF TakeHead, Judge, Establish, Refuse
    <2>3. OutlinePhase' \in {OutlinePhase, "opening"}
      BY <2>1, <2>2 DEF OutlinePhase
    <2> QED
      BY <2>1, <2>2, <2>3, BeforeMaps DEF Before
  <1> QED
    BY <1>1, <1>2, <1>3

\* establish_tunnel.
LEMMA EstablishMaps ==
  ASSUME Replying, LookupReturns \/ LookupTimeout \/ Dial \/ DialTimeout \/ Upstream
  PROVE  Replying' /\ OutlineStep
  <1>1. pc \in {"lookup", "dial", "upstream"} /\ replies' = replies
    BY DEF LookupReturns, LookupTimeout, Route, Dial, DialTimeout, Upstream
  <1>2. \/ pc' = "send_error" /\ status' = 502
        \/ pc' \in {"lookup", "dial", "upstream", "established"}
    <2>1. CASE LookupReturns \/ LookupTimeout
      BY <2>1 DEF LookupReturns, LookupTimeout, Route
    <2>2. CASE Dial
      BY <2>2 DEF Dial, DirectFails, Refuse
    <2>3. CASE DialTimeout \/ Upstream
      BY <2>3 DEF DialTimeout, Upstream, DirectFails, Refuse
    <2> QED
      BY <2>1, <2>2, <2>3
  <1>3. OutlinePhase' = "opening"
    BY <1>2 DEF OutlinePhase
  <1> QED
    BY <1>1, <1>2, <1>3, BeforeMaps DEF Before

\* The two replies.
LEMMA ReplyMaps ==
  ASSUME Replying, SendError \/ SendEstablished
  PROVE  Replying' /\ OutlineStep
  <1>1. replies = <<>>
    BY DEF Replying, Before, SendError, SendEstablished
  <1>2. OutlineReply = 0
    BY <1>1 DEF OutlineReply
  <1>3. CASE SendError
    <2>1. /\ pc = "send_error" /\ pc' = "closed" /\ status \in {400, 405, 502}
          /\ replies' = replies \/ replies' = Append(<<>>, status)
      BY <1>1, <1>3 DEF SendError, SendErrorReply, Replying
    <2>2. OutlineReply' \in {0, status}
      BY <1>1, <2>1, OneReply DEF OutlineReply
    <2>3. /\ OutlinePhase = IF status = 502 THEN "opening" ELSE "reading"
          /\ OutlinePhase' = "over"
      BY <2>1 DEF OutlinePhase
    <2>4. OutlineStep
      BY <1>2, <2>1, <2>2, <2>3, OutlineMoves
    <2>5. Replying'
      BY <2>1 DEF Replying, Before, After
    <2> QED
      BY <2>4, <2>5
  <1>4. CASE SendEstablished
    <2>1. /\ pc = "established"
          /\ \/ pc' = "closed" /\ replies' = replies
             \/ pc' = "write_upstream" /\ replies' = Append(<<>>, 200)
      BY <1>1, <1>4 DEF SendEstablished
    <2>2. /\ OutlinePhase = "opening"
          /\ \/ OutlinePhase' = "over" /\ OutlineReply' = OutlineReply
             \/ OutlinePhase' = "open" /\ OutlineReply' = 200
      BY <2>1, OneReply DEF OutlinePhase, OutlineReply
    <2>3. OutlineStep
      BY <2>2, OutlineMoves
    <2>4. Replying'
      BY <2>1 DEF Replying, Before, After
    <2> QED
      BY <2>3, <2>4
  <1> QED
    BY <1>3, <1>4

\* The bytes read too far, and the relay.
LEMMA TunnelMaps ==
  ASSUME Replying, Flush \/ Relay
  PROVE  Replying' /\ OutlineStep
  <1>1. pc \in After /\ pc' \in After \union {"closed"} /\ replies' = replies
    BY ZenonT(40) DEF Flush, Relay, WriteClientPrefetched, WritePrefetched, Abandon, After
  <1>2. OutlinePhase = "open" /\ OutlinePhase' \in {"open", "over"}
    BY <1>1 DEF OutlinePhase, After
  <1>3. OutlineReply' = OutlineReply
    BY <1>1 DEF OutlineReply
  <1>4. OutlineStep
    BY <1>2, <1>3, StayMaps, OutlineMoves
  <1>5. Replying'
    BY <1>1 DEF Replying, Before, After
  <1> QED
    BY <1>4, <1>5

\* Every step of a session is a step of the outline, or none.
LEMMA NextMaps ==
  ASSUME Replying, [Next]_vars
  PROVE  Replying' /\ OutlineStep
  <1>1. CASE Task
    BY <1>1, HeadMaps, EstablishMaps, ReplyMaps, TunnelMaps DEF Task
  <1>2. CASE \/ ClientSends \/ ClientReceives \/ RemoteSendsByte \/ Resolve
             \/ \E d \in Endpoints : Hangup(d)
    <2>1. UNCHANGED <<pc, status, replies>>
      BY <1>2 DEF ClientSends, ClientReceives, RemoteSendsByte, Resolve, Hangup, head
    <2> QED
      BY <2>1, SameMaps
  <1>3. CASE Closed \/ UNCHANGED vars
    <2>1. UNCHANGED <<pc, status, replies>>
      BY <1>3 DEF Closed, vars, head
    <2> QED
      BY <2>1, SameMaps
  <1> QED
    BY <1>1, <1>2, <1>3 DEF Next

\* handle_client sends at most one reply, before any tunnel and fit for how
\* far the session came, whatever the client, the resolver and the remote do.
THEOREM SessionImplementsOutline == Spec => ImplementsOutline
  <1>1. Init => Replying /\ Outline!Init
    <2> SUFFICES ASSUME Init PROVE Replying /\ Outline!Init
      OBVIOUS
    <2>1. OutlinePhase = "reading" /\ OutlineReply = 0
      BY DEF Init, OutlinePhase, OutlineReply
    <2> QED
      BY <2>1 DEF Init, Replying, Before, After, Outline!Init
  <1>2. Replying /\ [Next]_vars => Replying' /\ [Outline!Next]_(Outline!vars)
    BY NextMaps DEF OutlineStep
  <1> QED
    BY <1>1, <1>2, PTL DEF Spec, ImplementsOutline, Outline!Spec

(***************************************************************************)
(* A session has one route, and only direct addresses are dialled          *)
(***************************************************************************)

\* The direct addresses of a resolver's answer.
DirectIn(a) == DirectAddresses \intersect Range(a)

\* resolve_direct_addresses keeps addresses of the answer that are direct.
LEMMA DirectOfSelects ==
  ASSUME NEW a \in Seq(STRING)
  PROVE  DirectOf(a) \in Seq(DirectIn(a))
  <1> DEFINE S == Seq(DirectIn(a))
             n == Len(a)
             Insert(x, i) == IF a[i] \in DirectAddresses /\ a[i] \notin Range(x)
                             THEN Append(x, a[i]) ELSE x
             step == [i \in 1..n |-> [x \in S |-> Insert(x, i)]]
             Body(f) == [i \in 0..n |-> IF i = 0 THEN <<>> ELSE Insert(f[i - 1], i)]
             seen == CHOOSE f : f = Body(f)
  <1>1. n \in Nat /\ \A i \in 1..n : a[i] \in Range(a)
    BY DEF Range
  <1>2. \A x \in S, i \in 1..n : Insert(x, i) \in S
    BY <1>1 DEF DirectIn
  <1>3. <<>> \in S
    OBVIOUS
  <1>4. step \in [1..n -> [S -> S]]
    BY <1>2
  <1>5. \A i \in 1..n, x \in S : step[i][x] = Insert(x, i)
    OBVIOUS
  <1> HIDE DEF S, n, Insert, step
  <1>6. PICK g : Recursion(g, S, <<>>, step, n)
    BY <1>1, <1>3, <1>4, RecursionExists
  <1>7. /\ g \in [0..n -> S] /\ g[0] = <<>>
        /\ \A i \in 1..n : g[i] = step[i][g[i - 1]] /\ g[i - 1] \in S
    BY <1>1, <1>6 DEF Recursion
  <1>8. \A i \in 1..n : g[i] = Insert(g[i - 1], i)
    BY <1>5, <1>7
  <1>9. g = Body(g)
    BY <1>1, <1>7, <1>8
  <1>10. seen = Body(seen)
    BY <1>9, ZenonT(40)
  <1>11. DirectOf(a) = seen[n]
    BY DEF DirectOf, Insert, n
  <1> HIDE DEF seen
  <1>12. seen[0] = <<>> /\ \A i \in 1..n : seen[i] = Insert(seen[i - 1], i)
    BY <1>1, <1>10
  <1>13. seen[n] \in S
    <2> DEFINE M == {i \in 0..n : seen[i] \notin S}
    <2> SUFFICES ASSUME M # {} PROVE FALSE
      BY <1>1
    <2>1. M \subseteq Nat
      BY <1>1
    <2>2. PICK k \in M : \A y \in M : k <= y
      BY <2>1, Least, ZenonT(40)
    <2>3. k # 0 /\ k \in 1..n /\ k - 1 \in 0..n /\ ~(k <= k - 1)
      BY <1>1, <1>3, <1>12
    <2>4. seen[k - 1] \in S
      BY <2>2, <2>3
    <2> QED
      BY <1>2, <1>12, <2>3, <2>4
  <1> QED
    BY <1>11, <1>13 DEF S

\* What the route depends on, at each await of handle_client.
RouteInv ==
    /\ answer \in Seq(STRING)
    /\ pc = "read_head" => lookup = "idle" /\ remote = "none" /\ route = "none"
    /\ pc = "lookup" => routing = "auto" /\ route = "none"
    /\ pc = "dial" => /\ routing = "auto" /\ route = "direct" /\ lookup = "done"
                      /\ addresses \in Seq(DirectIn(answer)) /\ addresses # <<>>
    /\ pc = "upstream" => route = "upstream"
    /\ remote = "proxy" => route = "upstream"
    /\ remote \notin {"none", "proxy"} => lookup = "done"
    /\ DirectOnlyToDirect

\* What a step may do to the route.
RouteStep ==
    route # "none" => /\ route' = route
                      /\ remote' = "proxy" => route = "upstream"

\* A step that leaves the route, its connection and the resolver alone, and
\* does not go to where they matter.
LEMMA KeepsRoute ==
  ASSUME RouteInv, UNCHANGED <<routing, lookup, answer, addresses, route, remote>>,
         pc' \in {"read_head", "lookup", "dial", "upstream"} => pc' = pc
  PROVE  RouteInv' /\ RouteStep
  BY DEF RouteInv, RouteStep, DirectOnlyToDirect, DirectIn

\* The steps that choose the route and connect.
LEMMA TakeKeepsRoute ==
  ASSUME RouteInv, TakeHead
  PROVE  RouteInv' /\ RouteStep
  <1>1. /\ pc = "read_head" /\ UNCHANGED <<routing, answer, addresses, remote>>
        /\ \/ /\ routing = "auto" /\ pc' = "lookup" /\ route' = route
           \/ /\ pc' = "upstream" /\ route' = "upstream"
           \/ /\ pc' = "send_error" /\ route' = route
    BY DEF TakeHead, Judge, Establish, Refuse, choices
  <1> QED
    BY <1>1 DEF RouteInv, RouteStep, DirectOnlyToDirect

LEMMA LookupKeepsRoute ==
  ASSUME RouteInv, LookupReturns \/ LookupTimeout
  PROVE  RouteInv' /\ RouteStep
  <1>1. /\ pc = "lookup"
        /\ UNCHANGED <<routing, lookup, answer, remote>>
    BY DEF LookupReturns, LookupTimeout, Route, choices, resolver
  <1>2. DirectOf(answer) \in Seq(DirectIn(answer))
    BY DirectOfSelects DEF RouteInv
  <1>3. \/ pc' = "upstream" /\ route' = "upstream"
        \/ /\ pc' = "dial" /\ route' = "direct" /\ lookup = "done"
           /\ addresses' \in Seq(DirectIn(answer)) /\ addresses' # <<>>
    BY <1>2 DEF LookupReturns, LookupTimeout, Route
  <1> QED
    BY <1>1, <1>3 DEF RouteInv, RouteStep, DirectOnlyToDirect, DirectIn

LEMMA DialKeepsRoute ==
  ASSUME RouteInv, Dial
  PROVE  RouteInv' /\ RouteStep
  <1>1. /\ pc = "dial" /\ UNCHANGED <<routing, lookup, answer, route>>
        /\ \/ /\ remote' = Head(addresses) /\ pc' = "established"
           \/ /\ addresses' = Tail(addresses) /\ remote' = remote
              /\ \/ pc' = "send_error"
                 \/ Len(addresses) # 1 /\ pc' = pc
    BY DEF Dial, DirectFails, Refuse, choices, resolver
  <1>2. addresses \in Seq(DirectIn(answer)) /\ addresses # <<>>
    BY <1>1 DEF RouteInv
  <1>3. Head(addresses) \in DirectIn(answer)
    BY <1>2
  <1>4. Tail(addresses) \in Seq(DirectIn(answer))
    BY <1>2
  <1>5. Len(addresses) # 1 => Tail(addresses) # <<>>
    <2> SUFFICES ASSUME Tail(addresses) = <<>> PROVE Len(addresses) = 1
      OBVIOUS
    <2>1. Len(Tail(addresses)) = 0
      OBVIOUS
    <2>2. Len(Tail(addresses)) = Len(addresses) - 1 /\ Len(addresses) \in Nat
      BY <1>2, HeadTailProperties, LenProperties
    <2>3. \A x, y : x = 0 /\ y \in Nat /\ x = y - 1 => y = 1
      OBVIOUS
    <2> QED
      BY <2>1, <2>2, <2>3, ZenonT(40)
  <1>6. Head(addresses) \notin {"none", "proxy"}
    BY <1>3, SessionBounds DEF DirectIn
  <1>7. CASE remote' = Head(addresses) /\ pc' = "established"
    BY <1>1, <1>3, <1>6, <1>7 DEF RouteInv, RouteStep, DirectOnlyToDirect, DirectIn
  <1>8. CASE /\ addresses' = Tail(addresses) /\ remote' = remote
             /\ pc' = "send_error" \/ (Len(addresses) # 1 /\ pc' = pc)
    BY <1>1, <1>4, <1>5, <1>8 DEF RouteInv, RouteStep, DirectOnlyToDirect, DirectIn
  <1> QED
    BY <1>1, <1>7, <1>8

LEMMA UpstreamKeepsRoute ==
  ASSUME RouteInv, Upstream
  PROVE  RouteInv' /\ RouteStep
  <1>1. /\ pc = "upstream" /\ UNCHANGED <<routing, lookup, answer, addresses, route>>
        /\ \/ pc' = "send_error" /\ remote' = remote
           \/ pc' = "established" /\ remote' = "proxy"
    BY DEF Upstream, Refuse, choices, resolver
  <1> QED
    BY <1>1 DEF RouteInv, RouteStep, DirectOnlyToDirect

\* The resolver answers at most once, and nothing direct came before that.
LEMMA ResolveKeepsRoute ==
  ASSUME RouteInv, Resolve
  PROVE  RouteInv' /\ RouteStep
  <1>1. /\ lookup = "running" /\ lookup' = "done" /\ answer' \in Answers \union {<<>>}
        /\ UNCHANGED <<routing, pc, addresses, route, remote>>
    BY DEF Resolve, choices, connection
  <1>2. answer' \in Seq(STRING)
    <2>1. <<>> \in Seq(STRING)
      OBVIOUS
    <2>2. \A a \in Answers : a \in Seq(STRING)
      BY SessionBounds
    <2> QED
      BY <1>1, <2>1, <2>2, ZenonT(40)
  <1> QED
    BY <1>1, <1>2 DEF RouteInv, RouteStep, DirectOnlyToDirect

\* Every step keeps the route.
LEMMA NextKeepsRoute ==
  ASSUME RouteInv, [Next]_vars
  PROVE  RouteInv' /\ RouteStep
  <1>1. CASE \/ FillHead \/ HeadFails \/ SendError \/ DialTimeout
             \/ SendEstablished \/ Flush \/ Relay
             \/ ClientSends \/ ClientReceives \/ RemoteSendsByte
             \/ (\E d \in Endpoints : Hangup(d)) \/ Closed \/ UNCHANGED vars
    <2>1. UNCHANGED <<routing, lookup, answer, addresses, route, remote>>
      BY <1>1, ZenonT(40) DEF FillHead, HeadFails, SendError, DialTimeout, SendEstablished,
                  Flush, Relay, ClientSends, ClientReceives, RemoteSendsByte,
                  Hangup, Closed, vars, choices, resolver, connection
    <2>2. pc' \in {"read_head", "lookup", "dial", "upstream"} => pc' = pc
      BY <1>1, ZenonT(40) DEF FillHead, HeadFails, SendError, DialTimeout, SendEstablished,
                  Flush, WriteClientPrefetched, WritePrefetched, Abandon, Relay,
                  ClientSends, ClientReceives, RemoteSendsByte, Hangup, Closed,
                  vars, DirectFails, Refuse
    <2> QED
      BY <2>1, <2>2, KeepsRoute
  <1> QED
    BY <1>1, TakeKeepsRoute, LookupKeepsRoute, DialKeepsRoute, UpstreamKeepsRoute,
       ResolveKeepsRoute DEF Next, Task

\* The invariant of the route.
LEMMA SessionRoute == Spec => []RouteInv
  <1>1. Init => RouteInv
    BY DEF Init, RouteInv, DirectOnlyToDirect
  <1>2. RouteInv /\ [Next]_vars => RouteInv'
    BY NextKeepsRoute
  <1> QED
    BY <1>1, <1>2, PTL DEF Spec

\* A direct connection is only ever made to an address that the resolver gave
\* and that is direct itself, whatever else its answer holds and whenever it
\* comes.
THEOREM OnlyDirectAddressesAreDialled == Spec => []DirectOnlyToDirect
  <1>1. RouteInv => DirectOnlyToDirect
    BY DEF RouteInv
  <1> QED
    BY <1>1, SessionRoute, PTL

\* Once a session has a route, nothing changes it: no failed connection, no
\* answer that comes too late.
THEOREM RouteNeverChanges == Spec => RouteIsFinal
  <1>1. RouteInv /\ [Next]_vars => [RouteStep]_vars
    BY NextKeepsRoute
  <1>2. Spec => [][RouteStep]_vars
    BY <1>1, SessionRoute, PTL DEF Spec
  <1> QED
    BY <1>2 DEF RouteIsFinal, RouteStep

(***************************************************************************)
(* The bytes of a stream, and where a head ends                            *)
(***************************************************************************)

\* The bytes of a stream are a sequence that grows by one.
LEMMA DataGrows ==
  ASSUME NEW n \in Nat
  PROVE  /\ Data(n) \in Seq(Int) /\ Len(Data(n)) = n
         /\ Data(n) \o <<n + 1>> = Data(n + 1)
  <1>1. ASSUME NEW m \in Nat
        PROVE  Data(m) \in Seq(Int) /\ Len(Data(m)) = m
    BY <1>1 DEF Data
  <1>2. /\ Data(n) \in Seq(Int) /\ Len(Data(n)) = n
        /\ Data(n + 1) \in Seq(Int) /\ Len(Data(n + 1)) = n + 1
    BY <1>1
  <1>3. /\ Append(Data(n), n + 1) \in Seq(Int)
        /\ Len(Append(Data(n), n + 1)) = n + 1
        /\ \A i \in 1..n : Append(Data(n), n + 1)[i] = Data(n)[i]
        /\ Append(Data(n), n + 1)[n + 1] = n + 1
    BY <1>2, AppendProperties
  <1>4. \A i \in 1..(n + 1) : Append(Data(n), n + 1)[i] = Data(n + 1)[i]
    BY <1>3 DEF Data
  <1>5. Append(Data(n), n + 1) = Data(n + 1)
    BY <1>2, <1>3, <1>4, SeqEqual, ZenonT(40)
  <1>6. Append(Data(n), n + 1) = Data(n) \o <<n + 1>>
    BY <1>2, AppendIsConcat
  <1> QED
    BY <1>2, <1>5, <1>6, ZenonT(40)

\* The smaller of two integers.
LEMMA MinPair ==
  ASSUME NEW a \in Int, NEW b \in Int
  PROVE  Min({a, b}) \in Int /\ Min({a, b}) <= a /\ Min({a, b}) <= b
  <1>1. \E x \in {a, b} : \A y \in {a, b} : x <= y
    BY a <= b \/ b <= a
  <1> QED
    BY <1>1 DEF Min

\* The least of a set of natural numbers.
LEMMA MinNat ==
  ASSUME NEW M, M \subseteq Nat, M # {}
  PROVE  Min(M) \in M /\ \A y \in M : Min(M) <= y
  BY Least, ZenonT(40) DEF Min

\* Where a head ends, if it does.
LEMMA HeaderEndBounds ==
  ASSUME NEW b \in Seq(Int)
  PROVE  /\ HeaderEnds(b) \subseteq 4..Len(b) /\ Len(b) \in Nat
         /\ HeaderEnds(b) # {} => /\ HeaderEnd(b) \in HeaderEnds(b)
                                  /\ HeaderEnd(b) \in 4..Len(b)
  <1>1. HeaderEnds(b) \subseteq 4..Len(b) /\ Len(b) \in Nat
    BY LenProperties DEF HeaderEnds
  <1>2. HeaderEnds(b) \subseteq Nat
    BY <1>1
  <1>3. HeaderEnds(b) # {} => HeaderEnd(b) \in HeaderEnds(b)
    BY <1>2, MinNat DEF HeaderEnd
  <1> QED
    BY <1>1, <1>3

\* A head that had not ended ends among the bytes that were added.
LEMMA HeaderEndsInNewBytes ==
  ASSUME NEW b \in Seq(Int), NEW f \in Seq(Int), HeaderEnds(b) = {},
         NEW i \in HeaderEnds(b \o f)
  PROVE  i > Len(b)
  <1>1. Len(b) \in Nat /\ b \o f \in Seq(Int)
    BY LenProperties, Cat
  <1>2. i \in 4..Len(b \o f) /\ SubSeq(b \o f, i - 3, i) = HeaderEndMark
    BY DEF HeaderEnds
  <1>3. Len(b \o f) \in Nat /\ i \in Nat /\ i >= 4
    BY <1>1, <1>2, LenProperties
  <1> SUFFICES ASSUME i <= Len(b) PROVE FALSE
    BY <1>1, <1>3
  <1> DEFINE m == i - 3
  <1>4. m \in 1..Len(b) /\ i \in 1..Len(b)
    BY <1>1, <1>3
  <1> HIDE DEF m
  <1>5. SubSeq(b \o f, m, i) = SubSeq(b, m, i)
    BY <1>4, SubSeqOfConcat1
  <1>6. i \in HeaderEnds(b)
    BY <1>1, <1>2, <1>3, <1>5 DEF m, HeaderEnds
  <1> QED
    BY <1>6

(***************************************************************************)
(* The streams stay intact                                                 *)
(***************************************************************************)

\* The types of the pieces of the streams.
StreamTypes ==
    /\ inflight \in [Endpoints -> Seq(Int)]
    /\ arrived \in [Endpoints -> Seq(Int)]
    /\ prefetched \in [Endpoints -> Seq(Int)]
    /\ bytes \in Seq(Int)
    /\ sent \in [Endpoints -> Nat]
    /\ request \in Requests
    /\ sent["client"] <= Len(Program)

\* Which pieces are empty where.
NotConnected == Before \ {"established"}

Pieces ==
    /\ pc = "read_head" => prefetched["client"] = <<>> /\ arrived["client"] = <<>>
    /\ pc \in {"write_client", "relay"} => prefetched["client"] = <<>>
    /\ pc = "relay" => prefetched["upstream"] = <<>>
    /\ pc \in NotConnected =>
          /\ remote = "none" /\ sent["upstream"] = 0
          /\ inflight["upstream"] = <<>> /\ arrived["upstream"] = <<>>
          /\ prefetched["upstream"] = <<>>

\* The streams as StreamsIntact puts them together.
ClientStream ==
    ((bytes \o arrived["client"]) \o prefetched["client"]) \o inflight["client"]
RemoteStream == (arrived["upstream"] \o prefetched["upstream"]) \o inflight["upstream"]

\* Only the end of what was sent may be missing, and only if the connection
\* has failed.
Kept(stream, whole, gone) ==
    \E t \in Seq(Int) : stream \o t = whole /\ (~gone => t = <<>>)

ClientKept == Kept(ClientStream, SubSeq(Program, 1, sent["client"]), ClientGone)
RemoteKept == Kept(RemoteStream, Data(sent["upstream"]), "upstream" \in reset)

StreamInv == StreamTypes /\ Pieces /\ ClientKept /\ RemoteKept

\* The two endpoints.
LEMMA TwoEndpoints == "client" \in Endpoints /\ "upstream" \in Endpoints
  BY DEF Endpoints, T!Endpoints

\* What the client has to send is a sequence of bytes.
LEMMA ProgramType ==
  ASSUME StreamTypes
  PROVE  /\ request.head \in Seq(Int) /\ Program \in Seq(Int)
         /\ Len(request.head) \in Nat /\ Len(Program) \in Nat
         /\ Len(request.head) <= Len(Program)
  <1>1. request.head \in Seq({CR, LF, 0}) /\ request.data \in Nat
    BY SessionBounds DEF StreamTypes
  <1>2. request.head \in Seq(Int)
    BY <1>1 DEF CR, LF
  <1>3. Data(request.data) \in Seq(Int)
    BY <1>1, DataGrows, ZenonT(40)
  <1>4. /\ Program \in Seq(Int)
        /\ Len(Program) = Len(request.head) + Len(Data(request.data))
    BY <1>2, <1>3, Cat DEF Program
  <1>5. /\ Len(request.head) \in Nat /\ Len(Data(request.data)) \in Nat
        /\ Len(Program) \in Nat
    BY <1>2, <1>3, <1>4, LenProperties, ZenonT(40)
  <1>6. \A x, y \in Nat : x <= x + y
    OBVIOUS
  <1>7. Len(request.head) <= Len(Program)
    BY <1>4, <1>5, <1>6, ZenonT(40)
  <1> QED
    BY <1>2, <1>4, <1>5, <1>7, ZenonT(40)

\* The streams are sequences of bytes.
LEMMA CatType ==
  /\ \A a, b, c \in Seq(Int) : (a \o b) \o c \in Seq(Int)
  /\ \A a, b, c, d \in Seq(Int) : ((a \o b) \o c) \o d \in Seq(Int)
  <1>1. \A a, b \in Seq(Int) : a \o b \in Seq(Int)
    BY Cat
  <1> QED
    BY <1>1, ZenonT(40)

\* The streams are sequences of bytes, before and after a step.
LEMMA StreamsType ==
  /\ StreamTypes => ClientStream \in Seq(Int) /\ RemoteStream \in Seq(Int)
  /\ StreamTypes' => ClientStream' \in Seq(Int) /\ RemoteStream' \in Seq(Int)
  <1>1. ASSUME StreamTypes
        PROVE  ClientStream \in Seq(Int) /\ RemoteStream \in Seq(Int)
    <2>1. /\ bytes \in Seq(Int) /\ arrived["client"] \in Seq(Int)
          /\ prefetched["client"] \in Seq(Int) /\ inflight["client"] \in Seq(Int)
          /\ arrived["upstream"] \in Seq(Int) /\ prefetched["upstream"] \in Seq(Int)
          /\ inflight["upstream"] \in Seq(Int)
      BY <1>1, TwoEndpoints DEF StreamTypes
    <2> QED
      BY <2>1, CatType, ZenonT(40) DEF ClientStream, RemoteStream
  <1>2. ASSUME StreamTypes'
        PROVE  ClientStream' \in Seq(Int) /\ RemoteStream' \in Seq(Int)
    <2>1. /\ bytes' \in Seq(Int) /\ arrived'["client"] \in Seq(Int)
          /\ prefetched'["client"] \in Seq(Int) /\ inflight'["client"] \in Seq(Int)
          /\ arrived'["upstream"] \in Seq(Int) /\ prefetched'["upstream"] \in Seq(Int)
          /\ inflight'["upstream"] \in Seq(Int)
      BY <1>2, TwoEndpoints DEF StreamTypes
    <2> QED
      BY <2>1, CatType, ZenonT(40) DEF ClientStream, RemoteStream
  <1> QED
    BY <1>1, <1>2

\* The parts of StreamInv make it up again, stream by stream: it is as it
\* was, or all of it is there, or it is shown otherwise.
LEMMA Recombine ==
  ASSUME StreamInv, StreamTypes', Pieces', request' = request,
         \/ /\ ClientStream' = ClientStream /\ sent'["client"] = sent["client"]
            /\ "client" \in reset' <=> "client" \in reset
         \/ ClientStream' = SubSeq(Program, 1, sent'["client"])
         \/ ClientKept',
         \/ /\ RemoteStream' = RemoteStream /\ sent'["upstream"] = sent["upstream"]
            /\ "upstream" \in reset' <=> "upstream" \in reset
         \/ RemoteStream' = Data(sent'["upstream"])
         \/ RemoteKept'
  PROVE  StreamInv'
  <1>1. Program' = Program
    BY DEF Program
  <1>2. ClientStream' \in Seq(Int) /\ RemoteStream' \in Seq(Int)
    BY StreamsType
  <1>3. \A s \in Seq(Int) : s \o <<>> = s /\ <<>> \in Seq(Int)
    BY Empty
  <1>4. ClientKept'
    <2>1. CASE /\ ClientStream' = ClientStream /\ sent'["client"] = sent["client"]
               /\ "client" \in reset' <=> "client" \in reset
      <3>1. PICK t \in Seq(Int) : /\ ClientStream \o t = SubSeq(Program, 1, sent["client"])
                                  /\ "client" \notin reset => t = <<>>
        BY ZenonT(40) DEF StreamInv, ClientKept, ClientGone, Kept
      <3>2. /\ ClientStream' \o t = SubSeq(Program', 1, sent'["client"])
            /\ "client" \notin reset' => t = <<>>
        BY <1>1, <2>1, <3>1, ZenonT(40)
      <3> QED
        BY <3>2, ZenonT(40) DEF ClientKept, ClientGone, Kept
    <2>2. CASE ClientStream' = SubSeq(Program, 1, sent'["client"])
      <3>1. ClientStream' \o <<>> = SubSeq(Program', 1, sent'["client"])
        BY <1>1, <1>2, <1>3, <2>2, ZenonT(40)
      <3> QED
        BY <1>2, <1>3, <3>1, ZenonT(40) DEF ClientKept, ClientGone, Kept
    <2> QED
      BY <2>1, <2>2
  <1>5. RemoteKept'
    <2>1. CASE /\ RemoteStream' = RemoteStream /\ sent'["upstream"] = sent["upstream"]
               /\ "upstream" \in reset' <=> "upstream" \in reset
      <3>1. PICK t \in Seq(Int) : /\ RemoteStream \o t = Data(sent["upstream"])
                                  /\ "upstream" \notin reset => t = <<>>
        BY DEF StreamInv, RemoteKept, Kept
      <3>2. /\ RemoteStream' \o t = Data(sent'["upstream"])
            /\ "upstream" \notin reset' => t = <<>>
        BY <2>1, <3>1, ZenonT(40)
      <3> QED
        BY <3>2, ZenonT(40) DEF RemoteKept, Kept
    <2>2. CASE RemoteStream' = Data(sent'["upstream"])
      <3>1. RemoteStream' \o <<>> = Data(sent'["upstream"])
        BY <1>2, <1>3, <2>2, ZenonT(40)
      <3> QED
        BY <1>2, <1>3, <3>1, ZenonT(40) DEF RemoteKept, Kept
    <2> QED
      BY <2>1, <2>2
  <1> QED
    BY <1>4, <1>5 DEF StreamInv

\* The streams of connections that have not failed are what was sent.
LEMMA Streams ==
  ASSUME StreamInv
  PROVE  /\ "client" \notin reset => ClientStream = SubSeq(Program, 1, sent["client"])
         /\ "upstream" \notin reset => RemoteStream = Data(sent["upstream"])
  <1>1. ClientStream \in Seq(Int) /\ RemoteStream \in Seq(Int)
    BY StreamsType DEF StreamInv
  <1> QED
    BY <1>1, Empty, ZenonT(40) DEF StreamInv, ClientKept, RemoteKept, Kept, ClientGone

\* A step that leaves all bytes where they are.
LEMMA KeepsStreams ==
  ASSUME StreamInv, Pieces', reset' = reset,
         UNCHANGED <<inflight, arrived, prefetched, bytes, sent, request>>
  PROVE  StreamInv'
  <1>1. StreamTypes'
    BY ZenonT(40) DEF StreamInv, StreamTypes, Program
  <1>2. ClientStream' = ClientStream /\ RemoteStream' = RemoteStream
    BY DEF ClientStream, RemoteStream
  <1> QED
    BY <1>1, <1>2, Streams, Recombine

\* Every step but those that move bytes.
LEMMA QuietSteps ==
  ASSUME Replying, StreamInv,
         \/ HeadFails \/ SendError \/ LookupReturns \/ LookupTimeout
         \/ Dial \/ DialTimeout \/ SendEstablished \/ ClientReceives \/ Resolve
         \/ UNCHANGED vars
  PROVE  StreamInv'
  <1>1. UNCHANGED <<inflight, arrived, prefetched, bytes, sent, request, reset>>
    BY ZenonT(40) DEF HeadFails, SendError, LookupReturns, LookupTimeout, Route, Dial,
           DialTimeout, SendEstablished, ClientReceives, Resolve, vars, wires,
           head, choices
  <1>2. Pieces'
    <2>1. CASE HeadFails
      BY <1>1, <2>1, ZenonT(40) DEF HeadFails, Refuse, connection, StreamInv, Pieces,
                        NotConnected, Before
    <2>2. CASE SendError
      BY <1>1, <2>2, ZenonT(40) DEF SendError, StreamInv, Pieces, NotConnected, Before
    <2>3. CASE LookupReturns \/ LookupTimeout
      BY <1>1, <2>3 DEF LookupReturns, LookupTimeout, Route, StreamInv, Pieces,
                        NotConnected, Before
    <2>4. CASE Dial
      BY <1>1, <2>4 DEF Dial, DirectFails, Refuse, StreamInv, Pieces,
                        NotConnected, Before
    <2>5. CASE DialTimeout
      BY <1>1, <2>5 DEF DialTimeout, DirectFails, Refuse, connection, StreamInv,
                        Pieces, NotConnected, Before
    <2>6. CASE SendEstablished
      BY <1>1, <2>6 DEF SendEstablished, StreamInv, Pieces, NotConnected, Before
    <2>7. CASE ClientReceives \/ Resolve \/ UNCHANGED vars
      BY <1>1, <2>7 DEF ClientReceives, Resolve, vars, connection, StreamInv, Pieces
    <2> QED
      BY <2>1, <2>2, <2>3, <2>4, <2>5, <2>6, <2>7
  <1> QED
    BY <1>1, <1>2, KeepsStreams

\* One read of the head takes at most one read's worth of what has come.
LEMMA FillTakes ==
  ASSUME StreamTypes, FillHead
  PROVE  \E f, q \in Seq(Int) :
            /\ Len(f) \in 1..ReadSize
            /\ Len(bytes) + Len(f) <= MaxHeaderBytes
            /\ inflight["client"] = f \o q
            /\ bytes' = bytes \o f
            /\ inflight' = [inflight EXCEPT !["client"] = q]
  <1>1. PICK n \in 1..Min({ReadLimit, Len(inflight["client"])}) :
           /\ bytes' = bytes \o SubSeq(inflight["client"], 1, n)
           /\ inflight' = [inflight EXCEPT !["client"] =
                 SubSeq(inflight["client"], n + 1, Len(inflight["client"]))]
    BY ZenonT(40) DEF FillHead
  <1> DEFINE s == inflight["client"]
  <1>2. s \in Seq(Int) /\ Len(s) \in Nat /\ Len(bytes) \in Nat
    BY TwoEndpoints, LenProperties DEF StreamTypes
  <1>3. ReadSize \in Nat /\ MaxHeaderBytes \in Nat
    BY SessionBounds
  <1>4. /\ ReadLimit \in Int /\ ReadLimit <= ReadSize
        /\ ReadLimit <= MaxHeaderBytes - Len(bytes)
    <2>1. Room \in Int /\ ReadSize \in Int /\ Room = MaxHeaderBytes - Len(bytes)
      BY <1>2, <1>3 DEF Room
    <2>2. /\ Min({ReadSize, Room}) \in Int /\ Min({ReadSize, Room}) <= ReadSize
          /\ Min({ReadSize, Room}) <= MaxHeaderBytes - Len(bytes)
      BY <2>1, MinPair, ZenonT(40)
    <2> QED
      BY <2>2 DEF ReadLimit
  <1>5. n \in Nat /\ n > 0 /\ n <= ReadLimit /\ n <= Len(s)
    <2> DEFINE m == Len(s)
    <2>1. m \in Int /\ ReadLimit \in Int /\ n \in 1..Min({ReadLimit, m})
      BY <1>1, <1>2, <1>4
    <2> HIDE DEF m
    <2>2. /\ Min({ReadLimit, m}) \in Int
          /\ Min({ReadLimit, m}) <= ReadLimit /\ Min({ReadLimit, m}) <= m
      BY <2>1, MinPair
    <2>3. n \in Nat /\ n > 0 /\ n <= ReadLimit /\ n <= m
      BY <2>1, <2>2
    <2> QED
      BY <2>3 DEF m
  <1>6. /\ n \in 0..Len(s) /\ n \in 1..ReadSize
        /\ Len(bytes) + n <= MaxHeaderBytes
    BY <1>2, <1>3, <1>4, <1>5
  <1> HIDE DEF s
  <1>7. /\ SubSeq(s, 1, n) \in Seq(Int) /\ Len(SubSeq(s, 1, n)) = n
        /\ SubSeq(s, n + 1, Len(s)) \in Seq(Int)
        /\ SubSeq(s, 1, n) \o SubSeq(s, n + 1, Len(s)) = s
    BY <1>2, <1>6, Cut
  <1>8. s = inflight["client"]
    BY DEF s
  <1>9. /\ Len(SubSeq(s, 1, n)) \in 1..ReadSize
        /\ Len(bytes) + Len(SubSeq(s, 1, n)) <= MaxHeaderBytes
    BY <1>6, <1>7, ZenonT(40)
  <1> QED
    BY <1>1, <1>7, <1>8, <1>9, ZenonT(40)

\* read_request_head reads.
LEMMA FillKeepsStreams ==
  ASSUME StreamInv, FillHead
  PROVE  StreamInv'
  <1>1. PICK f \in Seq(Int), q \in Seq(Int) :
            /\ inflight["client"] = f \o q
            /\ bytes' = bytes \o f
            /\ inflight' = [inflight EXCEPT !["client"] = q]
    BY FillTakes, ZenonT(40) DEF StreamInv
  <1>2. /\ pc = "read_head"
        /\ UNCHANGED <<arrived, reset, sent, request, pc, prefetched, remote>>
    BY DEF FillHead, ReadHead, choices, connection
  <1>3. bytes \in Seq(Int) /\ bytes \o f \in Seq(Int)
    BY Cat DEF StreamInv, StreamTypes
  <1>4. /\ inflight'["client"] = q /\ inflight'["upstream"] = inflight["upstream"]
        /\ inflight' \in [Endpoints -> Seq(Int)]
    BY <1>1, TwoEndpoints DEF StreamInv, StreamTypes
  <1>5. StreamTypes'
    BY <1>1, <1>2, <1>3, <1>4, ZenonT(40) DEF StreamInv, StreamTypes, Program
  <1>6. Pieces'
    BY <1>2, <1>4 DEF StreamInv, Pieces
  <1>7. RemoteStream' = RemoteStream
    BY <1>2, <1>4 DEF RemoteStream
  <1>8. ClientStream' = ClientStream
    <2>1. arrived["client"] = <<>> /\ prefetched["client"] = <<>>
      BY <1>2 DEF StreamInv, Pieces
    <2>2. (((bytes \o f) \o <<>>) \o <<>>) \o q = ((bytes \o <<>>) \o <<>>) \o (f \o q)
      <3>1. bytes \in Seq(Int) /\ f \in Seq(Int) /\ q \in Seq(Int)
        BY <1>3
      <3> QED
        BY <3>1, FillMoves, ZenonT(40)
    <2>3. arrived' = arrived /\ prefetched' = prefetched
      BY <1>2
    <2> QED
      BY <1>1, <1>4, <2>1, <2>2, <2>3, ZenonT(40) DEF ClientStream
  <1> QED
    BY <1>2, <1>5, <1>6, <1>7, <1>8, Streams, Recombine

\* What follows the head is kept.
LEMMA TakeKeepsStreams ==
  ASSUME StreamInv, TakeHead
  PROVE  StreamInv'
  <1> DEFINE n == HeaderEnd(bytes)
             h == SubSeq(bytes, 1, n)
             t == SubSeq(bytes, n + 1, Len(bytes))
  <1>1. /\ pc = "read_head" /\ HeaderEnds(bytes) # {}
        /\ prefetched' = [prefetched EXCEPT !["client"] = t]
        /\ bytes' = h
        /\ UNCHANGED <<inflight, arrived, reset, sent, request, remote>>
    BY DEF TakeHead, BeyondHead, wires, choices
  <1>2. pc' \in {"send_error", "lookup", "upstream"}
    BY DEF TakeHead, Judge, Establish, Refuse
  <1>3. bytes \in Seq(Int) /\ inflight["client"] \in Seq(Int)
    BY TwoEndpoints DEF StreamInv, StreamTypes
  <1>4. n \in 0..Len(bytes)
    BY <1>1, <1>3, HeaderEndBounds
  <1> HIDE DEF n
  <1>5. h \in Seq(Int) /\ t \in Seq(Int) /\ h \o t = bytes
    BY <1>3, <1>4, Cut, ZenonT(40)
  <1> HIDE DEF h, t
  <1>6. /\ prefetched'["client"] = t /\ prefetched'["upstream"] = prefetched["upstream"]
        /\ prefetched' \in [Endpoints -> Seq(Int)]
    BY <1>1, <1>5, TwoEndpoints DEF StreamInv, StreamTypes
  <1>7. StreamTypes'
    BY <1>1, <1>5, <1>6, ZenonT(40) DEF StreamInv, StreamTypes, Program
  <1>8. Pieces'
    BY <1>1, <1>2, <1>6 DEF StreamInv, Pieces, NotConnected, Before
  <1>9. RemoteStream' = RemoteStream
    BY <1>1, <1>6, ZenonT(40) DEF RemoteStream
  <1>10. ClientStream' = ClientStream
    <2>1. arrived["client"] = <<>> /\ prefetched["client"] = <<>>
      BY <1>1 DEF StreamInv, Pieces
    <2>2. ((h \o <<>>) \o t) \o inflight["client"]
             = (((h \o t) \o <<>>) \o <<>>) \o inflight["client"]
      <3> DEFINE i == inflight["client"]
      <3>1. h \in Seq(Int) /\ t \in Seq(Int) /\ i \in Seq(Int)
        BY <1>3, <1>5
      <3> HIDE DEF i
      <3>2. ((h \o <<>>) \o t) \o i = (((h \o t) \o <<>>) \o <<>>) \o i
        BY <3>1, TakeMoves, ZenonT(40)
      <3> QED
        BY <3>2 DEF i
    <2>3. arrived' = arrived /\ inflight' = inflight /\ bytes' = h
      BY <1>1
    <2> QED
      BY <1>5, <1>6, <2>1, <2>2, <2>3, ZenonT(40) DEF ClientStream
  <1> QED
    BY <1>1, <1>7, <1>8, <1>9, <1>10, Streams, Recombine

\* The exchange with the upstream proxy leaves what was read too far.
LEMMA UpstreamKeepsStreams ==
  ASSUME StreamInv, Upstream
  PROVE  StreamInv'
  <1>1. /\ pc = "upstream"
        /\ UNCHANGED <<inflight, arrived, reset, bytes, request>>
    BY DEF Upstream, wires, choices
  <1>2. CASE Refuse(502) /\ UNCHANGED <<remote, sent, prefetched>>
    <2>1. Pieces'
      BY <1>1, <1>2 DEF Refuse, StreamInv, Pieces, NotConnected, Before
    <2> QED
      BY <1>1, <1>2, <2>1, KeepsStreams
  <1>3. ASSUME NEW n \in Nat, pc' = "established",
               prefetched' = [prefetched EXCEPT !["upstream"] = Data(n)],
               sent' = [sent EXCEPT !["upstream"] = n]
        PROVE  StreamInv'
    <2>1. /\ prefetched'["client"] = prefetched["client"]
          /\ prefetched'["upstream"] = Data(n)
          /\ sent'["client"] = sent["client"] /\ sent'["upstream"] = n
      BY <1>3, TwoEndpoints DEF StreamInv, StreamTypes
    <2>2. Data(n) \in Seq(Int)
      BY DataGrows, ZenonT(40)
    <2>3. StreamTypes'
      BY <1>1, <1>3, <2>1, <2>2, ZenonT(40) DEF StreamInv, StreamTypes, Program
    <2>4. Pieces'
      BY <1>1, <1>3, <2>1 DEF StreamInv, Pieces, NotConnected, Before
    <2>5. ClientStream' = ClientStream
      BY <1>1, <2>1 DEF ClientStream
    <2>6. RemoteStream' = Data(n)
      <3>1. arrived["upstream"] = <<>> /\ inflight["upstream"] = <<>>
        BY <1>1 DEF StreamInv, Pieces, NotConnected, Before
      <3>2. (<<>> \o Data(n)) \o <<>> = Data(n)
        BY <2>2, Empty
      <3>3. arrived' = arrived /\ inflight' = inflight
        BY <1>1
      <3> QED
        BY <2>1, <3>1, <3>2, <3>3, ZenonT(40) DEF RemoteStream
    <2> QED
      BY <1>1, <2>1, <2>3, <2>4, <2>5, <2>6, Streams, Recombine
  <1>4. RemoteSends \in Nat /\ ReadSize \in Nat
    BY SessionBounds
  <1>5. \A n \in 0..Min({ReadSize - 1, RemoteSends}) : n \in Nat
    <2> DEFINE r == ReadSize - 1
    <2>1. r \in Int
      BY <1>4
    <2> HIDE DEF r
    <2>2. Min({r, RemoteSends}) \in Int
      BY <1>4, <2>1, MinPair
    <2> QED
      BY <2>2 DEF r
  <1> QED
    BY <1>2, <1>3, <1>5 DEF Upstream

\* What was read too far is written before the relay runs.
LEMMA FlushKeepsStreams ==
  ASSUME StreamInv, Flush
  PROVE  StreamInv'
  <1>1. UNCHANGED <<inflight, reset, sent, request, bytes, remote>>
    BY DEF Flush, choices, connection
  <1>2. CASE pc' = "closed" /\ UNCHANGED <<arrived, prefetched>>
    <2>1. Pieces'
      BY <1>2 DEF Pieces, NotConnected, Before
    <2> QED
      BY <1>1, <1>2, <2>1, KeepsStreams
  <1>3. ASSUME NEW d \in Endpoints,
               \/ d = "client" /\ pc' = "write_client"
               \/ d = "upstream" /\ pc = "write_client" /\ pc' = "relay",
               arrived' = [arrived EXCEPT ![d] = arrived[d] \o prefetched[d]],
               prefetched' = [prefetched EXCEPT ![d] = <<>>]
        PROVE  StreamInv'
    <2> DEFINE a == arrived[d]
               p == prefetched[d]
    <2>1. a \in Seq(Int) /\ p \in Seq(Int) /\ bytes \in Seq(Int)
      BY DEF StreamInv, StreamTypes
    <2>2. a \o p \in Seq(Int) /\ <<>> \in Seq(Int)
      BY <2>1, Cat, Empty
    <2>3. /\ arrived'[d] = a \o p /\ prefetched'[d] = <<>>
          /\ \A e \in Endpoints : e # d => /\ arrived'[e] = arrived[e]
                                         /\ prefetched'[e] = prefetched[e]
      BY <1>3 DEF StreamInv, StreamTypes
    <2>4. /\ arrived' \in [Endpoints -> Seq(Int)]
          /\ prefetched' \in [Endpoints -> Seq(Int)]
      BY <1>3, <2>2 DEF StreamInv, StreamTypes
    <2> HIDE DEF a, p
    <2>5. StreamTypes'
      BY <1>1, <2>4, ZenonT(40) DEF StreamInv, StreamTypes, Program
    <2>6. Pieces'
      BY <1>1, <1>3, <2>3, TwoEndpoints DEF StreamInv, Pieces, NotConnected, Before
    <2>7. /\ (bytes \o (a \o p)) \o <<>> = (bytes \o a) \o p
          /\ (a \o p) \o <<>> = a \o p
      BY <2>1, FlushMoves, ZenonT(40)
    <2>8. bytes' = bytes /\ inflight' = inflight
      BY <1>1
    <2>9. ClientStream' = ClientStream /\ RemoteStream' = RemoteStream
      <3>1. CASE d = "client"
        <4>1. /\ arrived'["upstream"] = arrived["upstream"]
              /\ prefetched'["upstream"] = prefetched["upstream"]
          BY <2>3, <3>1, TwoEndpoints
        <4>2. arrived'["client"] = a \o p /\ prefetched'["client"] = <<>>
          BY <2>3, <3>1
        <4>3. a = arrived["client"] /\ p = prefetched["client"]
          BY <3>1 DEF a, p
        <4> QED
          BY <2>7, <2>8, <4>1, <4>2, <4>3, ZenonT(40) DEF ClientStream, RemoteStream
      <3>2. CASE d = "upstream"
        <4>1. /\ arrived'["client"] = arrived["client"]
              /\ prefetched'["client"] = prefetched["client"]
          BY <2>3, <3>2, TwoEndpoints
        <4>2. arrived'["upstream"] = a \o p /\ prefetched'["upstream"] = <<>>
          BY <2>3, <3>2
        <4>3. a = arrived["upstream"] /\ p = prefetched["upstream"]
          BY <3>2 DEF a, p
        <4> QED
          BY <2>7, <2>8, <4>1, <4>2, <4>3, ZenonT(40) DEF ClientStream, RemoteStream
      <3> QED
        BY <3>1, <3>2 DEF Endpoints, T!Endpoints
    <2> QED
      BY <1>1, <2>5, <2>6, <2>9, Streams, Recombine
  <1> QED
    BY <1>2, <1>3, TwoEndpoints, ZenonT(40)
       DEF Flush, WriteClientPrefetched, WritePrefetched, Abandon

\* One step of the relay forwards some of what has come from one side.
LEMMA ForwardTakes ==
  ASSUME StreamTypes, NEW d \in Endpoints, T!Forward(d)
  PROVE  \E f, q \in Seq(Int) :
            /\ inflight[d] = f \o q
            /\ arrived' = [arrived EXCEPT ![d] = arrived[d] \o f]
            /\ inflight' = [inflight EXCEPT ![d] = q]
  <1> DEFINE s == inflight[d]
  <1>1. PICK n \in 1..Len(s) :
           /\ arrived' = [arrived EXCEPT ![d] = arrived[d] \o SubSeq(s, 1, n)]
           /\ inflight' = [inflight EXCEPT ![d] = SubSeq(s, n + 1, Len(s))]
    BY ZenonT(40) DEF T!Forward
  <1>2. s \in Seq(Int)
    BY DEF StreamTypes
  <1>3. s = inflight[d]
    OBVIOUS
  <1> HIDE DEF s
  <1>4. n \in 0..Len(s)
    BY <1>2, LenProperties
  <1>5. /\ SubSeq(s, 1, n) \in Seq(Int)
        /\ SubSeq(s, n + 1, Len(s)) \in Seq(Int)
        /\ SubSeq(s, 1, n) \o SubSeq(s, n + 1, Len(s)) = s
    BY <1>2, <1>4, Cut
  <1> QED
    BY <1>1, <1>3, <1>5, ZenonT(40)

\* relay_bidirectional moves bytes on, in order.
LEMMA RelayKeepsStreams ==
  ASSUME StreamInv, Relay
  PROVE  StreamInv'
  <1>1. /\ pc = "relay" /\ pc' \in {"relay", "closed"}
        /\ UNCHANGED <<sent, request, bytes, prefetched, remote>>
    BY DEF Relay, choices, head, connection
  <1>2. reset' = reset
    BY DEF Relay, T!Forward, T!ForwardEof, T!Fail, T!TimeOut
  <1>3. Pieces'
    BY <1>1 DEF StreamInv, Pieces, NotConnected, Before
  <1>4. CASE UNCHANGED <<inflight, arrived>>
    BY <1>1, <1>2, <1>3, <1>4, KeepsStreams
  <1>5. ASSUME NEW d \in Endpoints, T!Forward(d)
        PROVE  StreamInv'
    <2>1. PICK f \in Seq(Int), q \in Seq(Int) :
             /\ inflight[d] = f \o q
             /\ arrived' = [arrived EXCEPT ![d] = arrived[d] \o f]
             /\ inflight' = [inflight EXCEPT ![d] = q]
      BY <1>5, ForwardTakes, ZenonT(40) DEF StreamInv
    <2> DEFINE a == arrived[d]
    <2>2. a \in Seq(Int) /\ bytes \in Seq(Int)
      BY DEF StreamInv, StreamTypes
    <2>3. a \o f \in Seq(Int) /\ bytes \o a \in Seq(Int)
      BY <2>2, Cat
    <2>4. /\ arrived'[d] = a \o f /\ inflight'[d] = q
          /\ \A e \in Endpoints : e # d => /\ arrived'[e] = arrived[e]
                                         /\ inflight'[e] = inflight[e]
      BY <2>1, SMTT(40) DEF StreamInv, StreamTypes
    <2>5. /\ arrived' \in [Endpoints -> Seq(Int)]
          /\ inflight' \in [Endpoints -> Seq(Int)]
      BY <2>1, <2>3 DEF StreamInv, StreamTypes
    <2> HIDE DEF a
    <2>6. StreamTypes'
      BY <1>1, <2>5, ZenonT(40) DEF StreamInv, StreamTypes, Program
    <2>7. ((a \o f) \o <<>>) \o q = (a \o <<>>) \o (f \o q)
      <3>1. a \in Seq(Int) /\ f \in Seq(Int) /\ q \in Seq(Int)
        BY <2>2
      <3> QED
        BY <3>1, ForwardMoves, ZenonT(40)
    <2>8. ((bytes \o (a \o f)) \o <<>>) \o q = ((bytes \o a) \o <<>>) \o (f \o q)
      <3>1. (((bytes \o a) \o f) \o <<>>) \o q = ((bytes \o a) \o <<>>) \o (f \o q)
        <4> DEFINE x == bytes \o a
        <4>1. x \in Seq(Int) /\ f \in Seq(Int) /\ q \in Seq(Int)
          BY <2>3
        <4> HIDE DEF x
        <4>2. ((x \o f) \o <<>>) \o q = (x \o <<>>) \o (f \o q)
          BY <4>1, ForwardMoves, ZenonT(40)
        <4> QED
          BY <4>2 DEF x
      <3>2. (bytes \o a) \o f = bytes \o (a \o f)
        BY <2>2, Assoc
      <3> QED
        BY <3>1, <3>2, ZenonT(40)
    <2>9. prefetched["client"] = <<>> /\ prefetched["upstream"] = <<>>
      BY <1>1 DEF StreamInv, Pieces
    <2>10. bytes' = bytes /\ prefetched' = prefetched
      BY <1>1
    <2>11. ClientStream' = ClientStream /\ RemoteStream' = RemoteStream
      <3>1. CASE d = "client"
        <4>1. /\ arrived'["upstream"] = arrived["upstream"]
              /\ inflight'["upstream"] = inflight["upstream"]
          BY <2>4, <3>1, TwoEndpoints
        <4>2. /\ arrived'["client"] = a \o f /\ inflight'["client"] = q
              /\ inflight["client"] = f \o q
          BY <2>1, <2>4, <3>1, SMTT(40)
        <4>3. a = arrived["client"]
          BY <3>1 DEF a
        <4> QED
          BY <2>8, <2>9, <2>10, <4>1, <4>2, <4>3, ZenonT(40) DEF ClientStream, RemoteStream
      <3>2. CASE d = "upstream"
        <4>1. /\ arrived'["client"] = arrived["client"]
              /\ inflight'["client"] = inflight["client"]
          BY <2>4, <3>2, TwoEndpoints
        <4>2. /\ arrived'["upstream"] = a \o f /\ inflight'["upstream"] = q
              /\ inflight["upstream"] = f \o q
          BY <2>1, <2>4, <3>2, SMTT(40)
        <4>3. a = arrived["upstream"]
          BY <3>2 DEF a
        <4> QED
          BY <2>7, <2>9, <2>10, <4>1, <4>2, <4>3, ZenonT(40) DEF ClientStream, RemoteStream
      <3> QED
        BY <3>1, <3>2 DEF Endpoints, T!Endpoints
    <2> QED
      BY <1>1, <1>2, <1>3, <2>6, <2>11, Streams, Recombine
  <1> QED
    BY <1>4, <1>5 DEF Relay, T!ForwardEof, T!Fail, T!TimeOut

\* The client sends the next part of what it has to send.
LEMMA ClientSendsNext ==
  ASSUME StreamTypes, ClientSends
  PROVE  \E f \in Seq(Int), m \in Nat :
            /\ m <= Len(Program)
            /\ SubSeq(Program, 1, sent["client"]) \o f = SubSeq(Program, 1, m)
            /\ inflight' = [inflight EXCEPT !["client"] = inflight["client"] \o f]
            /\ sent' = [sent EXCEPT !["client"] = m]
  <1> DEFINE k == sent["client"]
             n == IF k = 0 THEN Len(request.head) ELSE 1
             m == k + n
             f == SubSeq(Program, k + 1, m)
  <1>1. /\ Program \in Seq(Int) /\ Len(Program) \in Nat
        /\ Len(request.head) \in Nat /\ Len(request.head) <= Len(Program)
    BY ProgramType
  <1>2. k \in Nat /\ k < Len(Program)
    BY TwoEndpoints DEF StreamTypes, ClientSends
  <1>3. /\ inflight' = [inflight EXCEPT !["client"] = inflight["client"] \o f]
        /\ sent' = [sent EXCEPT !["client"] = m]
    BY DEF ClientSends, T!Send
  <1> HIDE DEF k
  <1>4. n \in Nat
    BY <1>1
  <1>5. m \in Nat /\ k <= m
    BY <1>2, <1>4
  <1>6. m <= Len(Program)
    BY <1>1, <1>2
  <1> HIDE DEF n, m
  <1>7. /\ 1 \in 1..(Len(Program) + 1) /\ k \in (1 - 1)..Len(Program)
        /\ m \in k..Len(Program)
    BY <1>1, <1>2, <1>5, <1>6
  <1>8. SubSeq(Program, 1, k) \o f = SubSeq(Program, 1, m)
    BY <1>1, <1>7, ConcatAdjacentSubSeq, SMTT(40)
  <1>9. f \in Seq(Int)
    <2>1. \A i \in 1..Len(Program) : Program[i] \in Int
      BY <1>1, ElementOfSeq
    <2>2. k + 1 \in Int /\ m \in Int
      BY <1>2, <1>5
    <2>3. \A i \in (k + 1)..m : Program[i] \in Int
      BY <1>1, <1>2, <1>5, <1>6, <2>1
    <2> QED
      BY <2>2, <2>3, SubSeqProperties
  <1>10. k = sent["client"]
    BY DEF k
  <1> HIDE DEF f
  <1> QED
    BY <1>3, <1>5, <1>6, <1>8, <1>9, <1>10, ZenonT(40)

\* What the client sends goes to the end of its stream.
LEMMA ClientSendsKeepsStreams ==
  ASSUME StreamInv, ClientSends
  PROVE  StreamInv'
  <1>1. PICK f \in Seq(Int), m \in Nat :
            /\ m <= Len(Program)
            /\ SubSeq(Program, 1, sent["client"]) \o f = SubSeq(Program, 1, m)
            /\ inflight' = [inflight EXCEPT !["client"] = inflight["client"] \o f]
            /\ sent' = [sent EXCEPT !["client"] = m]
    BY ClientSendsNext, ZenonT(40) DEF StreamInv
  <1>2. /\ UNCHANGED <<arrived, reset, request, pc, bytes, prefetched, remote>>
        /\ "client" \notin reset
    BY DEF ClientSends, T!Send, choices, head, connection
  <1> DEFINE x == (bytes \o arrived["client"]) \o prefetched["client"]
             i == inflight["client"]
  <1>3. /\ bytes \in Seq(Int) /\ arrived["client"] \in Seq(Int)
        /\ prefetched["client"] \in Seq(Int) /\ i \in Seq(Int)
    BY TwoEndpoints DEF StreamInv, StreamTypes
  <1>4. x \in Seq(Int)
    <2>1. bytes \o arrived["client"] \in Seq(Int)
      BY <1>3, Cat
    <2> QED
      BY <1>3, <2>1, Cat
  <1>5. i \o f \in Seq(Int)
    BY <1>3, Cat
  <1>6. /\ inflight'["client"] = i \o f /\ inflight'["upstream"] = inflight["upstream"]
        /\ sent'["client"] = m /\ sent'["upstream"] = sent["upstream"]
        /\ inflight' \in [Endpoints -> Seq(Int)] /\ sent' \in [Endpoints -> Nat]
    BY <1>1, <1>5, TwoEndpoints DEF StreamInv, StreamTypes
  <1>7. StreamTypes'
    BY <1>1, <1>2, <1>6, ZenonT(40) DEF StreamInv, StreamTypes, Program
  <1>8. Pieces'
    BY <1>2, <1>6 DEF StreamInv, Pieces
  <1>9. RemoteStream' = RemoteStream
    BY <1>2, <1>6 DEF RemoteStream
  <1>10. ClientStream' = SubSeq(Program, 1, m)
    <2>1. x \o i = SubSeq(Program, 1, sent["client"])
      BY <1>2, Streams, ZenonT(40) DEF ClientStream
    <2>2. ClientStream' = x \o (i \o f)
      BY <1>2, <1>6 DEF ClientStream
    <2> HIDE DEF x, i
    <2>3. x \o (i \o f) = (x \o i) \o f
      <3>1. x \in Seq(Int) /\ i \in Seq(Int) /\ f \in Seq(Int)
        BY <1>3, <1>4
      <3> QED
        BY <3>1, SendMoves, ZenonT(40)
    <2> QED
      BY <1>1, <2>1, <2>2, <2>3, ZenonT(40)
  <1> QED
    BY <1>2, <1>6, <1>7, <1>8, <1>9, <1>10, Streams, Recombine

\* The remote end sends the next byte of its stream.
LEMMA RemoteSendsKeepsStreams ==
  ASSUME StreamInv, RemoteSendsByte
  PROVE  StreamInv'
  <1> DEFINE k == sent["upstream"]
             x == arrived["upstream"] \o prefetched["upstream"]
             i == inflight["upstream"]
             f == <<k + 1>>
  <1>1. /\ UNCHANGED <<arrived, reset, request, pc, bytes, prefetched, remote>>
        /\ "upstream" \notin reset /\ remote # "none"
        /\ inflight' = [inflight EXCEPT !["upstream"] = i \o f]
        /\ sent' = [sent EXCEPT !["upstream"] = k + 1]
    BY DEF RemoteSendsByte, T!Send, choices, head, connection
  <1>2. /\ arrived["upstream"] \in Seq(Int) /\ prefetched["upstream"] \in Seq(Int)
        /\ i \in Seq(Int) /\ k \in Nat
    BY TwoEndpoints DEF StreamInv, StreamTypes
  <1>3. k + 1 \in Nat /\ f \in Seq(Int)
    BY <1>2
  <1>4. x \in Seq(Int) /\ i \o f \in Seq(Int)
    BY <1>2, <1>3, Cat
  <1>5. /\ inflight'["upstream"] = i \o f /\ inflight'["client"] = inflight["client"]
        /\ sent'["upstream"] = k + 1 /\ sent'["client"] = sent["client"]
        /\ inflight' \in [Endpoints -> Seq(Int)] /\ sent' \in [Endpoints -> Nat]
    BY <1>1, <1>3, <1>4, TwoEndpoints, SMTT(40) DEF StreamInv, StreamTypes
  <1>6. StreamTypes'
    BY <1>1, <1>5, ZenonT(40) DEF StreamInv, StreamTypes, Program
  <1>7. Pieces'
    BY <1>1, <1>5 DEF StreamInv, Pieces
  <1>8. ClientStream' = ClientStream
    BY <1>1, <1>5, ZenonT(40) DEF ClientStream
  <1>9. RemoteStream' = Data(k + 1)
    <2>1. x \o i = Data(k)
      BY <1>1, Streams, ZenonT(40) DEF RemoteStream
    <2>2. RemoteStream' = x \o (i \o f)
      BY <1>1, <1>5, ZenonT(40) DEF RemoteStream
    <2>3. Data(k) \o f = Data(k + 1)
      BY <1>2, DataGrows, ZenonT(40)
    <2> HIDE DEF x, i, f
    <2>4. x \o (i \o f) = (x \o i) \o f
      <3>1. x \in Seq(Int) /\ i \in Seq(Int) /\ f \in Seq(Int)
        BY <1>2, <1>3, <1>4
      <3> HIDE DEF x, i, f
      <3> QED
        BY <3>1, SendMoves, ZenonT(40)
    <2> QED
      BY <2>1, <2>2, <2>3, <2>4, ZenonT(40)
  <1> QED
    BY <1>1, <1>5, <1>6, <1>7, <1>8, <1>9, Streams, Recombine

\* The bytes that came last are lost.
LEMMA CutKept ==
  ASSUME NEW x \in Seq(Int), NEW s \in Seq(Int), NEW n \in 0..Len(s),
         NEW whole, NEW gone, Kept(x \o s, whole, gone)
  PROVE  Kept(x \o SubSeq(s, 1, n), whole, TRUE)
  <1>1. PICK t \in Seq(Int) : (x \o s) \o t = whole
    BY ZenonT(40) DEF Kept
  <1>2. PICK r \in Seq(Int) : (x \o SubSeq(s, 1, n)) \o r = (x \o s) \o t
    BY CutBegins, ZenonT(40)
  <1> QED
    BY <1>1, <1>2, ZenonT(40) DEF Kept

\* An endpoint stops sending or its connection fails.
LEMMA HangupKeepsStreams ==
  ASSUME StreamInv, NEW d \in Endpoints, Hangup(d)
  PROVE  StreamInv'
  <1>1. /\ UNCHANGED <<arrived, sent, request, pc, bytes, prefetched, remote>>
        /\ d = "upstream" => remote # "none"
    BY DEF Hangup, T!CloseSending, T!Reset, choices, head, connection
  <1>2. CASE T!CloseSending(d)
    <2>1. UNCHANGED <<inflight, reset>>
      BY <1>2 DEF T!CloseSending
    <2>2. Pieces'
      BY <1>1, <2>1 DEF StreamInv, Pieces
    <2> QED
      BY <1>1, <2>1, <2>2, KeepsStreams
  <1>3. CASE T!Reset(d)
    <2> DEFINE s == inflight[d]
    <2>1. PICK n \in 0..Len(s) : inflight' = [inflight EXCEPT ![d] = SubSeq(s, 1, n)]
      BY <1>3, ZenonT(40) DEF T!Reset
    <2>2. s \in Seq(Int)
      BY DEF StreamInv, StreamTypes
    <2>3. SubSeq(s, 1, n) \in Seq(Int)
      BY <2>2, Cut
    <2>4. /\ inflight' \in [Endpoints -> Seq(Int)]
          /\ \A e \in Endpoints : e # d => inflight'[e] = inflight[e]
      BY <2>1, <2>3 DEF StreamInv, StreamTypes
    <2>5. StreamTypes'
      BY <1>1, <2>4, ZenonT(40) DEF StreamInv, StreamTypes, Program
    <2>6. Pieces'
      BY <1>1, <2>4, TwoEndpoints DEF StreamInv, Pieces
    <2>7. reset' = reset \union {d}
      BY <1>3 DEF T!Reset
    <2>8. inflight'[d] = SubSeq(s, 1, n)
      BY <2>1 DEF StreamInv, StreamTypes
    <2>9. ASSUME NEW x \in Seq(Int), NEW whole, NEW gone, Kept(x \o s, whole, gone)
          PROVE  Kept(x \o SubSeq(s, 1, n), whole, TRUE)
      BY <2>2, <2>9, CutKept, ZenonT(40)
    <2> HIDE DEF s
    <2>10. CASE d = "client"
      <3> DEFINE x == (bytes \o arrived["client"]) \o prefetched["client"]
      <3>1. /\ bytes \in Seq(Int) /\ arrived["client"] \in Seq(Int)
            /\ prefetched["client"] \in Seq(Int)
        BY TwoEndpoints DEF StreamInv, StreamTypes
      <3>2. bytes \o arrived["client"] \in Seq(Int)
        BY <3>1, Cat
      <3>3. x \in Seq(Int)
        BY <3>1, <3>2, Cat
      <3>4. ClientStream = x \o s /\ ClientStream' = x \o SubSeq(s, 1, n)
        BY <1>1, <2>8, <2>10, ZenonT(40) DEF ClientStream, s
      <3>5. Kept(x \o s, SubSeq(Program, 1, sent["client"]), ClientGone)
        BY <3>4 DEF StreamInv, ClientKept
      <3> HIDE DEF x
      <3>6. Kept(x \o SubSeq(s, 1, n), SubSeq(Program, 1, sent["client"]), TRUE)
        BY <2>9, <3>3, <3>5, ZenonT(40)
      <3>7. ClientGone' = TRUE /\ Program' = Program /\ sent' = sent
        BY <1>1, <2>7, <2>10 DEF ClientGone, Program
      <3>8. ClientKept'
        BY <3>4, <3>6, <3>7, ZenonT(40) DEF ClientKept
      <3>9. RemoteStream' = RemoteStream /\ ("upstream" \in reset' <=> "upstream" \in reset)
        BY <1>1, <2>4, <2>7, <2>10, TwoEndpoints, ZenonT(40) DEF RemoteStream
      <3> QED
        BY <1>1, <2>5, <2>6, <3>8, <3>9, Recombine
    <2>11. CASE d = "upstream"
      <3> DEFINE x == arrived["upstream"] \o prefetched["upstream"]
      <3>1. arrived["upstream"] \in Seq(Int) /\ prefetched["upstream"] \in Seq(Int)
        BY TwoEndpoints DEF StreamInv, StreamTypes
      <3>2. x \in Seq(Int)
        BY <3>1, Cat
      <3>3. RemoteStream = x \o s /\ RemoteStream' = x \o SubSeq(s, 1, n)
        BY <1>1, <2>8, <2>11, ZenonT(40) DEF RemoteStream, s
      <3>4. Kept(x \o s, Data(sent["upstream"]), "upstream" \in reset)
        BY <3>3 DEF StreamInv, RemoteKept
      <3> HIDE DEF x
      <3>5. Kept(x \o SubSeq(s, 1, n), Data(sent["upstream"]), TRUE)
        BY <2>9, <3>2, <3>4, ZenonT(40)
      <3>6. ("upstream" \in reset') = TRUE /\ sent' = sent
        BY <1>1, <2>7, <2>11
      <3>7. RemoteKept'
        BY <3>3, <3>5, <3>6, ZenonT(40) DEF RemoteKept
      <3>8. ClientStream' = ClientStream /\ ("client" \in reset' <=> "client" \in reset)
        BY <1>1, <2>4, <2>7, <2>11, TwoEndpoints, ZenonT(40) DEF ClientStream
      <3> QED
        BY <1>1, <2>5, <2>6, <3>7, <3>8, Recombine
    <2> QED
      BY <2>10, <2>11 DEF Endpoints, T!Endpoints
  <1> QED
    BY <1>2, <1>3 DEF Hangup

\* A connection that has just been accepted has carried nothing.
LEMMA InitStreams ==
  ASSUME Init
  PROVE  StreamInv
  <1>1. <<>> \in Seq(Int)
    BY EmptySeq
  <1>2. /\ inflight \in [Endpoints -> Seq(Int)] /\ arrived \in [Endpoints -> Seq(Int)]
        /\ prefetched \in [Endpoints -> Seq(Int)] /\ bytes \in Seq(Int)
        /\ sent \in [Endpoints -> Nat] /\ request \in Requests
        /\ sent["client"] = 0 /\ sent["upstream"] = 0
        /\ inflight["client"] = <<>> /\ inflight["upstream"] = <<>>
        /\ arrived["client"] = <<>> /\ arrived["upstream"] = <<>>
        /\ prefetched["client"] = <<>> /\ prefetched["upstream"] = <<>>
        /\ bytes = <<>> /\ pc = "read_head" /\ remote = "none"
    BY <1>1, TwoEndpoints DEF Init
  <1>3. Program \in Seq(Int) /\ Len(Program) \in Nat
    <2>1. request.head \in Seq({CR, LF, 0}) /\ request.data \in Nat
      BY <1>2, SessionBounds
    <2>2. request.head \in Seq(Int)
      BY <2>1 DEF CR, LF
    <2>3. Data(request.data) \in Seq(Int)
      BY <2>1, DataGrows, ZenonT(40)
    <2> QED
      BY <2>2, <2>3, Cat, LenProperties, ZenonT(40) DEF Program
  <1>4. StreamTypes
    BY <1>2, <1>3 DEF StreamTypes
  <1>5. Pieces
    BY <1>2 DEF Pieces
  <1>6. <<>> \o <<>> = <<>>
    BY <1>1, Empty
  <1>7. SubSeq(Program, 1, 0) = <<>>
    BY <1>3, SubSeqEmpty
  <1>8. Data(0) = <<>>
    BY DataGrows, EmptySeq, ZenonT(40)
  <1>9. ClientStream = SubSeq(Program, 1, sent["client"])
    BY <1>2, <1>6, <1>7, ZenonT(40) DEF ClientStream
  <1>10. RemoteStream = Data(sent["upstream"])
    BY <1>2, <1>6, <1>8, ZenonT(40) DEF RemoteStream
  <1>11. \A x \in Seq(Int) : x \o <<>> = x
    BY Empty
  <1>12. ClientStream \in Seq(Int) /\ RemoteStream \in Seq(Int)
    BY <1>4, StreamsType
  <1>13. ClientKept /\ RemoteKept
    BY <1>1, <1>9, <1>10, <1>11, <1>12, ZenonT(40) DEF ClientKept, RemoteKept, Kept
  <1> QED
    BY <1>4, <1>5, <1>13 DEF StreamInv

\* Every step keeps the streams.
LEMMA NextKeepsStreams ==
  ASSUME Replying, StreamInv, [Next]_vars
  PROVE  StreamInv'
  <1>1. CASE Task
    BY <1>1, FillKeepsStreams, TakeKeepsStreams, UpstreamKeepsStreams,
       FlushKeepsStreams, RelayKeepsStreams, QuietSteps DEF Task
  <1>2. CASE Closed \/ ClientReceives \/ Resolve \/ UNCHANGED vars
    BY <1>2, QuietSteps DEF Closed
  <1> QED
    BY <1>1, <1>2, ClientSendsKeepsStreams, RemoteSendsKeepsStreams,
       HangupKeepsStreams DEF Next

\* The bytes of either stream are kept, in order and once, from the head on,
\* however the reads of the head and of the relay split them, unless the
\* connection they come from fails.
THEOREM SessionKeepsStreams == Spec => []StreamsIntact
  <1>1. Init => Replying /\ StreamInv
    BY InitStreams DEF Init, Replying, Before, After
  <1>2. Replying /\ StreamInv /\ [Next]_vars => Replying' /\ StreamInv'
    BY NextMaps, NextKeepsStreams
  <1>3. StreamInv => StreamsIntact
    BY Streams, ZenonT(40) DEF StreamsIntact, ClientStream, RemoteStream, ClientGone
  <1> QED
    BY <1>1, <1>2, <1>3, PTL DEF Spec

=============================================================================
