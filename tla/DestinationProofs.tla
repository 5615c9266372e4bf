------------------------- MODULE DestinationProofs -------------------------
(***************************************************************************)
(* Proofs about destinations, for texts of any length and any networks and *)
(* addresses: Endpoint::from_str accepts exactly the texts that spell a    *)
(* host and a port, what is printed of these parses to them again, and a   *)
(* network takes in what agrees with it in its leading bits.               *)
(***************************************************************************)
EXTENDS Destination, WellFoundedInduction, TLAPS

\* There is much for the provers to look through here: they get more time.
USE SMTT(40), ZenonT(40)

(***************************************************************************)
(* Sequences, and the least of a set of natural numbers                    *)
(***************************************************************************)

\* The elements of a sequence.
LEMMA ElementOfSeq ==
  ASSUME NEW S, NEW s \in Seq(S), NEW n \in 1..Len(s)
  PROVE  s[n] \in S
  OBVIOUS

\* The empty sequence, and the others.
LEMMA EmptySeq ==
  ASSUME NEW S
  PROVE  /\ <<>> \in Seq(S) /\ Len(<<>>) = 0
         /\ \A s \in Seq(S) : s # <<>> => Len(s) \in Nat \ {0}
  OBVIOUS

\* A sequence is a function.
LEMMA LenProperties ==
  ASSUME NEW S, NEW s \in Seq(S)
  PROVE  Len(s) \in Nat /\ s \in [1..Len(s) -> S] /\ DOMAIN s = 1..Len(s)
  OBVIOUS

\* Two sequences with the same elements are the same.
LEMMA SeqEqual ==
  ASSUME NEW S, NEW s \in Seq(S), NEW t \in Seq(S), Len(s) = Len(t),
         \A i \in 1..Len(s) : s[i] = t[i]
  PROVE  s = t
  OBVIOUS

\* Two sequences, one after the other.
LEMMA ConcatProperties ==
  ASSUME NEW S, NEW s \in Seq(S), NEW t \in Seq(S)
  PROVE  /\ s \o t \in Seq(S) /\ Len(s \o t) = Len(s) + Len(t)
         /\ \A i \in 1..(Len(s) + Len(t)) :
               (s \o t)[i] = IF i <= Len(s) THEN s[i] ELSE t[i - Len(s)]
  OBVIOUS

\* It does not matter how sequences are grouped.
LEMMA ConcatAssociative ==
  ASSUME NEW S, NEW s \in Seq(S), NEW t \in Seq(S), NEW u \in Seq(S)
  PROVE  (s \o t) \o u = s \o (t \o u)
  OBVIOUS

\* A part of a sequence.
LEMMA SubSeqProperties ==
  ASSUME NEW S, NEW s, NEW m \in Int, NEW n \in Int, \A i \in m..n : s[i] \in S
  PROVE  /\ SubSeq(s, m, n) \in Seq(S)
         /\ Len(SubSeq(s, m, n)) = IF m <= n THEN n - m + 1 ELSE 0
         /\ \A i \in 1..(n - m + 1) : SubSeq(s, m, n)[i] = s[m + i - 1]
  OBVIOUS

\* The part of a sequence that has no element.
LEMMA SubSeqEmpty ==
  ASSUME NEW s, NEW m \in Int, NEW n \in Int, n < m
  PROVE  SubSeq(s, m, n) = <<>>
  OBVIOUS

\* The first element of a sequence, and the others.
LEMMA HeadTailProperties ==
  ASSUME NEW S, NEW s \in Seq(S), s # <<>>
  PROVE  /\ Head(s) \in S /\ Tail(s) \in Seq(S) /\ Len(Tail(s)) = Len(s) - 1
         /\ \A i \in 1..Len(Tail(s)) : Tail(s)[i] = s[i + 1]
  OBVIOUS

\* A set of natural numbers has a least element.
LEMMA Least ==
  ASSUME NEW M, M \subseteq Nat, M # {}
  PROVE  \E x \in M : \A y \in M : x <= y
  <1> DEFINE R == OpToRel(<, Nat)
  <1>1. IsWellFoundedOn(R, Nat)
    BY NatLessThanWellFounded, ZenonT(40)
  <1>2. \A x, y \in Nat : x < y => <<x, y>> \in R
    BY DEF OpToRel
  <1> HIDE DEF R
  <1>3. PICK x \in M : \A y \in M : ~(<<y, x>> \in R)
    BY <1>1, WFMin, ZenonT(40)
  <1>4. \A y \in M : x <= y
    <2> SUFFICES ASSUME NEW y \in M PROVE x <= y
      OBVIOUS
    <2>1. x \in Nat /\ y \in Nat
      OBVIOUS
    <2>2. ~(y < x)
      BY <1>2, <1>3, <2>1, ZenonT(40)
    <2> QED
      BY <2>1, <2>2
  <1> QED
    BY <1>4

(***************************************************************************)
(* Texts and their parts                                                   *)
(***************************************************************************)

\* The places of a character in a text.
PlacesOf(t, c) == {i \in 1..Len(t) : t[i] = c}

\* Every character of a text, by its place.
LEMMA TextElements ==
  ASSUME NEW t \in Seq(Characters)
  PROVE  /\ Len(t) \in Nat /\ DOMAIN t = 1..Len(t)
         /\ \A c : c \in ToSet(t) <=> \E i \in 1..Len(t) : t[i] = c
  BY LenProperties DEF ToSet

\* A part of a text.
LEMMA PartOf ==
  ASSUME NEW t \in Seq(Characters), NEW i \in Nat, NEW j \in Nat, 1 <= i, j <= Len(t)
  PROVE  /\ SubSeq(t, i, j) \in Seq(Characters)
         /\ Len(SubSeq(t, i, j)) = IF i <= j THEN j - i + 1 ELSE 0
         /\ \A x \in 1..(j - i + 1) : SubSeq(t, i, j)[x] = t[i + x - 1]
  <1>1. Len(t) \in Nat /\ \A x \in 1..Len(t) : t[x] \in Characters
    BY LenProperties, ElementOfSeq
  <1>2. \A x \in i..j : t[x] \in Characters
    BY <1>1
  <1> QED
    BY <1>2, SubSeqProperties

\* Two texts that agree in length and characters are one.
LEMMA SameText ==
  ASSUME NEW s \in Seq(Characters), NEW t \in Seq(Characters), Len(s) = Len(t),
         \A i \in 1..Len(s) : s[i] = t[i]
  PROVE  s = t
  BY SeqEqual

\* A text and another one after it.
LEMMA Joined ==
  ASSUME NEW s \in Seq(Characters), NEW t \in Seq(Characters)
  PROVE  /\ s \o t \in Seq(Characters) /\ Len(s \o t) = Len(s) + Len(t)
         /\ Len(s) \in Nat /\ Len(t) \in Nat
         /\ \A i \in 1..Len(s) : (s \o t)[i] = s[i]
         /\ \A i \in 1..Len(t) : (s \o t)[Len(s) + i] = t[i]
  BY ConcatProperties, LenProperties

\* How texts are joined does not depend on where one begins.
LEMMA Regrouped ==
  ASSUME NEW s \in Seq(Characters), NEW t \in Seq(Characters), NEW u \in Seq(Characters)
  PROVE  (s \o t) \o u = s \o (t \o u)
  BY ConcatAssociative, SMTT(40)

\* One text before three others is before all of what they make.
IsBefore(w, s, t, u) == ((w \o s) \o t) \o u = w \o ((s \o t) \o u)

\* It always is.
LEMMA PutBefore ==
  ASSUME NEW w \in Seq(Characters), NEW s \in Seq(Characters),
         NEW t \in Seq(Characters), NEW u \in Seq(Characters)
  PROVE  IsBefore(w, s, t, u)
  <1>1. s \o t \in Seq(Characters)
    BY Joined, ZenonT(40)
  <1>2. (w \o s) \o t = w \o (s \o t)
    BY Regrouped, ZenonT(40)
  <1>3. (w \o (s \o t)) \o u = w \o ((s \o t) \o u)
    BY <1>1, Regrouped, ZenonT(40)
  <1> QED
    BY <1>2, <1>3, ZenonT(40) DEF IsBefore

\* The elements of three texts in a row, and the first and the last of them.
LEMMA ThreeTexts ==
  ASSUME NEW a \in Seq(Characters), NEW m \in Seq(Characters), NEW b \in Seq(Characters)
  PROVE  LET t == (a \o m) \o b IN
         /\ t \in Seq(Characters) /\ Len(t) = Len(a) + Len(m) + Len(b)
         /\ \A i \in 1..Len(a) : t[i] = a[i]
         /\ \A i \in 1..Len(m) : t[Len(a) + i] = m[i]
         /\ \A i \in 1..Len(b) : t[Len(a) + Len(m) + i] = b[i]
  <1> DEFINE x == a \o m
             t == x \o b
  <1>1. /\ x \in Seq(Characters) /\ Len(x) = Len(a) + Len(m)
        /\ Len(a) \in Nat /\ Len(m) \in Nat
        /\ \A i \in 1..Len(a) : x[i] = a[i]
        /\ \A i \in 1..Len(m) : x[Len(a) + i] = m[i]
    BY Joined
  <1> HIDE DEF x
  <1>2. /\ t \in Seq(Characters) /\ Len(t) = Len(x) + Len(b) /\ Len(b) \in Nat
        /\ \A i \in 1..Len(x) : t[i] = x[i]
        /\ \A i \in 1..Len(b) : t[Len(x) + i] = b[i]
    BY <1>1, Joined, ZenonT(40)
  <1> HIDE DEF t
  <1>3. \A i \in 1..Len(a) : i \in 1..Len(x)
    BY <1>1
  <1>4. \A i \in 1..Len(m) : Len(a) + i \in 1..Len(x)
    BY <1>1
  <1>5. /\ t \in Seq(Characters) /\ Len(t) = Len(a) + Len(m) + Len(b)
        /\ \A i \in 1..Len(a) : t[i] = a[i]
        /\ \A i \in 1..Len(m) : t[Len(a) + i] = m[i]
        /\ \A i \in 1..Len(b) : t[Len(a) + Len(m) + i] = b[i]
    BY <1>1, <1>2, <1>3, <1>4
  <1> QED
    BY <1>5 DEF t, x

\* They can be cut out again.
LEMMA CutOut ==
  ASSUME NEW a \in Seq(Characters), NEW m \in Seq(Characters), NEW b \in Seq(Characters)
  PROVE  LET t == (a \o m) \o b IN
         /\ SubSeq(t, 1, Len(a)) = a
         /\ From(t, Len(a) + Len(m) + 1) = b
  <1> DEFINE t == (a \o m) \o b
             k == Len(a) + Len(m)
  <1>1. /\ t \in Seq(Characters) /\ Len(t) = Len(a) + Len(m) + Len(b)
        /\ \A i \in 1..Len(a) : t[i] = a[i]
        /\ \A i \in 1..Len(b) : t[Len(a) + Len(m) + i] = b[i]
    BY ThreeTexts
  <1>2. Len(a) \in Nat /\ Len(m) \in Nat /\ Len(b) \in Nat
    BY LenProperties
  <1> HIDE DEF t
  <1>3. SubSeq(t, 1, Len(a)) = a
    <2> DEFINE n == Len(a)
               c == SubSeq(t, 1, n)
    <2>1. n \in Nat /\ n <= Len(t) /\ 1 <= 1
      BY <1>1, <1>2
    <2>2. /\ c \in Seq(Characters) /\ Len(c) = (IF 1 <= n THEN n - 1 + 1 ELSE 0)
          /\ \A x \in 1..(n - 1 + 1) : c[x] = t[1 + x - 1]
      BY <1>1, <2>1, PartOf
    <2> HIDE DEF c
    <2>3. Len(c) = n /\ \A x \in 1..n : c[x] = t[x]
      BY <2>1, <2>2
    <2>4. Len(c) = Len(a) /\ \A x \in 1..Len(c) : c[x] = a[x]
      BY <1>1, <2>3
    <2>5. c = a
      BY <2>2, <2>4, SameText
    <2> QED
      BY <2>5 DEF c
  <1>4. From(t, k + 1) = b
    <2> DEFINE n == Len(t)
               i == k + 1
               c == SubSeq(t, i, n)
    <2>1. n \in Nat /\ i \in Nat /\ 1 <= i /\ n <= Len(t) /\ n = k + Len(b) /\ k \in Nat
      BY <1>1, <1>2
    <2>2. /\ c \in Seq(Characters) /\ Len(c) = (IF i <= n THEN n - i + 1 ELSE 0)
          /\ \A x \in 1..(n - i + 1) : c[x] = t[i + x - 1]
      BY <1>1, <2>1, PartOf
    <2> HIDE DEF c
    <2>3. Len(c) = Len(b) /\ n - i + 1 = Len(b)
      BY <1>2, <2>1, <2>2
    <2>4. \A x \in 1..Len(b) : c[x] = b[x]
      <3> SUFFICES ASSUME NEW x \in 1..Len(b) PROVE c[x] = b[x]
        OBVIOUS
      <3>1. c[x] = t[i + x - 1]
        BY <2>2, <2>3
      <3>2. i + x - 1 = Len(a) + Len(m) + x
        BY <1>2
      <3> QED
        BY <1>1, <3>1, <3>2
    <2>5. c = b
      BY <2>2, <2>3, <2>4, SameText
    <2> QED
      BY <2>5 DEF c, From
  <1> QED
    BY <1>3, <1>4 DEF t

\* A text with m after its first k characters.
LEMMA PutTogether ==
  ASSUME NEW t \in Seq(Characters), NEW m \in Seq(Characters), NEW k \in Nat,
         k + Len(m) <= Len(t), \A i \in 1..Len(m) : t[k + i] = m[i]
  PROVE  /\ SubSeq(t, 1, k) \in Seq(Characters) /\ Len(SubSeq(t, 1, k)) = k
         /\ \A x \in 1..k : SubSeq(t, 1, k)[x] = t[x]
         /\ From(t, k + Len(m) + 1) \in Seq(Characters)
         /\ t = (SubSeq(t, 1, k) \o m) \o From(t, k + Len(m) + 1)
  <1> DEFINE a == SubSeq(t, 1, k)
             l == k + Len(m)
             b == From(t, l + 1)
             n == Len(t)
             r == (a \o m) \o b
  <1>1. Len(m) \in Nat /\ n \in Nat /\ l \in Nat /\ l <= n /\ k <= n /\ l + 1 \in Nat
        /\ 1 <= l + 1 /\ 1 <= 1
    BY LenProperties
  <1>2. a \in Seq(Characters) /\ Len(a) = k /\ \A x \in 1..k : a[x] = t[x]
    <2>1. /\ a \in Seq(Characters) /\ Len(a) = (IF 1 <= k THEN k - 1 + 1 ELSE 0)
          /\ \A x \in 1..(k - 1 + 1) : a[x] = t[1 + x - 1]
      BY <1>1, PartOf
    <2> HIDE DEF a
    <2> QED
      BY <2>1
  <1>3. b \in Seq(Characters) /\ Len(b) = n - l /\ \A x \in 1..(n - l) : b[x] = t[l + x]
    <2> DEFINE i == l + 1
    <2>1. /\ b \in Seq(Characters) /\ Len(b) = (IF i <= n THEN n - i + 1 ELSE 0)
          /\ \A x \in 1..(n - i + 1) : b[x] = t[i + x - 1]
      BY <1>1, PartOf DEF From
    <2> HIDE DEF b
    <2>2. n - i + 1 = n - l /\ \A x \in 1..(n - l) : i + x - 1 = l + x
      BY <1>1
    <2>3. Len(b) = n - l
      BY <1>1, <2>1
    <2>4. ASSUME NEW x \in 1..(n - l) PROVE b[x] = t[l + x]
      <3>1. x \in 1..(n - i + 1)
        BY <2>2, ZenonT(40)
      <3>2. b[x] = t[i + x - 1]
        BY <2>1, <3>1, ZenonT(40)
      <3> QED
        BY <2>2, <3>2, ZenonT(40)
    <2> QED
      BY <2>1, <2>3, <2>4, ZenonT(40)
  <1> HIDE DEF a, b
  <1>4. /\ r \in Seq(Characters) /\ Len(r) = Len(a) + Len(m) + Len(b)
        /\ \A i \in 1..Len(a) : r[i] = a[i]
        /\ \A i \in 1..Len(m) : r[Len(a) + i] = m[i]
        /\ \A i \in 1..Len(b) : r[Len(a) + Len(m) + i] = b[i]
    BY <1>2, <1>3, ThreeTexts, ZenonT(40)
  <1> HIDE DEF r
  <1>5. Len(t) = Len(r)
    BY <1>1, <1>2, <1>3, <1>4
  <1>6. \A i \in 1..Len(t) : t[i] = r[i]
    <2> SUFFICES ASSUME NEW i \in 1..Len(t) PROVE t[i] = r[i]
      OBVIOUS
    <2>1. CASE i <= k
      BY <1>2, <1>4, <2>1
    <2>2. CASE i > k /\ i <= l
      <3> DEFINE x == i - k
      <3>1. x \in 1..Len(m) /\ k + x = i
        BY <1>1, <2>2
      <3> HIDE DEF x
      <3>2. t[k + x] = m[x]
        BY <3>1, ZenonT(40)
      <3>3. r[Len(a) + x] = m[x]
        BY <1>4, <3>1, ZenonT(40)
      <3> QED
        BY <1>2, <3>1, <3>2, <3>3, ZenonT(40)
    <2>3. CASE i > l
      <3> DEFINE x == i - l
      <3>1. x \in 1..(n - l) /\ l + x = i /\ Len(a) + Len(m) + x = i
        BY <1>1, <1>2, <2>3
      <3>2. x \in 1..Len(b) /\ t[l + x] = b[x]
        BY <1>3, <3>1
      <3>3. r[Len(a) + Len(m) + x] = b[x]
        BY <1>4, <3>2
      <3> QED
        BY <3>1, <3>2, <3>3, ZenonT(40)
    <2> QED
      BY <1>1, <2>1, <2>2, <2>3
  <1>7. t = r
    BY <1>4, <1>5, <1>6, SameText
  <1> QED
    BY <1>2, <1>3, <1>7, ZenonT(40) DEF a, b, r

(***************************************************************************)
(* The brackets and the colons                                             *)
(***************************************************************************)

\* The closing bracket found is the first, and 0 says that there is none.
LEMMA ClosingPlace ==
  ASSUME NEW t \in Seq(Characters)
  PROVE  \/ Closing(t) = 0 /\ PlacesOf(t, "]") = {}
         \/ /\ Closing(t) \in PlacesOf(t, "]")
            /\ \A i \in PlacesOf(t, "]") : Closing(t) <= i
  <1> DEFINE I == PlacesOf(t, "]")
  <1>1. Closing(t) = IF I # {} THEN CHOOSE x \in I : \A y \in I : x =< y ELSE 0
    BY ZenonT(40) DEF Closing, SelectInSeq, Min, PlacesOf
  <1>2. I \subseteq Nat
    BY LenProperties DEF PlacesOf
  <1> HIDE DEF I
  <1>3. CASE I = {}
    BY <1>1, <1>3, ZenonT(40) DEF I
  <1>4. CASE I # {}
    <2>1. \E x \in I : \A y \in I : x <= y
      BY <1>2, <1>4, Least, ZenonT(40)
    <2> DEFINE P(x) == x \in I /\ \A y \in I : x <= y
    <2>2. Closing(t) = CHOOSE x \in I : \A y \in I : x =< y
      BY <1>1, <1>4, ZenonT(40)
    <2>3. Closing(t) \in I /\ \A y \in I : Closing(t) <= y
      BY <2>1, <2>2, ZenonT(40)
    <2> QED
      BY <2>3, ZenonT(40) DEF I
  <1> QED
    BY <1>3, <1>4, ZenonT(40)

\* The colon found is the last, and 0 says that there is none.
LEMMA ColonPlace ==
  ASSUME NEW t \in Seq(Characters)
  PROVE  \/ LastColon(t) = 0 /\ PlacesOf(t, ":") = {}
         \/ /\ LastColon(t) \in PlacesOf(t, ":")
            /\ \A i \in PlacesOf(t, ":") : LastColon(t) >= i
  <1> DEFINE I == PlacesOf(t, ":")
             n == Len(t)
             M == {n - i : i \in I}
  <1>1. LastColon(t) = IF I # {} THEN CHOOSE x \in I : \A y \in I : x >= y ELSE 0
    BY ZenonT(40) DEF LastColon, SelectLastInSeq, Max, PlacesOf
  <1>2. n \in Nat /\ I \subseteq 1..n
    BY LenProperties DEF PlacesOf
  <1> HIDE DEF I, n
  <1>3. CASE I = {}
    BY <1>1, <1>3, ZenonT(40) DEF I
  <1>4. CASE I # {}
    <2>0. \A i \in I : n - i \in Nat
      BY <1>2
    <2>1. M \subseteq Nat /\ M # {}
      BY <1>4, <2>0, ZenonT(40)
    <2>2. PICK m \in M : \A y \in M : m <= y
      <3> HIDE DEF M
      <3> QED
        BY <2>1, Least, ZenonT(40)
    <2>3. PICK x \in I : m = n - x
      BY ZenonT(40)
    <2>4. \A y \in I : x >= y
      <3> SUFFICES ASSUME NEW y \in I PROVE x >= y
        OBVIOUS
      <3>1. n - x <= n - y
        BY <2>2, <2>3, ZenonT(40)
      <3>2. x \in Int /\ y \in Int
        BY <1>2
      <3> QED
        BY <1>2, <3>1, <3>2
    <2>5. LastColon(t) = CHOOSE v \in I : \A y \in I : v >= y
      BY <1>1, <1>4, ZenonT(40)
    <2>6. LastColon(t) \in I /\ \A y \in I : LastColon(t) >= y
      BY <2>4, <2>5, ZenonT(40)
    <2> QED
      BY <2>6, ZenonT(40) DEF I
  <1> QED
    BY <1>3, <1>4, ZenonT(40)

\* A closing bracket with none before it is the one found.
LEMMA FoundFirst ==
  ASSUME NEW t \in Seq(Characters), NEW k \in 1..Len(t), t[k] = "]",
         \A i \in 1..Len(t) : i < k => t[i] # "]"
  PROVE  Closing(t) = k
  <1>1. Len(t) \in Nat
    BY LenProperties
  <1>2. k \in PlacesOf(t, "]")
    BY ZenonT(40) DEF PlacesOf
  <1>3. Closing(t) \in PlacesOf(t, "]") /\ Closing(t) <= k
    BY <1>2, ClosingPlace, ZenonT(40)
  <1>4. Closing(t) \in 1..Len(t) /\ t[Closing(t)] = "]"
    BY <1>3, ZenonT(40) DEF PlacesOf
  <1>5. ~(Closing(t) < k)
    BY <1>4, ZenonT(40)
  <1> QED
    BY <1>1, <1>3, <1>4, <1>5

\* A colon with none after it is the one found.
LEMMA FoundLast ==
  ASSUME NEW t \in Seq(Characters), NEW k \in 1..Len(t), t[k] = ":",
         \A i \in 1..Len(t) : i > k => t[i] # ":"
  PROVE  LastColon(t) = k
  <1>1. Len(t) \in Nat
    BY LenProperties
  <1>2. k \in PlacesOf(t, ":")
    BY ZenonT(40) DEF PlacesOf
  <1>3. LastColon(t) \in PlacesOf(t, ":") /\ LastColon(t) >= k
    BY <1>2, ColonPlace, ZenonT(40)
  <1>4. LastColon(t) \in 1..Len(t) /\ t[LastColon(t)] = ":"
    BY <1>3, ZenonT(40) DEF PlacesOf
  <1>5. ~(LastColon(t) > k)
    BY <1>4, ZenonT(40)
  <1> QED
    BY <1>1, <1>3, <1>4, <1>5

\* A text that begins with a bracket.
LEMMA Opened ==
  ASSUME NEW u \in Seq(Characters)
  PROVE  LET t == <<"[">> \o u IN
         t \in Seq(Characters) /\ t # <<>> /\ Head(t) = "[" /\ Tail(t) = u
  <1> DEFINE x == <<"[">>
             t == x \o u
  <1>0. "[" \in Characters
    BY DEF Characters
  <1>1. x \in Seq(Characters) /\ Len(x) = 1 /\ x[1] = "["
    BY <1>0
  <1> HIDE DEF x
  <1>2. /\ t \in Seq(Characters) /\ Len(t) = 1 + Len(u) /\ Len(u) \in Nat
        /\ t[1] = "[" /\ \A i \in 1..Len(u) : t[1 + i] = u[i]
    <2>1. /\ t \in Seq(Characters) /\ Len(t) = Len(x) + Len(u) /\ Len(u) \in Nat
          /\ \A i \in 1..Len(x) : t[i] = x[i]
          /\ \A i \in 1..Len(u) : t[Len(x) + i] = u[i]
      BY <1>1, Joined, ZenonT(40)
    <2> HIDE DEF t
    <2> QED
      BY <1>1, <2>1
  <1> HIDE DEF t
  <1>3. t # <<>> /\ Head(t) = "["
    BY <1>2
  <1>4. Tail(t) \in Seq(Characters) /\ Len(Tail(t)) = Len(u)
    BY <1>2, <1>3, HeadTailProperties
  <1>5. \A i \in 1..Len(u) : Tail(t)[i] = u[i]
    BY <1>2, <1>3, <1>4, HeadTailProperties
  <1>6. Tail(t) = u
    BY <1>4, <1>5, SameText
  <1> QED
    BY <1>2, <1>3, <1>6 DEF t, x

\* A text and what follows its first character.
LEMMA Following ==
  ASSUME NEW t \in Seq(Characters), t # <<>>
  PROVE  /\ Tail(t) \in Seq(Characters) /\ Len(t) = Len(Tail(t)) + 1 /\ Len(t) >= 1
         /\ t[1] = Head(t) /\ \A i \in 1..Len(Tail(t)) : Tail(t)[i] = t[i + 1]
         /\ t = <<Head(t)>> \o Tail(t)
  <1> DEFINE u == Tail(t)
             x == <<Head(t)>>
             r == x \o u
  <1>1. /\ u \in Seq(Characters) /\ Len(u) = Len(t) - 1 /\ Len(t) \in Nat
        /\ Head(t) \in Characters
        /\ \A i \in 1..Len(u) : u[i] = t[i + 1]
    BY HeadTailProperties, LenProperties
  <1>2. Len(t) >= 1 /\ t[1] = Head(t)
    BY EmptySeq, LenProperties
  <1>3. x \in Seq(Characters) /\ Len(x) = 1 /\ x[1] = Head(t)
    BY <1>1
  <1> HIDE DEF u, x
  <1>4. /\ r \in Seq(Characters) /\ Len(r) = Len(x) + Len(u) /\ Len(u) \in Nat
        /\ \A i \in 1..Len(x) : r[i] = x[i]
        /\ \A i \in 1..Len(u) : r[Len(x) + i] = u[i]
    BY <1>1, <1>3, Joined
  <1> HIDE DEF r
  <1>5. Len(t) = Len(r) /\ Len(t) = Len(u) + 1
    BY <1>1, <1>2, <1>3, <1>4
  <1>6. \A i \in 1..Len(t) : t[i] = r[i]
    <2> SUFFICES ASSUME NEW i \in 1..Len(t) PROVE t[i] = r[i]
      OBVIOUS
    <2>1. CASE i = 1
      BY <1>2, <1>3, <1>4, <2>1
    <2>2. CASE i > 1
      <3> DEFINE y == i - 1
      <3>1. y \in 1..Len(u) /\ y + 1 = i /\ Len(x) + y = i
        BY <1>1, <1>3, <2>2
      <3> HIDE DEF y
      <3>2. u[y] = t[i] /\ r[i] = u[y]
        BY <1>1, <1>4, <3>1, ZenonT(40)
      <3> QED
        BY <3>2
    <2> QED
      BY <1>1, <2>1, <2>2
  <1>7. t = r
    BY <1>4, <1>5, <1>6, SameText
  <1> QED
    BY <1>1, <1>2, <1>5, <1>7 DEF u, x, r

\* A part of what follows the first character of a text is a part of the text.
LEMMA PartOfFollowing ==
  ASSUME NEW t \in Seq(Characters), t # <<>>, NEW i \in Nat, NEW j \in Nat,
         1 <= i, i <= Len(Tail(t)), j <= Len(Tail(t))
  PROVE  SubSeq(Tail(t), i, j) \in Parts(t)
  <1> DEFINE u == Tail(t)
             a == SubSeq(u, i, j)
             k == i + 1
             l == j + 1
             b == SubSeq(t, k, l)
  <1>1. /\ u \in Seq(Characters) /\ Len(t) = Len(u) + 1 /\ Len(u) \in Nat
        /\ \A x \in 1..Len(u) : u[x] = t[x + 1]
    BY Following, LenProperties
  <1> HIDE DEF u
  <1>2. /\ a \in Seq(Characters) /\ Len(a) = (IF i <= j THEN j - i + 1 ELSE 0)
        /\ \A x \in 1..(j - i + 1) : a[x] = u[i + x - 1]
    BY <1>1, PartOf DEF u
  <1>3. k \in Nat /\ l \in Nat /\ 1 <= k /\ l <= Len(t)
    BY <1>1 DEF u
  <1>4. /\ b \in Seq(Characters) /\ Len(b) = (IF k <= l THEN l - k + 1 ELSE 0)
        /\ \A x \in 1..(l - k + 1) : b[x] = t[k + x - 1]
    BY <1>3, PartOf
  <1> HIDE DEF a, b
  <1>5. Len(a) = Len(b)
    BY <1>2, <1>4
  <1>6. \A x \in 1..Len(a) : a[x] = b[x]
    <2> SUFFICES ASSUME NEW x \in 1..Len(a) PROVE a[x] = b[x]
      OBVIOUS
    <2> DEFINE y == i + x - 1
    <2>1. /\ x \in 1..(j - i + 1) /\ x \in 1..(l - k + 1)
          /\ y \in 1..Len(u) /\ y + 1 = k + x - 1
      BY <1>1, <1>2 DEF u
    <2>2. a[x] = u[y] /\ b[x] = t[y + 1]
      BY <1>2, <1>4, <2>1, ZenonT(40)
    <2> HIDE DEF y
    <2> QED
      BY <1>1, <2>1, <2>2, ZenonT(40)
  <1>7. a = b
    BY <1>2, <1>4, <1>5, <1>6, SameText
  <1>8. k \in 1..Len(t) /\ l \in 0..Len(t)
    BY <1>1, <1>3 DEF u
  <1>9. b \in Parts(t)
    <2> HIDE DEF k, l
    <2> QED
      BY <1>8 DEF Parts, b
  <1> QED
    BY <1>7, <1>9, ZenonT(40) DEF a, u

\* A port has no colon, and is not empty.
LEMMA PortCharacters ==
  ASSUME NEW p \in Seq(Characters), IsU16(p)
  PROVE  Len(p) >= 1 /\ \A i \in 1..Len(p) : p[i] # ":"
  <1> DEFINE u == Unsigned(p)
  <1>1. u # <<>> /\ ToSet(u) \subseteq Digits
    BY ZenonT(40) DEF IsU16
  <1>2. CASE p # <<>> /\ Head(p) = "+"
    <2>1. u = Tail(p)
      BY <1>2, ZenonT(40) DEF Unsigned
    <2>2. /\ u \in Seq(Characters) /\ Len(p) = Len(u) + 1 /\ p[1] = "+" /\ Len(p) >= 1
          /\ \A i \in 1..Len(u) : u[i] = p[i + 1]
      BY <1>2, <2>1, Following, ZenonT(40)
    <2>3. \A i \in 1..Len(u) : u[i] \in Digits
      BY <1>1, <2>2, TextElements, ZenonT(40)
    <2> HIDE DEF u
    <2>4. ASSUME NEW i \in 1..Len(p) PROVE p[i] # ":"
      <3>1. CASE i = 1
        BY <2>2, <3>1
      <3>2. CASE i # 1
        <4> DEFINE x == i - 1
        <4>1. Len(u) \in Nat
          BY <2>2, LenProperties
        <4>2. x \in 1..Len(u) /\ x + 1 = i
          BY <2>2, <3>2, <4>1
        <4> HIDE DEF x
        <4>3. p[i] \in Digits
          BY <2>2, <2>3, <4>2, ZenonT(40)
        <4> QED
          BY <4>3 DEF Digits
      <3> QED
        BY <3>1, <3>2
    <2> QED
      BY <2>2, <2>4
  <1>3. CASE ~(p # <<>> /\ Head(p) = "+")
    <2>1. u = p
      BY <1>3, ZenonT(40) DEF Unsigned
    <2>2. Len(p) >= 1
      BY <1>1, <2>1, EmptySeq, LenProperties
    <2>3. \A i \in 1..Len(p) : p[i] \in Digits
      BY <1>1, <2>1, TextElements, ZenonT(40)
    <2>4. ":" \notin Digits
      BY DEF Digits
    <2> QED
      BY <2>2, <2>3, <2>4, ZenonT(40)
  <1> QED
    BY <1>2, <1>3

\* What Build accepts, and what it makes of it.
LEMMA Built ==
  ASSUME NEW h, NEW p
  PROVE  /\ Build(h, p).result = "ok" <=>
              h # <<>> /\ "@" \notin ToSet(h) /\ IsU16(p) /\ Number(p) # 0
         /\ Build(h, p).result = "ok" =>
              Build(h, p) = [result |-> "ok", host |-> h, port |-> Number(p)]
  <1>1. CASE h = <<>>
    BY <1>1 DEF Build, Fail
  <1>2. CASE h # <<>> /\ "@" \in ToSet(h)
    BY <1>2 DEF Build, Fail
  <1>3. CASE h # <<>> /\ "@" \notin ToSet(h) /\ ~IsU16(p)
    BY <1>3 DEF Build, Fail
  <1>4. CASE h # <<>> /\ "@" \notin ToSet(h) /\ IsU16(p) /\ Number(p) = 0
    BY <1>4 DEF Build, Fail
  <1>5. CASE h # <<>> /\ "@" \notin ToSet(h) /\ IsU16(p) /\ Number(p) # 0
    BY <1>5 DEF Build
  <1> QED
    BY <1>1, <1>2, <1>3, <1>4, <1>5, ZenonT(40)

(***************************************************************************)
(* What is spelled is parsed                                               *)
(***************************************************************************)

\* host:port without brackets: the last colon is the one between them.
LEMMA PlainIsParsed ==
  ASSUME NEW h \in Seq(Characters), NEW p \in Seq(Characters),
         h # <<>>, "@" \notin ToSet(h), IsU16(p), Number(p) # 0,
         ":" \notin ToSet(h), Head(h) # "["
  PROVE  FromStr(h \o <<":">> \o p) =
           [result |-> "ok", host |-> h, port |-> Number(p)]
  <1> DEFINE m == <<":">>
             t == (h \o m) \o p
             k == Len(h) + 1
  <1>0. ":" \in Characters
    BY DEF Characters
  <1>1. m \in Seq(Characters) /\ Len(m) = 1 /\ m[1] = ":"
    BY <1>0
  <1> HIDE DEF m
  <1>2. /\ t \in Seq(Characters) /\ Len(t) = Len(h) + Len(m) + Len(p)
        /\ \A i \in 1..Len(h) : t[i] = h[i]
        /\ \A i \in 1..Len(m) : t[Len(h) + i] = m[i]
        /\ \A i \in 1..Len(p) : t[Len(h) + Len(m) + i] = p[i]
    <2>1. m \in Seq(Characters)
      BY <1>1, ZenonT(40)
    <2> QED
      BY <2>1, ThreeTexts
  <1>3. SubSeq(t, 1, Len(h)) = h /\ From(t, Len(h) + Len(m) + 1) = p
    <2>1. m \in Seq(Characters)
      BY <1>1, ZenonT(40)
    <2> QED
      BY <2>1, CutOut
  <1> HIDE DEF t
  <1>4. Len(h) \in Nat /\ Len(p) \in Nat /\ Len(h) >= 1
    BY EmptySeq, LenProperties
  <1>5. Len(p) >= 1 /\ \A i \in 1..Len(p) : p[i] # ":"
    BY PortCharacters
  <1>6. k \in 1..Len(t) /\ t[k] = ":"
    <2>1. 1 \in 1..Len(m)
      BY <1>1
    <2>2. t[Len(h) + 1] = m[1]
      BY <1>2, <2>1, ZenonT(40)
    <2> QED
      BY <1>1, <1>2, <1>4, <2>2
  <1>7. ASSUME NEW i \in 1..Len(t), i > k PROVE t[i] # ":"
    <2> DEFINE x == i - k
    <2>1. x \in 1..Len(p) /\ Len(h) + Len(m) + x = i
      BY <1>1, <1>2, <1>4, <1>7
    <2> HIDE DEF x
    <2>2. t[i] = p[x]
      BY <1>2, <2>1, ZenonT(40)
    <2> QED
      BY <1>5, <2>1, <2>2, ZenonT(40)
  <1>8. LastColon(t) = k
    <2> HIDE DEF k
    <2> QED
      BY <1>2, <1>6, <1>7, FoundLast, ZenonT(40)
  <1>9. k - 1 = Len(h) /\ k + 1 = Len(h) + Len(m) + 1 /\ k # 0
    BY <1>1, <1>4
  <1>10. t # <<>> /\ Head(t) # "["
    <2>1. t # <<>>
      BY <1>1, <1>2, <1>4, EmptySeq
    <2>2. 1 \in 1..Len(h)
      BY <1>4
    <2>3. t[1] = h[1]
      BY <1>2, <2>2, ZenonT(40)
    <2>4. Head(t) = t[1] /\ Head(h) = h[1]
      BY <1>2, <2>1, Following, ZenonT(40)
    <2> QED
      BY <2>1, <2>3, <2>4, ZenonT(40)
  <1>11. FromStr(t) = FromPlain(t)
    BY <1>10 DEF FromStr
  <1> HIDE DEF k
  <1>12. SubSeq(t, 1, k - 1) = h /\ From(t, k + 1) = p
    BY <1>3, <1>9, ZenonT(40)
  <1>13. FromPlain(t) = Build(h, p)
    BY <1>8, <1>9, <1>12, ZenonT(40) DEF FromPlain
  <1>14. Build(h, p) = [result |-> "ok", host |-> h, port |-> Number(p)]
    BY Built, ZenonT(40)
  <1> QED
    BY <1>11, <1>13, <1>14, ZenonT(40) DEF t, m

\* [host]:port: the first closing bracket is the one after the host.
LEMMA BracketedIsParsed ==
  ASSUME NEW h \in Seq(Characters), NEW p \in Seq(Characters),
         h # <<>>, "@" \notin ToSet(h), IsU16(p), Number(p) # 0,
         "]" \notin ToSet(h)
  PROVE  FromStr(<<"[">> \o h \o <<"]", ":">> \o p) =
           [result |-> "ok", host |-> h, port |-> Number(p)]
  <1> DEFINE m == <<"]", ":">>
             t == (h \o m) \o p
             k == Len(h) + 1
             w == <<"[">>
  <1>0. ":" \in Characters /\ "]" \in Characters /\ "[" \in Characters
    BY DEF Characters
  <1>1. /\ m \in Seq(Characters) /\ Len(m) = 2 /\ m[1] = "]" /\ m[2] = ":"
        /\ w \in Seq(Characters)
    BY <1>0
  <1> HIDE DEF m
  <1>2. /\ t \in Seq(Characters) /\ Len(t) = Len(h) + Len(m) + Len(p)
        /\ \A i \in 1..Len(h) : t[i] = h[i]
        /\ \A i \in 1..Len(m) : t[Len(h) + i] = m[i]
        /\ \A i \in 1..Len(p) : t[Len(h) + Len(m) + i] = p[i]
    <2>1. m \in Seq(Characters)
      BY <1>1, ZenonT(40)
    <2> QED
      BY <2>1, ThreeTexts
  <1>3. SubSeq(t, 1, Len(h)) = h /\ From(t, Len(h) + Len(m) + 1) = p
    <2>1. m \in Seq(Characters)
      BY <1>1, ZenonT(40)
    <2> QED
      BY <2>1, CutOut
  <1>4. ((w \o h) \o m) \o p = w \o t
    <2> HIDE DEF w
    <2>1. w \in Seq(Characters) /\ m \in Seq(Characters)
      BY <1>1, ZenonT(40)
    <2>2. IsBefore(w, h, m, p)
      BY <2>1, PutBefore, ZenonT(40)
    <2> QED
      BY <2>2, ZenonT(40) DEF IsBefore
  <1>5. w \o t # <<>> /\ Head(w \o t) = "[" /\ Tail(w \o t) = t
    <2> HIDE DEF t
    <2> QED
      BY <1>2, Opened, ZenonT(40)
  <1> HIDE DEF t
  <1>6. Len(h) \in Nat /\ Len(p) \in Nat
    BY LenProperties
  <1>7. Len(p) >= 1
    BY PortCharacters
  <1>8. 1 \in 1..Len(m) /\ 2 \in 1..Len(m)
    BY <1>1
  <1>9. t[Len(h) + 1] = "]" /\ t[Len(h) + 2] = ":"
    BY <1>1, <1>2, <1>8, ZenonT(40)
  <1>10. k \in 1..Len(t) /\ t[k] = "]" /\ t[k + 1] = ":" /\ k # Len(t)
         /\ k # 0 /\ k - 1 = Len(h) /\ k + 2 = Len(h) + Len(m) + 1
    <2>1. k + 1 = Len(h) + 2
      BY <1>6
    <2>2. t[k] = "]" /\ t[k + 1] = ":"
      BY <1>9, <2>1, ZenonT(40)
    <2>3. k \in 1..Len(t) /\ k # Len(t) /\ k # 0 /\ k - 1 = Len(h)
          /\ k + 2 = Len(h) + Len(m) + 1
      BY <1>1, <1>2, <1>6
    <2> QED
      BY <2>2, <2>3, ZenonT(40)
  <1>11. ASSUME NEW i \in 1..Len(t), i < k PROVE t[i] # "]"
    <2>1. i \in 1..Len(h)
      BY <1>6, <1>11
    <2>2. t[i] = h[i]
      BY <1>2, <2>1, ZenonT(40)
    <2> QED
      BY <2>1, <2>2, TextElements, ZenonT(40)
  <1> HIDE DEF k
  <1>12. Closing(t) = k
    BY <1>2, <1>10, <1>11, FoundFirst, ZenonT(40)
  <1>13. FromStr(w \o t) = FromBracketed(t)
    <2> DEFINE z == w \o t
    <2>1. z # <<>> /\ Head(z) = "[" /\ Tail(z) = t
      BY <1>5
    <2> HIDE DEF z
    <2>2. FromStr(z) = FromBracketed(Tail(z))
      BY <2>1 DEF FromStr
    <2> QED
      BY <2>1, <2>2, ZenonT(40) DEF z
  <1>14. SubSeq(t, 1, k - 1) = h /\ From(t, k + 2) = p
    BY <1>3, <1>10, ZenonT(40)
  <1>15. FromBracketed(t) = Build(h, p)
    BY <1>10, <1>12, <1>14, ZenonT(40) DEF FromBracketed
  <1>16. Build(h, p) = [result |-> "ok", host |-> h, port |-> Number(p)]
    BY Built, ZenonT(40)
  <1> QED
    BY <1>4, <1>13, <1>15, <1>16, ZenonT(40) DEF w, m

(***************************************************************************)
(* What is parsed is spelled                                               *)
(***************************************************************************)

\* Parts of a text, by where they begin and end.
LEMMA IsPart ==
  ASSUME NEW t, NEW i \in 1..Len(t), NEW j \in 0..Len(t)
  PROVE  SubSeq(t, i, j) \in Parts(t)
  BY DEF Parts

\* What follows a place of a text begins in the text, unless it is empty.
LEMMA BeginsInside ==
  ASSUME NEW t \in Seq(Characters), NEW i \in Nat, 1 <= i, Len(From(t, i)) >= 1
  PROVE  i <= Len(t)
  <1>1. Len(t) \in Nat
    BY LenProperties
  <1>2. CASE i > Len(t)
    <2>1. From(t, i) = <<>>
      BY <1>1, <1>2, SubSeqEmpty DEF From
    <2> QED
      BY <2>1
  <1> QED
    BY <1>1, <1>2

\* A text parsed as host:port without brackets is spelled that way.
LEMMA ParsedPlain ==
  ASSUME NEW t \in Seq(Characters), t # <<>>, Head(t) # "[",
         FromPlain(t).result = "ok"
  PROVE  \E h, p \in Parts(t) :
           /\ Spells(t, h, p)
           /\ FromPlain(t) = [result |-> "ok", host |-> h, port |-> Number(p)]
  <1> DEFINE c == LastColon(t)
             k == c - 1
             a == SubSeq(t, 1, k)
             b == From(t, c + 1)
             m == <<":">>
  <1>1. Len(t) \in Nat /\ Len(t) >= 1
    BY EmptySeq, LenProperties
  <1>2. c # 0
    <2> SUFFICES ASSUME c = 0 PROVE FALSE
      OBVIOUS
    <2>1. FromPlain(t) = Fail("MissingPort")
      BY DEF FromPlain
    <2> QED
      BY <2>1 DEF Fail
  <1>3. c \in 1..Len(t) /\ t[c] = ":"
    <2>1. c \in PlacesOf(t, ":")
      BY <1>2, ColonPlace, ZenonT(40)
    <2> QED
      BY <2>1, ZenonT(40) DEF PlacesOf
  <1> HIDE DEF c
  <1>4. ":" \notin ToSet(a)
    <2> SUFFICES ASSUME ":" \in ToSet(a) PROVE FALSE
      OBVIOUS
    <2>1. FromPlain(t) = Fail("UnbracketedIpv6")
      BY <1>2 DEF FromPlain, c
    <2> QED
      BY <2>1 DEF Fail
  <1>5. FromPlain(t) = Build(a, b)
    BY <1>2, <1>4 DEF FromPlain, c
  <1>6. /\ a # <<>> /\ "@" \notin ToSet(a) /\ IsU16(b) /\ Number(b) # 0
        /\ FromPlain(t) = [result |-> "ok", host |-> a, port |-> Number(b)]
    <2> HIDE DEF a, b
    <2> QED
      BY <1>5, Built, ZenonT(40)
  <1>7. /\ a \in Seq(Characters) /\ Len(a) = k /\ \A x \in 1..k : a[x] = t[x]
        /\ b \in Seq(Characters) /\ t = (a \o m) \o b
    <2>0. ":" \in Characters
      BY DEF Characters
    <2>1. m \in Seq(Characters) /\ Len(m) = 1 /\ m[1] = ":"
      BY <2>0
    <2>2. k \in Nat /\ k + 1 = c /\ k + Len(m) <= Len(t) /\ k + Len(m) + 1 = c + 1
      BY <1>1, <1>3, <2>1
    <2> HIDE DEF m
    <2>3. \A i \in 1..Len(m) : t[k + i] = m[i]
      <3> SUFFICES ASSUME NEW i \in 1..Len(m) PROVE t[k + i] = m[i]
        OBVIOUS
      <3>1. i = 1
        BY <2>1
      <3> QED
        BY <1>3, <2>1, <2>2, <3>1, ZenonT(40)
    <2> HIDE DEF k
    <2>4. /\ SubSeq(t, 1, k) \in Seq(Characters) /\ Len(SubSeq(t, 1, k)) = k
          /\ \A x \in 1..k : SubSeq(t, 1, k)[x] = t[x]
          /\ From(t, k + Len(m) + 1) \in Seq(Characters)
          /\ t = (SubSeq(t, 1, k) \o m) \o From(t, k + Len(m) + 1)
      <3>1. m \in Seq(Characters) /\ k \in Nat /\ k + Len(m) <= Len(t)
        BY <2>1, <2>2, ZenonT(40)
      <3> QED
        BY <3>1, <2>3, PutTogether, ZenonT(40)
    <2> QED
      BY <2>2, <2>4, ZenonT(40)
  <1>8. Head(a) # "["
    <2>1. Head(t) = t[1] /\ Head(a) = a[1] /\ Len(a) >= 1
      BY <1>6, <1>7, Following, ZenonT(40)
    <2>2. 1 \in 1..k
      <3> HIDE DEF a
      <3> QED
        BY <1>1, <1>3, <1>7, <2>1
    <2>3. a[1] = t[1]
      BY <1>7, <2>2, ZenonT(40)
    <2> QED
      BY <2>1, <2>3, ZenonT(40)
  <1>9. a \in Parts(t)
    <2>1. 1 \in 1..Len(t) /\ k \in 0..Len(t)
      BY <1>1, <1>3
    <2> HIDE DEF k
    <2> QED
      BY <2>1, IsPart, ZenonT(40)
  <1>10. b \in Parts(t)
    <2> DEFINE i == c + 1
    <2>1. i \in Nat /\ 1 <= i /\ Len(t) \in 0..Len(t)
      BY <1>1, <1>3
    <2>2. Len(b) >= 1
      BY <1>6, <1>7, PortCharacters, ZenonT(40)
    <2> HIDE DEF i
    <2>3. i <= Len(t)
      BY <2>1, <2>2, BeginsInside, ZenonT(40) DEF i
    <2>4. i \in 1..Len(t)
      BY <1>1, <2>1, <2>3
    <2> QED
      BY <2>1, <2>4, IsPart, ZenonT(40) DEF From, i
  <1> HIDE DEF a, b
  <1>11. Spells(t, a, b)
    BY <1>4, <1>6, <1>7, <1>8, ZenonT(40) DEF Spells, m
  <1> QED
    BY <1>6, <1>9, <1>10, <1>11, ZenonT(40)

\* A text parsed as [host]:port is spelled that way.
LEMMA ParsedBracketed ==
  ASSUME NEW t \in Seq(Characters), t # <<>>, Head(t) = "[",
         FromBracketed(Tail(t)).result = "ok"
  PROVE  \E h, p \in Parts(t) :
           /\ Spells(t, h, p)
           /\ FromBracketed(Tail(t)) = [result |-> "ok", host |-> h, port |-> Number(p)]
  <1> DEFINE u == Tail(t)
             c == Closing(u)
             k == c - 1
             a == SubSeq(u, 1, k)
             b == From(u, c + 2)
             m == <<"]", ":">>
             w == <<"[">>
  <1>1. u \in Seq(Characters) /\ Len(t) = Len(u) + 1 /\ t = <<Head(t)>> \o u
    BY Following, ZenonT(40)
  <1> HIDE DEF u
  <1>2. Len(u) \in Nat
    BY <1>1, LenProperties
  <1>3. c # 0
    <2> SUFFICES ASSUME c = 0 PROVE FALSE
      OBVIOUS
    <2>1. FromBracketed(u) = Fail("InvalidIpv6")
      BY DEF FromBracketed
    <2> QED
      BY <2>1 DEF Fail, u
  <1>4. c \in 1..Len(u) /\ u[c] = "]" /\ \A i \in PlacesOf(u, "]") : c <= i
    <2>1. c \in PlacesOf(u, "]") /\ \A i \in PlacesOf(u, "]") : c <= i
      BY <1>1, <1>3, ClosingPlace, ZenonT(40)
    <2> QED
      BY <2>1, ZenonT(40) DEF PlacesOf
  <1> HIDE DEF c
  <1>5. c # Len(u) /\ u[c + 1] = ":"
    <2> SUFFICES ASSUME c = Len(u) \/ u[c + 1] # ":" PROVE FALSE
      OBVIOUS
    <2>1. FromBracketed(u) = Fail("MissingPort")
      BY <1>3 DEF FromBracketed, c
    <2> QED
      BY <2>1 DEF Fail, u
  <1>6. FromBracketed(u) = Build(a, b)
    BY <1>3, <1>5 DEF FromBracketed, c
  <1>7. /\ a # <<>> /\ "@" \notin ToSet(a) /\ IsU16(b) /\ Number(b) # 0
        /\ FromBracketed(u) = [result |-> "ok", host |-> a, port |-> Number(b)]
    <2> HIDE DEF a, b
    <2>1. Build(a, b).result = "ok"
      BY <1>6, ZenonT(40) DEF u
    <2> QED
      BY <1>6, <2>1, Built, ZenonT(40)
  <1>8. /\ a \in Seq(Characters) /\ Len(a) = k /\ \A x \in 1..k : a[x] = u[x]
        /\ b \in Seq(Characters) /\ u = (a \o m) \o b
    <2>0. ":" \in Characters /\ "]" \in Characters
      BY DEF Characters
    <2>1. m \in Seq(Characters) /\ Len(m) = 2 /\ m[1] = "]" /\ m[2] = ":"
      BY <2>0
    <2>2. /\ k \in Nat /\ k + 1 = c /\ k + 2 = c + 1
          /\ k + Len(m) <= Len(u) /\ k + Len(m) + 1 = c + 2
      BY <1>2, <1>4, <1>5, <2>1
    <2> HIDE DEF m
    <2>3. \A i \in 1..Len(m) : u[k + i] = m[i]
      <3> SUFFICES ASSUME NEW i \in 1..Len(m) PROVE u[k + i] = m[i]
        OBVIOUS
      <3>1. i = 1 \/ i = 2
        BY <2>1
      <3>2. CASE i = 1
        BY <1>4, <2>1, <2>2, <3>2, ZenonT(40)
      <3>3. CASE i = 2
        BY <1>5, <2>1, <2>2, <3>3, ZenonT(40)
      <3> QED
        BY <3>1, <3>2, <3>3, ZenonT(40)
    <2> HIDE DEF k
    <2>4. /\ SubSeq(u, 1, k) \in Seq(Characters) /\ Len(SubSeq(u, 1, k)) = k
          /\ \A x \in 1..k : SubSeq(u, 1, k)[x] = u[x]
          /\ From(u, k + Len(m) + 1) \in Seq(Characters)
          /\ u = (SubSeq(u, 1, k) \o m) \o From(u, k + Len(m) + 1)
      <3>1. u \in Seq(Characters) /\ m \in Seq(Characters) /\ k \in Nat
            /\ k + Len(m) <= Len(u)
        BY <1>1, <2>1, <2>2, ZenonT(40)
      <3> QED
        BY <3>1, <2>3, PutTogether, ZenonT(40)
    <2> QED
      BY <2>2, <2>4, ZenonT(40)
  <1>9. "]" \notin ToSet(a)
    <2> SUFFICES ASSUME NEW x \in 1..Len(a), a[x] = "]" PROVE FALSE
      BY <1>8, TextElements, ZenonT(40)
    <2>1. x \in 1..k /\ x \in 1..Len(u) /\ ~(c <= x)
      <3>1. Len(a) = k
        BY <1>8
      <3> HIDE DEF a
      <3> QED
        BY <1>2, <1>4, <3>1
    <2>2. u[x] = "]"
      BY <1>8, <2>1, ZenonT(40)
    <2>3. x \in PlacesOf(u, "]")
      BY <2>1, <2>2, ZenonT(40) DEF PlacesOf
    <2> QED
      BY <1>4, <2>1, <2>3, ZenonT(40)
  <1>10. t = ((w \o a) \o m) \o b
    <2>0. "[" \in Characters /\ "]" \in Characters /\ ":" \in Characters
      BY DEF Characters
    <2>1. w \in Seq(Characters) /\ m \in Seq(Characters)
      BY <2>0
    <2>2. t = w \o u
      BY <1>1
    <2> HIDE DEF w, m, a, b
    <2>a. a \in Seq(Characters) /\ b \in Seq(Characters)
      BY <1>8, ZenonT(40)
    <2>3. IsBefore(w, a, m, b)
      BY <2>a, <2>1, PutBefore, ZenonT(40)
    <2> QED
      BY <1>8, <2>2, <2>3, ZenonT(40) DEF IsBefore
  <1>11. a \in Parts(t)
    <2> DEFINE i == 1
    <2>1. i \in Nat /\ 1 <= i /\ i <= Len(u) /\ k \in Nat /\ k <= Len(u)
      BY <1>2, <1>4
    <2> HIDE DEF k, i
    <2>2. SubSeq(u, i, k) \in Parts(t)
      BY <2>1, PartOfFollowing, ZenonT(40) DEF u
    <2> QED
      BY <2>2, ZenonT(40) DEF i
  <1>12. b \in Parts(t)
    <2> DEFINE i == c + 2
    <2>1. i \in Nat /\ 1 <= i /\ Len(u) \in Nat /\ Len(u) <= Len(u)
      BY <1>2, <1>4
    <2>2. Len(b) >= 1
      BY <1>7, <1>8, PortCharacters, ZenonT(40)
    <2> HIDE DEF i
    <2>3. i <= Len(u)
      BY <1>1, <2>1, <2>2, BeginsInside, ZenonT(40) DEF i
    <2>4. SubSeq(u, i, Len(u)) \in Parts(t)
      BY <2>1, <2>3, PartOfFollowing, ZenonT(40) DEF u
    <2> QED
      BY <2>4, ZenonT(40) DEF From, i
  <1> HIDE DEF a, b
  <1>13. Spells(t, a, b)
    BY <1>7, <1>9, <1>10, ZenonT(40) DEF Spells, m, w
  <1> QED
    BY <1>7, <1>11, <1>12, <1>13, ZenonT(40) DEF u

\* The parts of a text are texts.
LEMMA PartsAreTexts ==
  ASSUME NEW t \in Seq(Characters)
  PROVE  Parts(t) \subseteq Seq(Characters)
  <1> SUFFICES ASSUME NEW x \in Parts(t) PROVE x \in Seq(Characters)
    BY ZenonT(40)
  <1>0. PICK i \in 1..Len(t), j \in 0..Len(t) : x = SubSeq(t, i, j)
    BY DEF Parts
  <1>1. i \in Nat /\ j \in Nat /\ 1 <= i /\ j <= Len(t)
    BY LenProperties
  <1> QED
    BY <1>0, <1>1, PartOf, ZenonT(40)

\* A text that is parsed is spelled by two of its parts, and these are returned.
LEMMA ParsedAsPart ==
  ASSUME NEW t \in Seq(Characters), FromStr(t).result = "ok"
  PROVE  \E h, p \in Parts(t) :
           /\ Spells(t, h, p)
           /\ FromStr(t) = [result |-> "ok", host |-> h, port |-> Number(p)]
  <1> DEFINE o == FromStr(t)
  <1>1. t # <<>>
    <2> SUFFICES ASSUME t = <<>> PROVE FALSE
      OBVIOUS
    <2>1. o = Fail("Empty")
      BY DEF FromStr
    <2> QED
      BY <2>1 DEF Fail
  <1>2. CASE Head(t) = "["
    <2>1. o = FromBracketed(Tail(t))
      BY <1>1, <1>2 DEF FromStr
    <2> QED
      BY <1>1, <1>2, <2>1, ParsedBracketed, ZenonT(40)
  <1>3. CASE Head(t) # "["
    <2>1. o = FromPlain(t)
      BY <1>1, <1>3 DEF FromStr
    <2> QED
      BY <1>1, <1>3, <2>1, ParsedPlain, ZenonT(40)
  <1> QED
    BY <1>2, <1>3, ZenonT(40)

(***************************************************************************)
(* Theorems about all texts                                                *)
(***************************************************************************)

\* Endpoint::from_str accepts a text exactly if it spells a host and a port,
\* returns these, and there is only one host and port that a text spells; for
\* texts of any length.
THEOREM AcceptsExactlyWhatIsSpelled ==
  \A t \in Seq(Characters) : ParsedAsSpelled(t, FromStr(t))
  <1> SUFFICES ASSUME NEW t \in Seq(Characters)
               PROVE  ParsedAsSpelled(t, FromStr(t))
    OBVIOUS
  <1> DEFINE o == FromStr(t)
  <1>1. Parts(t) \subseteq Seq(Characters)
    BY PartsAreTexts
  <1>2. ASSUME NEW h \in Parts(t), NEW p \in Parts(t), Spells(t, h, p)
        PROVE  o = [result |-> "ok", host |-> h, port |-> Number(p)]
    <2>1. h \in Seq(Characters) /\ p \in Seq(Characters)
      BY <1>1
    <2>2. h # <<>> /\ "@" \notin ToSet(h) /\ IsU16(p) /\ Number(p) # 0
      BY <1>2, ZenonT(40) DEF Spells
    <2>3. CASE /\ t = h \o <<":">> \o p
               /\ ":" \notin ToSet(h) /\ Head(h) # "["
      BY <2>1, <2>2, <2>3, PlainIsParsed, ZenonT(40)
    <2>4. CASE /\ t = <<"[">> \o h \o <<"]", ":">> \o p
               /\ "]" \notin ToSet(h)
      BY <2>1, <2>2, <2>4, BracketedIsParsed, ZenonT(40)
    <2> QED
      BY <1>2, <2>3, <2>4, ZenonT(40) DEF Spells
  <1>3. ASSUME o.result = "ok"
        PROVE  \E h, p \in Parts(t) :
                 Spells(t, h, p) /\ o = [result |-> "ok", host |-> h, port |-> Number(p)]
    BY <1>3, ParsedAsPart, ZenonT(40)
  <1> HIDE DEF o
  <1>4. \A y : y \in SpelledBy(t) <=>
          \E h, p \in Parts(t) : Spells(t, h, p) /\ y = <<h, Number(p)>>
    <2> DEFINE pairs == {x \in Parts(t) \X Parts(t) : Spells(t, x[1], x[2])}
    <2>1. \A y : y \in SpelledBy(t) <=> \E x \in pairs : y = <<x[1], Number(x[2])>>
      BY ZenonT(40) DEF SpelledBy
    <2>2. ASSUME NEW x \in pairs
          PROVE  x[1] \in Parts(t) /\ x[2] \in Parts(t) /\ Spells(t, x[1], x[2])
      OBVIOUS
    <2>3. ASSUME NEW h \in Parts(t), NEW p \in Parts(t), Spells(t, h, p)
          PROVE  /\ <<h, p>> \in pairs /\ <<h, p>>[1] = h /\ <<h, p>>[2] = p
      BY <2>3
    <2> HIDE DEF pairs
    <2>4. ASSUME NEW y, y \in SpelledBy(t)
          PROVE  \E h, p \in Parts(t) : Spells(t, h, p) /\ y = <<h, Number(p)>>
      BY <2>1, <2>2, <2>4, ZenonT(40)
    <2>5. ASSUME NEW h \in Parts(t), NEW p \in Parts(t), Spells(t, h, p)
          PROVE  <<h, Number(p)>> \in SpelledBy(t)
      <3>1. /\ <<h, p>> \in pairs /\ <<h, p>>[1] = h /\ <<h, p>>[2] = p
        BY <2>3, <2>5
      <3> DEFINE x == <<h, p>>
      <3> HIDE DEF x
      <3>2. x \in pairs /\ x[1] = h /\ x[2] = p
        BY <3>1 DEF x
      <3> QED
        BY <2>1, <3>2, ZenonT(40)
    <2> QED
      BY <2>4, <2>5, ZenonT(40)
  <1>5. CASE o.result = "ok"
    <2>1. PICK h, p \in Parts(t) :
            Spells(t, h, p) /\ o = [result |-> "ok", host |-> h, port |-> Number(p)]
      BY <1>3, <1>5, ZenonT(40)
    <2>2. o.host = h /\ o.port = Number(p)
      BY <2>1
    <2>3. <<h, Number(p)>> \in SpelledBy(t)
      BY <1>4, <2>1, ZenonT(40)
    <2>4. ASSUME NEW y \in SpelledBy(t) PROVE y = <<h, Number(p)>>
      <3>1. PICK g, q \in Parts(t) : Spells(t, g, q) /\ y = <<g, Number(q)>>
        BY <1>4, ZenonT(40)
      <3>2. o = [result |-> "ok", host |-> g, port |-> Number(q)]
        BY <1>2, <3>1, ZenonT(40)
      <3>3. o.host = g /\ o.port = Number(q)
        BY <3>2
      <3> QED
        BY <2>2, <3>1, <3>3, ZenonT(40)
    <2>5. SpelledBy(t) = {<<o.host, o.port>>}
      BY <2>2, <2>3, <2>4, ZenonT(40)
    <2> QED
      BY <1>5, <2>5, ZenonT(40) DEF ParsedAsSpelled, o
  <1>6. CASE o.result # "ok"
    <2>1. ASSUME NEW y \in SpelledBy(t) PROVE FALSE
      <3>1. PICK g, q \in Parts(t) : Spells(t, g, q) /\ y = <<g, Number(q)>>
        BY <1>4, ZenonT(40)
      <3>2. o = [result |-> "ok", host |-> g, port |-> Number(q)]
        BY <1>2, <3>1, ZenonT(40)
      <3> QED
        BY <1>6, <3>2
    <2>2. SpelledBy(t) = {}
      BY <2>1, ZenonT(40)
    <2> QED
      BY <1>6, <2>2, ZenonT(40) DEF ParsedAsSpelled, o
  <1> QED
    BY <1>5, <1>6, ZenonT(40)

\* A port that Decimal can write: every number is written in decimal, and one
\* that a text of these characters spells needs no digit but 0 and 1.
HasDecimal(n) ==
    \E d \in BoundedSeq(Digits, 5) : d # <<>> /\ Head(d) # "0" /\ Number(d) = n

\* A port in decimal is one that from_str accepts, and is the port.
LEMMA DecimalIsU16 ==
  ASSUME NEW n, HasDecimal(n), n <= MaxPort
  PROVE  Decimal(n) \in Seq(Characters) /\ IsU16(Decimal(n)) /\ Number(Decimal(n)) = n
  <1> DEFINE d == Decimal(n)
  <1>1. d \in BoundedSeq(Digits, 5) /\ d # <<>> /\ Number(d) = n
    BY ZenonT(40) DEF HasDecimal, Decimal
  <1> HIDE DEF d
  <1>2. PICK k \in 0..5 : d \in [1..k -> Digits]
    BY <1>1 DEF BoundedSeq, SeqOf
  <1>3. d \in Seq(Digits) /\ Len(d) = k /\ k \in Nat
    BY <1>2
  <1>4. Digits \subseteq Characters
    BY DEF Characters
  <1>5. d \in Seq(Characters)
    BY <1>2, <1>3, <1>4
  <1>6. \A i \in 1..Len(d) : d[i] \in Digits
    BY <1>2, <1>3
  <1>7. Head(d) # "+"
    <2>1. Head(d) = d[1] /\ Len(d) >= 1
      BY <1>1, <1>5, Following, ZenonT(40)
    <2>2. d[1] \in Digits
      BY <1>3, <1>6, <2>1
    <2> QED
      BY <2>1, <2>2 DEF Digits
  <1>8. Unsigned(d) = d
    BY <1>7, ZenonT(40) DEF Unsigned
  <1>9. ToSet(d) \subseteq Digits
    <2>1. \A c : c \in ToSet(d) => \E i \in 1..Len(d) : d[i] = c
      BY <1>5, TextElements, ZenonT(40)
    <2> SUFFICES ASSUME NEW c \in ToSet(d) PROVE c \in Digits
      BY ZenonT(40)
    <2> QED
      BY <1>6, <2>1, ZenonT(40)
  <1>10. IsU16(d)
    BY <1>1, <1>8, <1>9, ZenonT(40) DEF IsU16
  <1> QED
    BY <1>1, <1>5, <1>10 DEF d

\* What is printed for the upstream proxy is the endpoint that the client asked
\* for: the text that Display makes of an accepted endpoint, of any length,
\* parses to the same endpoint.  A host with a colon can only have come in
\* brackets, so it holds no closing bracket that would end it early.
THEOREM AcceptedPrintsBack ==
  \A t \in Seq(Characters) :
     LET e == FromStr(t) IN
     e.result = "ok" /\ Head(e.host) # "[" /\ HasDecimal(e.port) =>
        FromStr(Display(e)) = e
  <1> SUFFICES ASSUME NEW t \in Seq(Characters), FromStr(t).result = "ok",
                      Head(FromStr(t).host) # "[", HasDecimal(FromStr(t).port)
               PROVE  FromStr(Display(FromStr(t))) = FromStr(t)
    OBVIOUS
  <1> DEFINE e == FromStr(t)
             d == Decimal(e.port)
  <1>1. PICK h, p \in Parts(t) :
          Spells(t, h, p) /\ e = [result |-> "ok", host |-> h, port |-> Number(p)]
    BY ParsedAsPart, ZenonT(40)
  <1>2. e.host = h /\ e.port = Number(p)
    BY <1>1
  <1>3. h \in Seq(Characters) /\ p \in Seq(Characters)
    BY PartsAreTexts, ZenonT(40)
  <1>4. /\ h # <<>> /\ "@" \notin ToSet(h) /\ IsU16(p) /\ Number(p) # 0
        /\ ":" \in ToSet(h) => "]" \notin ToSet(h)
    BY <1>1, ZenonT(40) DEF Spells
  <1>5. Number(p) <= MaxPort
    BY <1>4, ZenonT(40) DEF IsU16
  <1>6. d \in Seq(Characters) /\ IsU16(d) /\ Number(d) = Number(p)
    BY <1>2, <1>5, DecimalIsU16, ZenonT(40)
  <1>7. Number(d) # 0 /\ e = [result |-> "ok", host |-> h, port |-> Number(d)]
    BY <1>1, <1>4, <1>6, ZenonT(40)
  <1>8. Head(h) # "["
    BY <1>2, ZenonT(40)
  <1> HIDE DEF e, d
  <1>9. CASE ":" \in ToSet(h)
    <2>1. Display(e) = <<"[">> \o h \o <<"]", ":">> \o d
      <3> DEFINE w == <<"[">>
                 x == w \o h
                 m == <<"]">>
                 c == <<":">>
      <3>1. Display(e) = ((x \o m) \o c) \o d
        BY <1>2, <1>9, ZenonT(40) DEF Display, PrintHost, d
      <3>2. "[" \in Characters /\ "]" \in Characters /\ ":" \in Characters
        BY DEF Characters
      <3>3. w \in Seq(Characters) /\ m \in Seq(Characters) /\ c \in Seq(Characters)
        BY <3>2
      <3>4. m \o c = <<"]", ":">>
        <4> DEFINE y == <<"]", ":">>
                   z == m \o c
        <4>1. Len(m) = 1 /\ Len(c) = 1 /\ m[1] = "]" /\ c[1] = ":"
          OBVIOUS
        <4>2. y \in Seq(Characters) /\ Len(y) = 2 /\ y[1] = "]" /\ y[2] = ":"
          BY <3>2
        <4> HIDE DEF m, c, y
        <4>3. /\ z \in Seq(Characters) /\ Len(z) = Len(m) + Len(c)
              /\ \A i \in 1..Len(m) : z[i] = m[i]
              /\ \A i \in 1..Len(c) : z[Len(m) + i] = c[i]
          BY <3>3, Joined, ZenonT(40)
        <4> HIDE DEF z
        <4>4. Len(z) = Len(y) /\ \A i \in 1..Len(z) : z[i] = y[i]
          BY <4>1, <4>2, <4>3
        <4>5. z = y
          BY <4>2, <4>3, <4>4, SameText
        <4> QED
          BY <4>5 DEF z, y
      <3> HIDE DEF w, m, c
      <3>5. x \in Seq(Characters)
        BY <1>3, <3>3, Joined, ZenonT(40)
      <3> HIDE DEF x
      <3>6. (x \o m) \o c = x \o (m \o c)
        BY <3>3, <3>5, Regrouped, ZenonT(40)
      <3> QED
        BY <3>1, <3>4, <3>6, ZenonT(40) DEF x, w
    <2>2. "]" \notin ToSet(h)
      BY <1>4, <1>9, ZenonT(40)
    <2>3. FromStr(<<"[">> \o h \o <<"]", ":">> \o d) = e
      BY <1>3, <1>4, <1>6, <1>7, <2>2, BracketedIsParsed, ZenonT(40)
    <2> QED
      BY <2>1, <2>3, ZenonT(40) DEF e
  <1>10. CASE ":" \notin ToSet(h)
    <2>1. Display(e) = h \o <<":">> \o d
      BY <1>2, <1>10, ZenonT(40) DEF Display, PrintHost, d
    <2>2. FromStr(h \o <<":">> \o d) = e
      BY <1>3, <1>4, <1>6, <1>7, <1>8, <1>10, PlainIsParsed, ZenonT(40)
    <2> QED
      BY <2>1, <2>2, ZenonT(40) DEF e
  <1> QED
    BY <1>9, <1>10, ZenonT(40)

(***************************************************************************)
(* A destination is parsed as it is spelled                                *)
(***************************************************************************)

\* What the parser returned is what it makes of the target.
TargetInv ==
    /\ input.target \in Seq(Characters)
    /\ parsed.result # "not yet" => parsed = FromStr(input.target)

\* It is, from the start.
LEMMA TargetInvariance == Spec => []TargetInv
  <1>1. Init => TargetInv
    <2> SUFFICES ASSUME Init PROVE TargetInv
      OBVIOUS
    <2>1. PICK f \in Families :
             input \in [network : f.networks, target : f.targets, address : f.addresses]
      BY ZenonT(40) DEF Init
    <2>2. f.targets \subseteq Seq(Characters)
      BY DestinationInputs
    <2>3. input.target \in f.targets
      BY <2>1
    <2>4. parsed.result = "not yet"
      BY ZenonT(40) DEF Init, Fail
    <2> QED
      BY <2>2, <2>3, <2>4, ZenonT(40) DEF TargetInv
  <1>2. TargetInv /\ [Next]_vars => TargetInv'
    <2> SUFFICES ASSUME TargetInv, [Next]_vars PROVE TargetInv'
      OBVIOUS
    <2>1. input' = input
      BY ZenonT(40) DEF Next, Start, ParseTarget, Decide, Done, vars
    <2>2. parsed' = parsed \/ parsed' = FromStr(input.target)
      BY ZenonT(40) DEF Next, Start, ParseTarget, Decide, Done, vars
    <2> QED
      BY <2>1, <2>2, ZenonT(40) DEF TargetInv
  <1> QED
    BY <1>1, <1>2, PTL DEF Spec

\* The target of every CONNECT request, of any length, is parsed as the host and
\* the port that it spells, and refused if it spells none.
THEOREM TargetsAreParsedAsSpelled == Spec => []AcceptsWhatIsSpelled
  <1>1. TargetInv => AcceptsWhatIsSpelled
    BY AcceptsExactlyWhatIsSpelled, ZenonT(40) DEF TargetInv, AcceptsWhatIsSpelled
  <1> QED
    BY <1>1, TargetInvariance, PTL

\* The upstream proxy is sent the destination that the client asked for, if
\* every port that a text can spell has a decimal spelling.
THEOREM DestinationsPrintBack ==
  (\A t \in Seq(Characters) : FromStr(t).result = "ok" => HasDecimal(FromStr(t).port))
     => (Spec => []PrintedParsesBack)
  <1> SUFFICES ASSUME \A t \in Seq(Characters) :
                         FromStr(t).result = "ok" => HasDecimal(FromStr(t).port)
               PROVE  Spec => []PrintedParsesBack
    OBVIOUS
  <1>1. TargetInv => PrintedParsesBack
    <2> SUFFICES ASSUME TargetInv, parsed.result = "ok", Head(parsed.host) # "["
                 PROVE  FromStr(Display(parsed)) = parsed
      BY DEF PrintedParsesBack
    <2>1. input.target \in Seq(Characters) /\ parsed = FromStr(input.target)
      BY DEF TargetInv
    <2>2. HasDecimal(parsed.port)
      BY <2>1, ZenonT(40)
    <2> QED
      BY <2>1, <2>2, AcceptedPrintsBack, ZenonT(40)
  <1> QED
    BY <1>1, TargetInvariance, PTL

(***************************************************************************)
(* A network takes in what agrees with it in its leading bits              *)
(***************************************************************************)

\* The mask for a prefix, also for 0, where nothing is shifted, and for the
\* whole width, where it is shifted by 0.
LEMMA MaskIsLeading ==
  ASSUME NEW w \in Nat, NEW prefix \in 0..w
  PROVE  Mask(w, prefix) = {i \in 0..(w - 1) : i >= w - prefix}
  <1>1. CASE prefix = 0
    BY <1>1 DEF Mask
  <1>2. CASE prefix # 0
    <2>1. w - prefix \in 0..(w - 1)
      BY <1>2
    <2>2. (w - prefix) % w = w - prefix
      BY <2>1
    <2>3. \A i \in 0..(w - 1) : i - (w - prefix) \in 0..(w - 1) <=> i >= w - prefix
      BY <2>1
    <2> QED
      BY <1>2, <2>2, <2>3 DEF Mask, Shl, MaxOf
  <1> QED
    BY <1>1, <1>2

\* What a mask leaves of an address is its leading bits.
LEMMA MaskedIsLeading ==
  ASSUME NEW a, a.family \in {"v4", "v6"}, a.value \subseteq MaxOf(Bits[a.family]),
         NEW prefix \in 0..Bits[a.family]
  PROVE  Masked(a, prefix) = Leading(a.value, Bits[a.family], prefix)
  <1> DEFINE w == Bits[a.family]
  <1>1. w \in Nat
    BY DEF Bits
  <1> HIDE DEF w
  <1>2. Mask(w, prefix) = {i \in 0..(w - 1) : i >= w - prefix}
    BY <1>1, MaskIsLeading DEF w
  <1>3. a.value \subseteq 0..(w - 1)
    BY DEF MaxOf, w
  <1>4. a.value \intersect Mask(w, prefix) = Leading(a.value, w, prefix)
    BY <1>2, <1>3 DEF Leading
  <1> QED
    BY <1>4 DEF Masked, w

\* A network is one the parser has made of what was written.
NetworksInv ==
    /\ \A a \in {input.network, input.address} :
          a.family \in {"v4", "v6"} /\ a.value \subseteq MaxOf(Bits[a.family])
    /\ input.network \in [family : {"v4", "v6"}, value : SUBSET Nat, prefix : Nat]
    /\ \A n \in networks :
          n = ParseCidr(input.network) /\ input.network.prefix <= Bits[input.network.family]

\* Every network is.
LEMMA NetworksInvariance == Spec => []NetworksInv
  <1>1. Init => NetworksInv
    <2> SUFFICES ASSUME Init PROVE NetworksInv
      OBVIOUS
    <2>1. PICK f \in Families :
             input \in [network : f.networks, target : f.targets, address : f.addresses]
      BY ZenonT(40) DEF Init
    <2>2. /\ f.networks \subseteq [family : {"v4", "v6"}, value : SUBSET Nat, prefix : Nat]
          /\ \A a \in f.networks \union f.addresses :
                a.family \in {"v4", "v6"} /\ a.value \subseteq MaxOf(Bits[a.family])
      BY DestinationInputs
    <2>3. input.network \in f.networks /\ input.address \in f.addresses
      BY <2>1
    <2>4. networks = {}
      BY ZenonT(40) DEF Init
    <2> QED
      BY <2>2, <2>3, <2>4, ZenonT(40) DEF NetworksInv
  <1>2. NetworksInv /\ [Next]_vars => NetworksInv'
    <2> SUFFICES ASSUME NetworksInv, [Next]_vars PROVE NetworksInv'
      OBVIOUS
    <2>1. input' = input
      BY ZenonT(40) DEF Next, Start, ParseTarget, Decide, Done, vars
    <2>2. \/ networks' = networks
          \/ Parses(input.network) /\ networks' = {ParseCidr(input.network)}
      BY ZenonT(40) DEF Next, Start, ParseTarget, Decide, Done, vars
    <2> QED
      BY <2>1, <2>2, ZenonT(40) DEF NetworksInv, Parses
  <1> QED
    BY <1>1, <1>2, PTL DEF Spec

\* A network of --direct-cidr, with any host bits and any prefix from 0 to the
\* width of the address, takes in exactly the addresses that agree with it in as
\* many leading bits as the prefix says.
THEOREM NetworksMatchLeadingBits == Spec => []CidrMatchesLeadingBits
  <1>1. NetworksInv => CidrMatchesLeadingBits
    <2> SUFFICES ASSUME NetworksInv, NEW n \in networks
                 PROVE  ContainsAddress(n, input.address)
                           <=> Agrees(input.network, input.address)
      BY DEF CidrMatchesLeadingBits
    <2> DEFINE t == input.network
               a == input.address
    <2>1. /\ t.family \in {"v4", "v6"} /\ t.value \subseteq MaxOf(Bits[t.family])
          /\ a.family \in {"v4", "v6"} /\ a.value \subseteq MaxOf(Bits[a.family])
          /\ t \in [family : {"v4", "v6"}, value : SUBSET Nat, prefix : Nat]
          /\ t.prefix <= Bits[t.family] /\ n = ParseCidr(t)
      BY ZenonT(40) DEF NetworksInv
    <2>2. n.family = t.family /\ n.prefix = t.prefix /\ n.value = Masked(t, t.prefix)
      BY <2>1 DEF ParseCidr
    <2> HIDE DEF t, a
    <2>3. CASE t.family # a.family
      BY <2>2, <2>3 DEF ContainsAddress, Agrees, t, a
    <2>4. CASE t.family = a.family
      <3>1. t.prefix \in 0..Bits[t.family] /\ t.prefix \in 0..Bits[a.family]
        BY <2>1, <2>4 DEF Bits
      <3>2. Masked(t, t.prefix) = Leading(t.value, Bits[t.family], t.prefix)
        BY <2>1, <3>1, MaskedIsLeading
      <3>3. Masked(a, t.prefix) = Leading(a.value, Bits[a.family], t.prefix)
        BY <2>1, <3>1, MaskedIsLeading
      <3> QED
        BY <2>2, <2>4, <3>2, <3>3 DEF ContainsAddress, Agrees, t, a
    <2> QED
      BY <2>3, <2>4
  <1> QED
    BY <1>1, NetworksInvariance, PTL

=============================================================================
