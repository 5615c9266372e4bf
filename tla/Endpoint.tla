------------------------------ MODULE Endpoint ------------------------------
(***************************************************************************)
(* The `host:port` of a CONNECT request and of --upstream: how Endpoint    *)
(* (src/src/config.rs) is parsed, and how it is printed into the request   *)
(* sent to the upstream proxy.                                             *)
(*                                                                         *)
(* A text is a sequence of the characters the code tells apart; "h" is any *)
(* other character of a host, "@" any that a host must not have.           *)
(* Definitions marked `Mistake' are not part of the specification: each is *)
(* the definition after it with a plausible bug, and breaks a property.    *)
(***************************************************************************)
EXTENDS Integers, SequencesExt

CONSTANT MaxPort    \* the largest u16, 65535 in the code

Digits == {"0", "1"}

Characters == {"[", "]", ":", "h", "@", "+"} \union Digits

Fail(error) == [result |-> error, host |-> <<>>, port |-> 0]

(***************************************************************************)
(* str::parse::<u16>: an optional plus sign, digits, no overflow           *)
(***************************************************************************)
Unsigned(t) == IF t # <<>> /\ Head(t) = "+" THEN Tail(t) ELSE t

Number(t) ==
    LET digit(n, c) == 10 * n + (IF c = "1" THEN 1 ELSE 0)
    IN  FoldLeft(digit, 0, Unsigned(t))

IsU16(t) ==
    /\ Unsigned(t) # <<>> /\ ToSet(Unsigned(t)) \subseteq Digits
    /\ Number(t) <= MaxPort

(***************************************************************************)
(* Endpoint::from_str                                                      *)
(***************************************************************************)

\* Mistake: the last bracket closes the host, not the first.
ClosingLast(t) == SelectLastInSeq(t, LAMBDA c : c = "]")

\* bracketed.find(']'), 0 if there is none.
Closing(t) == SelectInSeq(t, LAMBDA c : c = "]")

\* The checks common to both forms.
Build(host, port) ==
    IF host = <<>> THEN Fail("EmptyHost")
    ELSE IF "@" \in ToSet(host) THEN Fail("InvalidHost")
    ELSE IF ~IsU16(port) THEN Fail("InvalidPort")
    ELSE IF Number(port) = 0 THEN Fail("ZeroPort")
    ELSE [result |-> "ok", host |-> host, port |-> Number(port)]

From(t, i) == SubSeq(t, i, Len(t))

\* What follows an opening bracket: host]:port
FromBracketed(t) ==
    LET closing == Closing(t) IN
    IF closing = 0 THEN Fail("InvalidIpv6")
    ELSE IF closing = Len(t) \/ t[closing + 1] # ":" THEN Fail("MissingPort")
    ELSE Build(SubSeq(t, 1, closing - 1), From(t, closing + 2))

\* rsplit_once(':'), 0 if there is none.
LastColon(t) == SelectLastInSeq(t, LAMBDA c : c = ":")

\* host:port, split at the last colon
FromPlain(t) ==
    LET colon == LastColon(t)
        host == SubSeq(t, 1, colon - 1)
    IN  IF colon = 0 THEN Fail("MissingPort")
        ELSE IF ":" \in ToSet(host) THEN Fail("UnbracketedIpv6")
        ELSE Build(host, From(t, colon + 1))

FromStr(t) ==
    IF t = <<>> THEN Fail("Empty")
    ELSE IF Head(t) = "[" THEN FromBracketed(Tail(t))
    ELSE FromPlain(t)

(***************************************************************************)
(* Display                                                                 *)
(***************************************************************************)

\* A port in decimal: the only spelling without a sign or leading zeros.
Decimal(n) ==
    CHOOSE t \in BoundedSeq(Digits, 5) : t # <<>> /\ Head(t) # "0" /\ Number(t) = n

\* Mistake: the host is printed without its brackets.
PrintHostBare(host) == host

PrintHost(host) ==
    IF ":" \in ToSet(host) THEN <<"[">> \o host \o <<"]">> ELSE host

Display(e) == PrintHost(e.host) \o <<":">> \o Decimal(e.port)

(***************************************************************************)
(* The reference                                                           *)
(***************************************************************************)

\* A text spells host and port if it is the host, a colon and
\* the port, or the same with the host in brackets.  A host without brackets
\* has no colon and does not begin with a bracket; one in brackets has no
\* closing bracket.
Spells(t, host, port) ==
    /\ host # <<>> /\ "@" \notin ToSet(host)
    /\ IsU16(port) /\ Number(port) # 0
    /\ \/ /\ t = host \o <<":">> \o port
          /\ ":" \notin ToSet(host) /\ Head(host) # "["
       \/ /\ t = <<"[">> \o host \o <<"]", ":">> \o port
          /\ "]" \notin ToSet(host)

Parts(t) == {SubSeq(t, i, j) : i \in 1..Len(t), j \in 0..Len(t)}

\* Every host and port that a text spells.
SpelledBy(t) ==
    LET pairs == {x \in Parts(t) \X Parts(t) : Spells(t, x[1], x[2])}
    IN  {<<x[1], Number(x[2])>> : x \in pairs}

\* The outcome of parsing a text is the host and the port that it spells, if it
\* spells any.
ParsedAsSpelled(t, outcome) ==
    SpelledBy(t) = IF outcome.result = "ok" THEN {<<outcome.host, outcome.port>>} ELSE {}

=============================================================================
