------------------------------- MODULE Http1 -------------------------------
(***************************************************************************)
(* The upstream's responses and how the proxy takes them apart             *)
(* (src/src/http1.rs, and the scheme selection of src/src/server.rs).      *)
(*                                                                         *)
(* A byte stream is a sequence of units.  A unit stands for a run of two   *)
(* or more bytes that the code's searches never look inside:               *)
(*    "hdr"      a line of a response head                                 *)
(*    "end"      the last line of a head with the empty line after it      *)
(*    "dat"      body bytes without a CRLF                                 *)
(*    "blank"    body bytes with an empty line (CRLF CRLF) in them         *)
(*    "size"     the line of a chunk of ChunkUnits units                   *)
(*    "last"     the line of the zero-sized chunk                          *)
(*    "trailer"  a trailer line                                            *)
(*    "crlf"     an empty line                                             *)
(*                                                                         *)
(* A response is a record: what parse_response_head finds in its head,     *)
(* and the units of its head and body.                                     *)
(***************************************************************************)
EXTENDS Integers, Sequences, FiniteSetsExt

Units == {"hdr", "end", "dat", "blank", "size", "last", "trailer", "crlf"}

\* Every unit but "dat" has a CRLF in it.
Lines == Units \ {"dat"}

Schemes == {"Negotiate", "Ntlm"}
AuthModes == {"Auto", "Negotiate", "Ntlm", "None"}

\* The token of a challenge: none, valid base64, or not.
Tokens == {"absent", "valid", "invalid"}

\* A Content-Length that is not a usize.
NotANumber == -1

Response ==
    [version : {0, 1}, status : Nat, connection : SUBSET {"close", "keep-alive"},
     chunked : BOOLEAN, lengths : Seq(Nat \union {NotANumber}),
     challenges : Seq([scheme : Schemes, token : Tokens]),
     head : Seq(Units), body : Seq(Units)]

Encode(r) == r.head \o r.body

Front(s, n) == SubSeq(s, 1, n)
Rest(s, n) == SubSeq(s, n + 1, Len(s))

(***************************************************************************)
(* ResponseHead                                                            *)
(***************************************************************************)

\* A body that only the end of the connection delimits.
CloseDelimited(r) == ~r.chunked /\ r.lengths = <<>> /\ r.body # <<>>

ConnectionClose(r) ==
    \/ "close" \in r.connection
    \/ r.version = 0 /\ "keep-alive" \notin r.connection

LengthsOf(r) == {r.lengths[i] : i \in 1..Len(r.lengths)}

\* content_length is an error unless every value is a number, and the same.
ContentLengthError(r) ==
    NotANumber \in LengthsOf(r) \/ \E m, n \in LengthsOf(r) : m # n

\* Mistake: a length is looked for first.
BodyFramingLengthFirst(r) ==
    IF ContentLengthError(r) THEN "invalid"
    ELSE IF r.lengths # <<>> THEN "length"
    ELSE IF r.chunked THEN "chunked"
    ELSE "none"

\* The cases of drain_response_body.
BodyFraming(r) ==
    IF r.chunked THEN "chunked"
    ELSE IF ContentLengthError(r) THEN "invalid"
    ELSE IF r.lengths # <<>> THEN "length"
    ELSE "none"

IsConnectSuccess(r) == r.status \in 200..299

(***************************************************************************)
(* Searches in the buffer                                                  *)
(***************************************************************************)

\* The places where a CRLF CRLF ends.
HeaderEnds(b) ==
    {i \in 1..Len(b) : \/ b[i] \in {"end", "blank"}
                       \/ b[i] = "crlf" /\ i > 1 /\ b[i - 1] \in Lines}

\* find_header_end is Some(FindHeaderEnd(b))
HasHeaderEnd(b) == HeaderEnds(b) # {}
FindHeaderEnd(b) == Min(HeaderEnds(b))

\* Mistake: the buffer is cleared.
AfterHeadNothing(b) == <<>>

\* Mistake: the head is not taken out of the buffer.
AfterHeadAll(b) == b

\* What taking the head leaves in the buffer.
AfterHead(b) == Rest(b, FindHeaderEnd(b))

\* httparse accepts what is a head, after an empty line at most.
ParsesAsHead(h) ==
    LET t == IF h[1] = "crlf" THEN Tail(h) ELSE h
    IN  /\ t # <<>>
        /\ t[Len(t)] = "end"
        /\ \A i \in 1..Len(t) - 1 : t[i] = "hdr"

\* read_line's search: the first unit with a CRLF in it.
HasLine(b) == \E i \in 1..Len(b) : b[i] \in Lines
LineEnd(b) == Min({i \in 1..Len(b) : b[i] \in Lines})
LineOf(b) == Front(b, LineEnd(b))

\* What a line leaves in the buffer: "end" and "blank" have a second CRLF.
AfterLine(b) ==
    (IF b[LineEnd(b)] \in {"end", "blank"} THEN <<"crlf">> ELSE <<>>)
        \o Rest(b, LineEnd(b))

(***************************************************************************)
(* Challenges                                                              *)
(***************************************************************************)
HasChallenge(r, scheme) ==
    \E i \in 1..Len(r.challenges) : r.challenges[i].scheme = scheme

\* find_challenge: the first item of the scheme.
FindChallenge(r, scheme) ==
    r.challenges[Min({i \in 1..Len(r.challenges) :
                         r.challenges[i].scheme = scheme})].token

\* choose_scheme, for a mode other than None: Negotiate before NTLM; "none" is
\* AuthenticationSchemeMissing.
ChooseScheme(r, mode) ==
    IF mode # "Ntlm" /\ HasChallenge(r, "Negotiate") THEN "Negotiate"
    ELSE IF mode # "Negotiate" /\ HasChallenge(r, "Ntlm") THEN "Ntlm"
    ELSE "none"

=============================================================================
