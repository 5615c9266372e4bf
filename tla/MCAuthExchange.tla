--------------------------- MODULE MCAuthExchange ---------------------------
(* Instances of AuthExchange for TLC: sets of responses.                   *)
EXTENDS AuthExchange

Ok(body) == [NoResponse EXCEPT !.status = 200, !.head = <<"hdr", "end">>,
                               !.body = body]

Status(code) == [Ok(<<>>) EXCEPT !.status = code]

Offer(challenges) == [Status(407) EXCEPT !.challenges = challenges]

Bare(s) == [scheme |-> s, token |-> "absent"]
With(s) == [scheme |-> s, token |-> "valid"]
Junk(s) == [scheme |-> s, token |-> "invalid"]

(***************************************************************************)
(* Bodies: the ways a 407 can be framed, correctly and not, and heads at   *)
(* and around the limit.  Every body that the exchange goes on after is as *)
(* long as its head says.                                                  *)
(***************************************************************************)
Framed(lengths, body) ==
    [Offer(<<Bare("Ntlm")>>) EXCEPT !.lengths = lengths, !.body = body]

Chunked(body) == [Framed(<<>>, body) EXCEPT !.chunked = TRUE]

FramingResponses == {
    Ok(<<>>), Ok(<<"dat", "blank", "dat">>),
    [Ok(<<>>) EXCEPT !.head = <<"hdr", "hdr", "end">>],
    [Ok(<<>>) EXCEPT !.head = <<"hdr", "hdr", "hdr", "end">>],
    [Ok(<<>>) EXCEPT !.head = <<"dat", "end">>],
    Framed(<<>>, <<>>), Framed(<<0>>, <<>>),
    Framed(<<3>>, <<"dat", "blank", "dat">>), Framed(<<1, 1>>, <<"dat">>),
    Framed(<<1, 2>>, <<"dat">>), Framed(<<NotANumber>>, <<"dat">>),
    Chunked(<<"last", "crlf">>),
    Chunked(<<"size", "dat", "blank", "crlf", "last", "trailer", "crlf">>),
    [Chunked(<<"size", "dat", "dat", "crlf", "last", "crlf">>)
        EXCEPT !.lengths = <<2>>],
    Chunked(<<"size", "dat", "dat", "dat", "last", "crlf">>),
    Chunked(<<"size", "dat", "dat", "trailer", "last", "crlf">>),
    Chunked([i \in 1..9 |-> "dat"]),
    Chunked(<<"trailer", "last", "crlf">>) }

(***************************************************************************)
(* Challenges: which schemes are offered, with which tokens, on which kind *)
(* of connection.                                                          *)
(***************************************************************************)
Connections == { <<1, {}>>, <<1, {"close"}>>, <<0, {}>>, <<0, {"keep-alive"}>> }

On(r, c) == [r EXCEPT !.version = c[1], !.connection = c[2]]

ChallengeResponses ==
    { Ok(<<>>), Ok(<<"dat">>), Status(403), Offer(<<>>) }
    \union
    { On(Offer(ch), c) :
        ch \in { <<Bare("Ntlm")>>, <<With("Ntlm")>>, <<Junk("Ntlm")>>,
                 <<With("Negotiate")>>, <<Bare("Ntlm"), Bare("Negotiate")>> },
        c \in Connections }
    \union
    { [On(Framed(<<>>, <<"dat">>), <<0, {}>>) EXCEPT !.challenges = <<Bare("Ntlm")>>] }

\* These are responses the theorems about a reliable upstream speak of.
ASSUME LongAsTheySay ==
    \A r \in FramingResponses \union ChallengeResponses : Truthful(r)

\* A 407 of an HTTP/1.1 proxy that delimits its body by closing, and does not
\* announce that it will.
CloseDelimitedResponses == { Ok(<<>>), Framed(<<>>, <<"dat">>) }
=============================================================================
