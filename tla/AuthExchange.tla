---------------------------- MODULE AuthExchange ----------------------------
(***************************************************************************)
(* Opening a tunnel through the upstream proxy:                            *)
(* Proxy::establish_upstream_tunnel (src/src/server.rs), with the buffered *)
(* reads of BufferedStream (src/src/http1.rs) and the SSPI context of      *)
(* SspiContext (src/src/auth.rs).  The upstream proxy is external: it      *)
(* answers each request with any response of Responses, or closes.         *)
(*                                                                         *)
(* Definitions marked `Mistake' are not part of the specification: each is *)
(* the definition after it with a plausible bug, and breaks a property.    *)
(***************************************************************************)
EXTENDS Http1, SspiContext

CONSTANTS
    Responses,        \* what the upstream may answer
    Auths,            \* the values config.auth may have
    MaxHeaderBytes,   \* config.max_header_bytes, in units
    ReadSize,         \* the 8192-byte chunk of the reads, in units
    LineReadSize,     \* the 1024-byte chunk of read_line, in units
    LineLimit,        \* the 8192 bytes of a line, in units
    ChunkUnits,       \* the units of a chunk of a chunked body
    MAX_AUTH_ROUNDS

ASSUME ExchangeConstants ==
    /\ Responses \subseteq Response
    /\ Auths \subseteq AuthModes
    /\ {MaxHeaderBytes, ReadSize, LineReadSize, LineLimit, ChunkUnits,
        MAX_AUTH_ROUNDS} \subseteq Nat \ {0}

VARIABLES
    auth,         \* config.auth
    pc,           \* where establish_upstream_tunnel is
    result,       \* what it returns: "ok" or an error
    conn,         \* sockets opened so far: the number of the current one
    wire,         \* units the upstream has sent and the proxy has not read
    peer,         \* the upstream's end of the socket: "open", "fin" or "rst"
    awaiting,     \* a request is on the socket, not yet answered
    reply,        \* the upstream's last response
    buffer,       \* BufferedStream::buffer
    response,     \* the last response head parsed
    scheme,       \* the scheme chosen, "none" before
    challenge,    \* the token to answer and the socket it came on
    must_drain,   \* must_drain_response
    round,        \* tokens produced so far
    remaining     \* discard_exact's count

socketVars == <<conn, wire, peer, awaiting, reply>>
taskVars == <<auth, response, scheme, challenge, must_drain, round>>
vars == <<pc, result, socketVars, buffer, taskVars, remaining, sspiVars>>

\* The awaits of the task, where its future can be dropped.
Awaits == {"connect", "send", "read_head", "discard", "size_line",
           "terminator", "trailer"}

States == Awaits \union {"first", "next", "round", "step", "unwind", "done"}

Errors == {"connect_failed", "io", "unexpected_eof", "header_too_large",
           "parse", "invalid_content_length", "invalid_chunked_body",
           "upstream_status", "authentication_required", "scheme_missing",
           "auth", "invalid_token", "closed_during_auth", "too_many_rounds",
           "cancelled"}

NoResponse ==
    [version |-> 1, status |-> 0, connection |-> {}, chunked |-> FALSE,
     lengths |-> <<>>, challenges |-> <<>>, head |-> <<>>, body |-> <<>>]

Init ==
    /\ auth \in Auths
    /\ pc = "connect"
    /\ result = "none"
    /\ conn = 0
    /\ wire = <<>>
    /\ peer = "open"
    /\ awaiting = FALSE
    /\ reply = NoResponse
    /\ buffer = <<>>
    /\ response = NoResponse
    /\ scheme = "none"
    /\ challenge = [token |-> "absent", conn |-> 0]
    /\ must_drain = FALSE
    /\ round = 0
    /\ remaining = 0
    /\ SspiInit

\* Everything but the control state stays as it is.
KeepData == UNCHANGED <<socketVars, buffer, taskVars, remaining, sspiVars>>

\* Every way out drops the locals on the way (see Unwind).
Exit(r) ==
    /\ pc' = "unwind"
    /\ result' = r
    /\ KeepData

GoTo(state) ==
    /\ pc' = state
    /\ UNCHANGED result

(***************************************************************************)
(* Sockets                                                                 *)
(***************************************************************************)

\* connect_upstream: a fresh BufferedStream, the old one closed.  The second
\* call goes straight on to the authentication rounds.
Connect ==
    /\ pc = "connect"
    /\ conn' = conn + 1
    /\ wire' = <<>> /\ buffer' = <<>>
    /\ peer' = "open"
    /\ awaiting' = FALSE
    /\ GoTo(IF scheme = "none" THEN "send" ELSE "round")
    /\ UNCHANGED <<reply, taskVars, remaining, sspiVars>>

ConnectFails ==
    /\ pc = "connect"
    /\ Exit("connect_failed")

\* send_connect_request.
Send ==
    /\ pc = "send"
    /\ awaiting' = TRUE
    /\ GoTo("read_head")
    /\ UNCHANGED <<conn, wire, peer, reply, buffer, taskVars, remaining, sspiVars>>

SendFails ==
    /\ pc = "send"
    /\ peer # "open"
    /\ Exit("io")

\* A read of at most `wanted' units that returns some.
ReadSome(wanted, n) ==
    /\ n \in 1..Min({wanted, Len(wire)})
    /\ wire' = Rest(wire, n)
    /\ UNCHANGED <<conn, peer, awaiting, reply>>

\* A read that fails: end of stream, or a reset connection.
ReadFails ==
    \/ wire = <<>> /\ peer = "fin" /\ Exit("unexpected_eof")
    \/ peer = "rst" /\ Exit("io")

(***************************************************************************)
(* The response head                                                       *)
(***************************************************************************)

\* Mistake: a buffer one short of the limit counts as full.
HeadTooLargeEarly == Len(buffer) + 1 >= MaxHeaderBytes

HeadTooLarge == Len(buffer) >= MaxHeaderBytes

\* One turn of read_response_head's loop without a whole head.
FillHead ==
    /\ pc = "read_head"
    /\ ~HasHeaderEnd(buffer)
    /\ \/ HeadTooLarge /\ Exit("header_too_large")
       \/ /\ ~HeadTooLarge
          /\ \/ ReadFails
             \/ \E n \in 1..ReadSize :
                   /\ ReadSome(Min({ReadSize, MaxHeaderBytes - Len(buffer)}), n)
                   /\ buffer' = buffer \o Front(wire, n)
                   /\ UNCHANGED <<pc, result, taskVars, remaining, sspiVars>>

\* The head is taken out of the buffer and parsed.
TakeHead ==
    /\ pc = "read_head"
    /\ HasHeaderEnd(buffer)
    /\ buffer' = AfterHead(buffer)
    /\ IF ParsesAsHead(Front(buffer, FindHeaderEnd(buffer)))
       THEN /\ response' = reply
            /\ pc' = IF scheme = "none" THEN "first" ELSE "next"
            /\ UNCHANGED result
       ELSE /\ pc' = "unwind"
            /\ result' = "parse"
            /\ UNCHANGED response
    /\ UNCHANGED <<socketVars, auth, scheme, challenge, must_drain, round>>
    /\ UNCHANGED <<remaining, sspiVars>>

(***************************************************************************)
(* Judging a response                                                      *)
(***************************************************************************)

\* What both responses to a token and the first one can end the exchange with.
Settled(r) ==
    \/ IsConnectSuccess(response) /\ r = "ok"
    \/ /\ ~IsConnectSuccess(response) /\ response.status # 407
       /\ r = "upstream_status"

\* Mistake: `--auth none' is not looked at.
AuthAlways == TRUE

AuthEnabled == auth # "None"

\* A 407 in answer to the request without a token, when no scheme fits.
FirstRefused(r) ==
    /\ response.status = 407
    /\ \/ ~AuthEnabled /\ r = "authentication_required"
       \/ /\ AuthEnabled /\ ChooseScheme(response, auth) = "none"
          /\ r = "scheme_missing"

\* Mistake: a challenge with a token is answered on a fresh socket, too.
NeverBound(token) == FALSE

\* A challenge with a token belongs to the socket that it came on.
ConnectionBound(token) == token # "absent"

\* A 407 with a scheme to use: create the context, decode the challenge, and
\* replace a socket that the upstream closes, unless the challenge is bound
\* to it.
FirstChallenged ==
    LET chosen == ChooseScheme(response, auth)
        token == FindChallenge(response, chosen)
    IN  /\ response.status = 407 /\ AuthEnabled /\ chosen # "none"
        /\ SspiNew
        /\ scheme' = chosen
        /\ challenge' = [token |-> token, conn |-> conn]
        /\ must_drain' = ~ConnectionClose(response)
        /\ IF token = "invalid"
           THEN pc' = "unwind" /\ result' = "invalid_token"
           ELSE IF ConnectionClose(response) /\ ConnectionBound(token)
           THEN pc' = "unwind" /\ result' = "closed_during_auth"
           ELSE GoTo(IF ConnectionClose(response) THEN "connect" ELSE "round")
        /\ UNCHANGED <<socketVars, buffer, auth, response, round, remaining>>

\* auth_factory.create fails.
CreateFails ==
    /\ response.status = 407 /\ AuthEnabled
    /\ ChooseScheme(response, auth) # "none"
    /\ Exit("auth")

First ==
    /\ pc = "first"
    /\ \/ \E r \in {"ok"} \union Errors : (Settled(r) \/ FirstRefused(r)) /\ Exit(r)
       \/ FirstChallenged
       \/ CreateFails

\* A 407 in answer to a token: the same scheme goes on.
NextChallenged ==
    LET token == FindChallenge(response, scheme)
    IN  /\ response.status = 407 /\ HasChallenge(response, scheme)
        /\ challenge' = [token |-> token, conn |-> conn]
        /\ must_drain' = TRUE
        /\ IF token = "invalid"
           THEN pc' = "unwind" /\ result' = "invalid_token"
           ELSE GoTo("round")
        /\ UNCHANGED <<socketVars, buffer, auth, response, scheme, round>>
        /\ UNCHANGED <<remaining, sspiVars>>

NextUnchallenged ==
    /\ response.status = 407 /\ ~HasChallenge(response, scheme)
    /\ Exit("scheme_missing")

Following ==
    /\ pc = "next"
    /\ \/ \E r \in {"ok"} \union Errors : Settled(r) /\ Exit(r)
       \/ NextChallenged
       \/ NextUnchallenged

(***************************************************************************)
(* The authentication rounds                                               *)
(***************************************************************************)

\* Mistake: the part of a body that is buffered already is not counted.
BufferedIgnored(length, from) == 0

Buffered(length, from) == Min({length, Len(from)})

\* discard_exact up to its first read: what is buffered is used first.
BeginDiscard(from, length, after) ==
    /\ buffer' = Rest(from, Buffered(length, from))
    /\ remaining' = length - Buffered(length, from)
    /\ GoTo(IF remaining' = 0 THEN after ELSE "discard")
    /\ UNCHANGED <<socketVars, taskVars, sspiVars>>

\* drain_response_body up to its first read.
Drain ==
    LET framing == BodyFraming(response) IN
    \/ framing = "chunked" /\ GoTo("size_line") /\ KeepData
    \/ framing = "invalid" /\ Exit("invalid_content_length")
    \/ framing = "length" /\ BeginDiscard(buffer, response.lengths[1], "step")
    \/ framing = "none" /\ GoTo("step") /\ KeepData

\* Mistake: one round too many.
RoundsExceeded == round > MAX_AUTH_ROUNDS

RoundsExhausted == round = MAX_AUTH_ROUNDS

\* Mistake: a socket that closes between two rounds is replaced.
ReconnectDuringAuth == GoTo("connect") /\ KeepData

ClosedDuringAuth == Exit("closed_during_auth")

\* The head of the `for' loop and the drain of the challenge's body.
Round ==
    /\ pc = "round"
    /\ \/ RoundsExhausted /\ Exit("too_many_rounds")
       \/ /\ ~RoundsExhausted
          /\ \/ must_drain /\ ConnectionClose(response) /\ ClosedDuringAuth
             \/ must_drain /\ ~ConnectionClose(response) /\ Drain
             \/ ~must_drain /\ GoTo("step") /\ KeepData

\* context.step(challenge); a context that is complete refuses.
Step ==
    /\ pc = "step"
    /\ \/ complete /\ Exit("auth")
       \/ \E status \in Statuses, completes, frees \in BOOLEAN :
             /\ SspiStep(status, completes, frees)
             /\ IF StepSucceeds(status, completes, frees)
                THEN GoTo("send") /\ round' = round + 1
                ELSE pc' = "unwind" /\ result' = "auth" /\ UNCHANGED round
             /\ UNCHANGED <<socketVars, buffer, auth, response, scheme, challenge>>
             /\ UNCHANGED <<must_drain, remaining>>

\* A read of discard_exact.
Discard ==
    /\ pc = "discard"
    /\ \/ ReadFails
       \/ \E n \in 1..ReadSize :
             /\ ReadSome(Min({ReadSize, remaining}), n)
             /\ remaining' = remaining - n
             /\ GoTo(IF remaining' > 0 THEN "discard"
                     ELSE IF BodyFraming(response) = "chunked"
                     THEN "terminator" ELSE "step")
             /\ UNCHANGED <<buffer, taskVars, sspiVars>>

\* Mistake: no limit.
LineNeverTooLong(limit) == FALSE

LineTooLong(limit) == Len(buffer) >= limit

\* One turn of read_line's loop without a whole line.
FillLine(state, limit) ==
    /\ pc = state
    /\ ~HasLine(buffer)
    /\ \/ LineTooLong(limit) /\ Exit("invalid_chunked_body")
       \/ /\ ~LineTooLong(limit)
          /\ \/ ReadFails
             \/ \E n \in 1..LineReadSize :
                   /\ ReadSome(LineReadSize, n)
                   /\ buffer' = buffer \o Front(wire, n)
                   /\ UNCHANGED <<pc, result, taskVars, remaining, sspiVars>>

\* read_line returns, and drain_chunked goes on to `state'.
TakeLine(state) ==
    /\ buffer' = AfterLine(buffer)
    /\ GoTo(state)
    /\ UNCHANGED <<socketVars, taskVars, remaining, sspiVars>>

\* The size line of a chunk, and the chunk as far as it is in the buffer.
SizeLine ==
    /\ pc = "size_line"
    /\ HasLine(buffer)
    /\ \/ LineOf(buffer) = <<"last">> /\ TakeLine("trailer")
       \/ /\ LineOf(buffer) = <<"size">>
          /\ BeginDiscard(AfterLine(buffer), ChunkUnits, "terminator")
       \/ /\ LineOf(buffer) \notin {<<"last">>, <<"size">>}
          /\ Exit("invalid_chunked_body")

Terminator ==
    /\ pc = "terminator"
    /\ HasLine(buffer)
    /\ \/ LineOf(buffer) = <<"crlf">> /\ TakeLine("size_line")
       \/ LineOf(buffer) # <<"crlf">> /\ Exit("invalid_chunked_body")

\* Trailers are skipped up to the empty line that ends the body.
Trailer ==
    /\ pc = "trailer"
    /\ HasLine(buffer)
    /\ TakeLine(IF LineOf(buffer) = <<"crlf">> THEN "step" ELSE "trailer")

\* drain_chunked
DrainChunked ==
    \/ FillLine("size_line", LineLimit)
    \/ SizeLine
    \/ FillLine("terminator", 1)
    \/ Terminator
    \/ FillLine("trailer", LineLimit)
    \/ Trailer

(***************************************************************************)
(* The end of the exchange                                                 *)
(***************************************************************************)

\* The future is dropped at an await: the runtime goes away (main returns).
Cancelled ==
    /\ pc \in Awaits
    /\ Exit("cancelled")

\* The locals are dropped, the context among them; the socket outlives an
\* "ok" as the BufferedStream that is returned.
Unwind ==
    /\ pc = "unwind"
    /\ SspiDrop
    /\ pc' = "done"
    /\ UNCHANGED <<result, socketVars, buffer, taskVars, remaining>>

Done ==
    /\ pc = "done"
    /\ UNCHANGED vars

(***************************************************************************)
(* The upstream proxy                                                      *)
(***************************************************************************)
UpstreamUnchanged == UNCHANGED <<pc, result, conn, buffer, taskVars, remaining, sspiVars>>

\* It answers a request, the whole response at once; the reads split it.
UpstreamReplies ==
    /\ pc # "done" /\ peer = "open" /\ awaiting
    /\ \E r \in Responses :
          /\ reply' = r
          /\ wire' = wire \o Encode(r)
    /\ awaiting' = FALSE
    /\ UNCHANGED peer
    /\ UpstreamUnchanged

\* It closes the socket, or the connection fails and takes with it what was
\* not read yet.
UpstreamCloses ==
    /\ pc # "done" /\ conn > 0 /\ peer = "open"
    /\ \/ peer' = "fin" /\ UNCHANGED wire
       \/ peer' = "rst" /\ wire' = <<>>
    /\ UNCHANGED <<awaiting, reply>>
    /\ UpstreamUnchanged

Task ==
    \/ Connect \/ ConnectFails
    \/ Send \/ SendFails
    \/ FillHead \/ TakeHead
    \/ First \/ Following
    \/ Round \/ Discard \/ DrainChunked \/ Step
    \/ Unwind

Next ==
    \/ Task
    \/ Cancelled
    \/ UpstreamReplies
    \/ UpstreamCloses
    \/ Done

\* The task is polled when it is woken, and the upstream answers a request
\* unless it closes the socket.
Spec ==
    /\ Init /\ [][Next]_vars
    /\ WF_vars(Task)
    /\ WF_vars(UpstreamReplies)

(***************************************************************************)
(* Responses that are as long as their heads say                           *)
(***************************************************************************)

\* What a unit of a chunked body takes it to: from a size line to the units of
\* a chunk, which are counted, to the empty line after it; from the last size
\* line to the trailers, and with an empty line to the end of the body.
AfterUnit(place, unit) ==
    CASE place = <<"size", 0>> ->
            IF unit = "size" THEN <<"chunk", ChunkUnits>>
            ELSE IF unit = "last" THEN <<"trailer", 0>> ELSE <<"bad", 0>>
      [] place[1] = "chunk" ->
            IF place[2] = 1 THEN <<"after", 0>> ELSE <<"chunk", place[2] - 1>>
      [] place = <<"after", 0>> ->
            IF unit = "crlf" THEN <<"size", 0>> ELSE <<"bad", 0>>
      [] place[1] = "trailer" ->
            IF unit \in {"end", "blank"} \/ (unit = "crlf" /\ place[2] = 0)
            THEN <<"over", 0>>
            ELSE <<"trailer", IF unit = "dat" THEN 1 ELSE 0>>
      [] OTHER -> place

\* Where a chunked body is after each of its units.
ChunkPlaces(body) ==
    LET at[i \in 0..Len(body)] ==
            IF i = 0 THEN <<"size", 0>> ELSE AfterUnit(at[i - 1], body[i])
    IN  at

\* A head has one empty line, its last; a body that the exchange goes on after
\* is as long as the head says, and a chunked one has nothing after its end.
Truthful(r) ==
    /\ HeaderEnds(r.head) = {Len(r.head)}
    /\ r.status = 407 /\ ~ConnectionClose(r) =>
          /\ ~r.chunked /\ r.lengths = <<>> => r.body = <<>>
          /\ ~r.chunked /\ r.lengths # <<>> /\ ~ContentLengthError(r) =>
                Len(r.body) = r.lengths[1]
          /\ r.chunked =>
                \A i \in 0..Len(r.body) :
                    ChunkPlaces(r.body)[i] = <<"over", 0>> => i = Len(r.body)

\* The upstream sends such responses only.
Reliable == \A r \in Responses : Truthful(r)

-----------------------------------------------------------------------------
(***************************************************************************)
(* Properties                                                              *)
(***************************************************************************)

\* Every variable of the exchange has its type; there are never more than two
\* sockets, and never more than MAX_AUTH_ROUNDS tokens.
TypeOK ==
    /\ auth \in AuthModes
    /\ pc \in States
    /\ result \in {"none", "ok"} \union Errors
    /\ conn \in 0..2
    /\ wire \in Seq(Units)
    /\ peer \in {"open", "fin", "rst"}
    /\ awaiting \in BOOLEAN
    /\ reply \in Responses \union {NoResponse}
    /\ buffer \in Seq(Units)
    /\ response \in Responses \union {NoResponse}
    /\ scheme \in Schemes \union {"none"}
    /\ challenge \in [token : Tokens, conn : 0..2]
    /\ must_drain \in BOOLEAN
    /\ round \in 0..MAX_AUTH_ROUNDS
    /\ remaining \in Nat
    /\ SspiTypeOK

\* A request is sent only on a socket with nothing of an earlier response
\* left on it, read or unread: the next head that is parsed is the answer to
\* that request.  (Responses whose bodies are as long as their heads say.)
NothingUnreadAtSend == pc = "send" => buffer \o wire = <<>>

\* A challenge that carries a token is answered on the socket it came on.
ChallengeAnsweredOnItsSocket ==
    pc \in {"step", "send"} /\ challenge.token # "absent" => challenge.conn = conn

\* Once a token has been sent, the exchange stays on its socket ("all later
\* rounds must use the same upstream socket", docs/ARCHITECTURE.md) and with
\* its scheme.
TokensStayOnOneSocket ==
    [][round > 0 => conn' = conn /\ scheme' = scheme]_vars

\* However the exchange ends, by success, an error at any step or the future
\* being dropped, the handles of its security context are released.
HandlesReleased == pc = "done" => credentials = 0 /\ contexts = 0

\* InitializeSecurityContextW is not called again for a context that SSPI has
\* finished: step would refuse first.
FinishedIsNeverStepped == pc = "step" /\ finished => complete

\* A successful exchange hands the relay exactly what the upstream sent after
\* its 2xx head, the bytes read along with the head included.
PrefetchIsTunnelData ==
    result = "ok" /\ peer # "rst" => buffer \o wire = reply.body

\* What is left for handle_client to write before the relay runs is less than
\* one read, which is what Session assumes of this exchange.
PrefetchBelowRead == result = "ok" => Len(buffer) < ReadSize

\* HeaderTooLarge is only for heads larger than max_header_bytes, and no
\* larger head is accepted.
HeaderLimitExact ==
    /\ result = "header_too_large" => Len(reply.head) > MaxHeaderBytes
    /\ pc \in {"first", "next"} => Len(response.head) <= MaxHeaderBytes

\* The buffer stays within a fixed bound, whatever the upstream sends.
BufferBounded == Len(buffer) <= Max({MaxHeaderBytes, LineLimit - 1 + LineReadSize})

\* With --auth none a 407 ends the exchange: no security context is created,
\* no token sent, no second socket opened.
NoAuthNoContext == auth = "None" => ~created /\ round = 0 /\ conn <= 1

\* If the upstream answers or closes, the exchange ends.
ExchangeEnds == <>(pc = "done")

\* "If a proxy uses close-delimited framing, `connection_close` prevents reuse"
\* (src/src/http1.rs): a response that neither is chunked nor has a length,
\* but has a body, is not followed by another request on its socket.
CloseDelimitedNotReused ==
    pc = "send" /\ must_drain => ~CloseDelimited(response)

=============================================================================
