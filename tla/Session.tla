------------------------------ MODULE Session ------------------------------
(***************************************************************************)
(* One client's connection: Proxy::handle_client and establish_tunnel with *)
(* the direct route (src/src/server.rs), and the request head's reader     *)
(* (src/src/http1.rs).  The exchange with the upstream proxy is one step   *)
(* here (AuthExchange has its detail), the relay is Tunnel's.              *)
(*                                                                         *)
(* Bytes are integers: CR, LF, 0 for any other byte of a head, and 1, 2,   *)
(* ... for the bytes an endpoint sends through the tunnel, in order.       *)
(* Definitions marked `Mistake' are not part of the specification: each is *)
(* the definition after it with a plausible bug, and breaks a property.    *)
(***************************************************************************)
EXTENDS Integers, Sequences, FiniteSetsExt

CONSTANTS
    Requests,         \* what the client may be about to send
    RoutingModes,     \* the values of config.routing to consider
    Answers,          \* what the resolver may answer
    DirectAddresses,  \* the addresses is_direct_address accepts
    MaxHeaderBytes,   \* config.max_header_bytes
    ReadSize,         \* the size of one read, 8 KiB in the code
    RemoteSends,      \* bound: the bytes the remote end sends
    IdleTimeout       \* 0 is None

CR == -1
LF == -2
HeaderEndMark == <<CR, LF, CR, LF>>

Data(n) == [i \in 1..n |-> i]

\* A request's `kind' is what httparse and Endpoint::from_str make of its
\* head; `early' of its `data' bytes do not wait for the reply.
Kinds == {"connect", "other_method", "bad_target", "malformed"}

\* find_header_end: the first of the positions where a head may end.
HeaderEnds(b) == {i \in 4..Len(b) : SubSeq(b, i - 3, i) = HeaderEndMark}

HeaderEnd(b) == Min(HeaderEnds(b))

\* A head ends with its first empty line, if it has one; what follows it is
\* data.  Where a session is connected to, "none" and "proxy" are no addresses.
ASSUME SessionBounds ==
    /\ \A r \in Requests :
          /\ r.head \in Seq({CR, LF, 0}) /\ r.kind \in Kinds
          /\ HeaderEnds(r.head) \subseteq {Len(r.head)}
          /\ r.data \in Nat /\ r.early \in 0..r.data
    /\ \A a \in Answers : a \in Seq(STRING)
    /\ DirectAddresses \intersect {"none", "proxy"} = {}
    /\ RoutingModes \subseteq {"auto", "proxy_only"}
    /\ MaxHeaderBytes \in Nat \ {0} /\ ReadSize \in Nat \ {0}
    /\ RemoteSends \in Nat /\ IdleTimeout \in Nat

VARIABLES
    inflight, arrived, eof, fin, reset, tunnel,    \* see Tunnel
    request,      \* what the client sends, chosen at the start
    routing,      \* config.routing
    sent,         \* how many bytes each endpoint has sent
    received,     \* the replies the client has read
    pc,           \* the await handle_client is at
    bytes,        \* the head being read
    prefetched,   \* bytes read beyond the head of either side
    status,       \* the status being sent by send_error
    replies,      \* the replies written to the client
    lookup,       \* the resolver's thread: "idle", "running", "done"
    answer,       \* its answer; empty if it failed
    addresses,    \* direct addresses that remain to be tried
    route,        \* "none", "direct" or "upstream"
    remote        \* what the session is connected to

wires == <<inflight, arrived, eof, fin, reset, tunnel>>
choices == <<request, routing>>
resolver == <<lookup, answer>>
head == <<bytes, prefetched, status>>
connection == <<addresses, route, remote>>
vars == <<wires, choices, sent, received, pc, head, replies, resolver,
          connection>>

T == INSTANCE Tunnel

Endpoints == T!Endpoints

Init ==
    /\ inflight = [d \in Endpoints |-> <<>>]
    /\ arrived = [d \in Endpoints |-> <<>>]
    /\ eof = [d \in Endpoints |-> FALSE]
    /\ fin = [d \in Endpoints |-> FALSE]
    /\ reset = {}
    /\ tunnel = "none"
    /\ request \in Requests
    /\ routing \in RoutingModes
    /\ sent = [d \in Endpoints |-> 0]
    /\ received = <<>>
    /\ pc = "read_head"
    /\ bytes = <<>>
    /\ prefetched = [d \in Endpoints |-> <<>>]
    /\ status = 0
    /\ replies = <<>>
    /\ lookup = "idle"
    /\ answer = <<>>
    /\ addresses = <<>>
    /\ route = "none"
    /\ remote = "none"

ClientGone == "client" \in reset

(***************************************************************************)
(* read_request_head                                                       *)
(***************************************************************************)

Room == MaxHeaderBytes - Len(bytes)

\* Mistake: one read takes all that the head may still have.
ReadLimitRoom == Room

\* chunk.len().min(remaining)
ReadLimit == Min({ReadSize, Room})

\* send_error and return, at the next step.
Refuse(code) ==
    /\ pc' = "send_error"
    /\ status' = code

ReadHead ==
    /\ pc = "read_head"
    /\ HeaderEnds(bytes) = {}

\* stream.read(&mut chunk[..limit]), and the search for the end.
FillHead ==
    /\ ReadHead
    /\ \E n \in 1..Min({ReadLimit, Len(inflight["client"])}) :
          /\ bytes' = bytes \o SubSeq(inflight["client"], 1, n)
          /\ inflight' = [inflight EXCEPT !["client"] =
                             SubSeq(@, n + 1, Len(@))]
    /\ UNCHANGED <<arrived, eof, fin, reset, tunnel, choices, sent, received>>
    /\ UNCHANGED <<pc, prefetched, status, replies, resolver, connection>>

\* Mistake: the limit is checked before the end of the head is looked for.
TooLargeFirst == Room = 0

TooLarge == HeaderEnds(bytes) = {} /\ Room = 0

\* HeaderTooLarge, an end of stream in the middle, or a failed read.
HeadFails ==
    /\ pc = "read_head"
    /\ \/ TooLarge
       \/ /\ HeaderEnds(bytes) = {}
          /\ inflight["client"] = <<>>
          /\ eof["client"] \/ ClientGone
    /\ Refuse(400)
    /\ UNCHANGED <<wires, choices, sent, received, bytes, prefetched>>
    /\ UNCHANGED <<replies, resolver, connection>>

\* Mistake: the bytes read beyond the head are dropped.
BeyondHeadDropped(b) == <<>>

BeyondHead(b) == SubSeq(b, HeaderEnd(b) + 1, Len(b))

\* establish_tunnel: only automatic routing asks the resolver.
Establish ==
    /\ IF routing = "auto"
       THEN /\ pc' = "lookup"
            /\ lookup' = "running"
            /\ UNCHANGED route
       ELSE /\ pc' = "upstream"
            /\ route' = "upstream"
            /\ UNCHANGED lookup
    /\ UNCHANGED status

\* The tests of handle_client on the request, up to its next await.
Judge ==
    CASE request.kind = "connect" -> Establish
      [] request.kind = "other_method" ->
            Refuse(405) /\ UNCHANGED <<lookup, route>>
      [] OTHER -> Refuse(400) /\ UNCHANGED <<lookup, route>>

TakeHead ==
    /\ pc = "read_head"
    /\ HeaderEnds(bytes) # {}
    /\ prefetched' = [prefetched EXCEPT !["client"] = BeyondHead(bytes)]
    /\ bytes' = SubSeq(bytes, 1, HeaderEnd(bytes))
    /\ Judge
    /\ UNCHANGED <<wires, choices, sent, received, replies>>
    /\ UNCHANGED <<answer, addresses, remote>>

\* Mistake: the error is returned without a reply.
SendErrorNot == UNCHANGED replies

\* A write to a connection that has failed is an error itself.
SendErrorReply ==
    replies' = IF ClientGone THEN replies ELSE Append(replies, status)

\* send_error, and the return that drops the client's socket.
SendError ==
    /\ pc = "send_error"
    /\ SendErrorReply
    /\ pc' = "closed"
    /\ UNCHANGED <<wires, choices, sent, received, head, resolver>>
    /\ UNCHANGED connection

(***************************************************************************)
(* establish_tunnel                                                        *)
(***************************************************************************)

\* Mistake: a name with one direct address is direct at all its addresses.
DirectOfAny(a) == IF Range(a) \intersect DirectAddresses = {} THEN <<>> ELSE a

\* resolve_direct_addresses: the direct ones, in order, each of them once.
DirectOf(a) ==
    LET seen[i \in 0..Len(a)] ==
            IF i = 0 THEN <<>>
            ELSE IF a[i] \in DirectAddresses /\ a[i] \notin Range(seen[i - 1])
            THEN Append(seen[i - 1], a[i])
            ELSE seen[i - 1]
    IN  seen[Len(a)]

Route(direct) ==
    /\ addresses' = direct
    /\ route' = IF direct = <<>> THEN "upstream" ELSE "direct"
    /\ pc' = IF direct = <<>> THEN "upstream" ELSE "dial"
    /\ UNCHANGED <<wires, choices, sent, received, head, replies>>
    /\ UNCHANGED <<resolver, remote>>

\* lookup_host returns, with addresses or with an error.
LookupReturns ==
    /\ pc = "lookup" /\ lookup = "done"
    /\ Route(DirectOf(answer))

\* Mistake: no timeout around the lookup.
LookupUnlimited == FALSE

\* dns_timeout: the answer, if it ever comes, is no longer waited for.
LookupTimeout ==
    /\ pc = "lookup"
    /\ Route(<<>>)

\* Mistake: a failed direct connection falls back on the upstream proxy.
DirectFallsBack ==
    /\ pc' = "upstream"
    /\ UNCHANGED status

DirectFails == Refuse(502)

\* connect_direct: TcpStream::connect tries the addresses in turn.
Dial ==
    /\ pc = "dial"
    /\ \/ /\ remote' = Head(addresses)
          /\ pc' = "established"
          /\ UNCHANGED <<addresses, status>>
       \/ /\ addresses' = Tail(addresses)
          /\ IF Len(addresses) = 1 THEN DirectFails ELSE UNCHANGED <<pc, status>>
          /\ UNCHANGED remote
    /\ UNCHANGED <<wires, choices, sent, received, bytes, prefetched>>
    /\ UNCHANGED <<replies, resolver, route>>

\* connect_timeout bounds all the attempts together.
DialTimeout ==
    /\ pc = "dial"
    /\ DirectFails
    /\ UNCHANGED <<wires, choices, sent, received, bytes, prefetched>>
    /\ UNCHANGED <<replies, resolver, connection>>

\* establish_upstream_tunnel: fails, or leaves a connection and what was read
\* beyond the head of its response, less than one read.
Upstream ==
    /\ pc = "upstream"
    /\ \/ /\ Refuse(502)
          /\ UNCHANGED <<remote, sent, prefetched>>
       \/ /\ remote' = "proxy"
          /\ pc' = "established"
          /\ \E n \in 0..Min({ReadSize - 1, RemoteSends}) :
                /\ prefetched' = [prefetched EXCEPT !["upstream"] = Data(n)]
                /\ sent' = [sent EXCEPT !["upstream"] = n]
          /\ UNCHANGED status
    /\ UNCHANGED <<wires, choices, received, bytes, replies, resolver>>
    /\ UNCHANGED <<addresses, route>>

(***************************************************************************)
(* The tunnel                                                              *)
(***************************************************************************)

\* Write 200 Connection Established.
SendEstablished ==
    /\ pc = "established"
    /\ IF ClientGone
       THEN pc' = "closed" /\ UNCHANGED replies
       ELSE pc' = "write_upstream" /\ replies' = Append(replies, 200)
    /\ UNCHANGED <<wires, choices, sent, received, head, resolver>>
    /\ UNCHANGED connection

\* Mistake: an error after the 200 is answered like one before it.
AbandonWithReply == Refuse(502)

\* `?` after the 200: the sockets are dropped.
Abandon == pc' = "closed" /\ UNCHANGED status

\* write_all of what was read too far from d to the other side; an empty
\* write is left out.
WritePrefetched(d, next) ==
    \/ /\ prefetched[d] # <<>> /\ T!Other(d) \in reset
       /\ Abandon
       /\ UNCHANGED <<arrived, prefetched, tunnel>>
    \/ /\ prefetched[d] = <<>> \/ T!Other(d) \notin reset
       /\ arrived' = [arrived EXCEPT ![d] = @ \o prefetched[d]]
       /\ prefetched' = [prefetched EXCEPT ![d] = <<>>]
       /\ pc' = next
       /\ tunnel' = IF next = "relay" THEN "open" ELSE tunnel
       /\ UNCHANGED status

\* Mistake: the client's early bytes are left for later.
ClientPrefetchedLater ==
    /\ pc' = "write_client"
    /\ UNCHANGED <<arrived, prefetched, tunnel, status>>

WriteClientPrefetched == WritePrefetched("client", "write_client")

\* What the client sent too early goes first, what the upstream sent next.
Flush ==
    /\ \/ pc = "write_upstream" /\ WriteClientPrefetched
       \/ pc = "write_client" /\ WritePrefetched("upstream", "relay")
    /\ UNCHANGED <<inflight, eof, fin, reset, choices, sent, received, bytes>>
    /\ UNCHANGED <<replies, resolver, connection>>

\* relay_bidirectional, and the return when it has ended.
Relay ==
    /\ pc = "relay"
    /\ \/ \E d \in Endpoints : T!Forward(d) \/ T!ForwardEof(d)
       \/ T!Fail
       \/ T!TimeOut
    /\ pc' = IF tunnel' = "open" THEN "relay" ELSE "closed"
    /\ UNCHANGED <<choices, sent, received, head, replies, resolver>>
    /\ UNCHANGED connection

(***************************************************************************)
(* The client, the remote end and the resolver                             *)
(***************************************************************************)
Program == request.head \o Data(request.data)

\* The client sends its head (reads split it), then its data one by one, what
\* is not early only after a 200.
ClientSends ==
    /\ sent["client"] < Len(Program)
    /\ \/ sent["client"] < Len(request.head) + request.early
       \/ received = <<200>>
    /\ LET n == IF sent["client"] = 0 THEN Len(request.head) ELSE 1
       IN  /\ T!Send("client", SubSeq(Program, sent["client"] + 1,
                                      sent["client"] + n))
           /\ sent' = [sent EXCEPT !["client"] = @ + n]
    /\ UNCHANGED <<choices, received, pc, head, replies, resolver, connection>>

\* The proxy has closed a socket with bytes unread, or bytes came after it
\* closed: the client's kernel is told to drop the connection.
Torn == pc = "closed" /\ inflight["client"] # <<>>

\* The client reads the reply, unless its connection is torn down before.
ClientReceives ==
    /\ received # replies
    /\ received' = replies
    /\ UNCHANGED <<wires, choices, sent, pc, head, replies, resolver>>
    /\ UNCHANGED connection

RemoteSendsByte ==
    /\ remote # "none" /\ pc # "closed"
    /\ sent["upstream"] < RemoteSends
    /\ T!Send("upstream", <<sent["upstream"] + 1>>)
    /\ sent' = [sent EXCEPT !["upstream"] = @ + 1]
    /\ UNCHANGED <<choices, received, pc, head, replies, resolver, connection>>

\* An endpoint ends its stream, or its connection fails.
Hangup(d) ==
    /\ pc # "closed"
    /\ d = "upstream" => remote # "none"
    /\ T!CloseSending(d) \/ T!Reset(d)
    /\ UNCHANGED <<choices, sent, received, pc, head, replies, resolver>>
    /\ UNCHANGED connection

\* The resolver's thread finishes, whether it is still waited for or not.
Resolve ==
    /\ lookup = "running"
    /\ lookup' = "done"
    /\ answer' \in Answers \union {<<>>}
    /\ UNCHANGED <<wires, choices, sent, received, pc, head, replies>>
    /\ UNCHANGED connection

Task ==
    \/ FillHead \/ HeadFails \/ TakeHead \/ SendError
    \/ LookupReturns \/ LookupTimeout \/ Dial \/ DialTimeout \/ Upstream
    \/ SendEstablished \/ Flush \/ Relay

Closed == pc = "closed" /\ UNCHANGED vars

Next ==
    \/ Task
    \/ ClientSends \/ ClientReceives
    \/ RemoteSendsByte
    \/ \E d \in Endpoints : Hangup(d)
    \/ Resolve
    \/ Closed

\* The task is polled when it is woken, its timers fire, the exchange with
\* the upstream proxy ends; a client sends what it has to send and reads what
\* it is sent, unless its connection is torn down.  Nothing makes the
\* resolver answer.
Spec ==
    /\ Init /\ [][Next]_vars
    /\ WF_vars(Task)
    /\ WF_vars(ClientSends)
    /\ WF_vars(ClientReceives /\ ~Torn)

-----------------------------------------------------------------------------
(***************************************************************************)
(* Properties                                                              *)
(***************************************************************************)

\* "early client-data preservation" (docs/ARCHITECTURE.md): from the first
\* byte of the client's head to the last byte relayed, however its reads are
\* split and whatever was read too far on either side, each stream is intact:
\* the head, what was handed on, what was read too far and what is unread
\* are together what was sent.
StreamsIntact ==
    /\ ~ClientGone =>
          bytes \o arrived["client"] \o prefetched["client"]
              \o inflight["client"] = SubSeq(Program, 1, sent["client"])
    /\ "upstream" \notin reset =>
          arrived["upstream"] \o prefetched["upstream"]
              \o inflight["upstream"] = Data(sent["upstream"])

\* The bytes a are the first of n bytes of data.
BeginsData(a, n) == Len(a) <= n /\ a = Data(Len(a))

\* The head ends where the client ended it: no byte of the tunnel is taken
\* for the head's, none of the head's goes into the tunnel.
TunnelCarriesOnlyData ==
    \A d \in Endpoints :
        BeginsData(arrived[d], sent[d]) /\ (arrived[d] # <<>> => replies = <<200>>)

\* What is written to a peer before the relay runs is less than one read, so
\* that no write waits for a peer that is itself waiting to be read.
PrefetchBelowRead ==
    \A d \in Endpoints : Len(prefetched[d]) < ReadSize

\* The request has a head that ends within max_header_bytes.
Fits == /\ HeaderEnds(request.head) # {}
        /\ Len(request.head) <= MaxHeaderBytes

HeadSent == Fits /\ sent["client"] >= Len(request.head)

\* The reply is the one the request calls for: 405 for another method, 400 for
\* a head that is malformed, cut short or too long by one byte, and only a
\* valid CONNECT gets as far as 200 or 502.
ReplyMatchesRequest ==
    \A code \in Range(replies) :
        /\ code = 405 => Fits /\ request.kind = "other_method"
        /\ code \in {200, 502} => Fits /\ request.kind = "connect"
        /\ code = 400 => ~HeadSent \/ request.kind \in {"malformed", "bad_target"}

\* "does not try a direct connection to ordinary public addresses"
\* (README.md): a direct connection is to an address that is direct itself
\* and that the resolver gave, even if its answer mixes both sorts.
DirectOnlyToDirect ==
    remote \notin {"none", "proxy"} =>
        /\ routing = "auto"
        /\ remote \in DirectAddresses /\ remote \in Range(answer)

\* A destination has one route: neither a direct connection that fails nor an
\* answer that comes after dns_timeout changes it.
RouteIsFinal ==
    [][route # "none" => /\ route' = route
                         /\ remote' = "proxy" => route = "upstream"]_vars

\* handle_client keeps the promise of SessionOutline.
OutlinePhase ==
    CASE pc = "read_head" \/ (pc = "send_error" /\ status # 502) -> "reading"
      [] pc \in {"lookup", "dial", "upstream", "established"}
            \/ (pc = "send_error" /\ status = 502) -> "opening"
      [] pc \in {"write_upstream", "write_client", "relay"} -> "open"
      [] pc = "closed" -> "over"
OutlineReply == IF replies = <<>> THEN 0 ELSE replies[Len(replies)]

Outline == INSTANCE SessionOutline WITH
    Clients <- {"client"},
    phase <- [c \in {"client"} |-> OutlinePhase],
    reply <- [c \in {"client"} |-> OutlineReply]

\* A client is sent at most one reply, before any tunnel and fit for how far
\* its session came.
ImplementsOutline == Outline!Spec

\* A client that sends a whole head and waits for the reply gets one, even if
\* the resolver never answers and no address does.
PatientClientAnswered ==
    (HeadSent /\ request.early = 0) ~> (received # <<>> \/ ClientGone)

\* With an idle timeout, a session whose head has come ends, once the
\* endpoints of its tunnel fall silent.
RequestedSessionEnds == HeadSent ~> (pc = "closed")

\* "Applications issuing ordinary absolute-form HTTP requests will receive
\* `405 CONNECT Required`" (docs/WINDOWS_VALIDATION.md).
OrdinaryRequestReceives405 ==
    (HeadSent /\ request.kind = "other_method")
        ~> (received = <<405>> \/ ClientGone)

=============================================================================
