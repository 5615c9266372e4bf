---------------------------- MODULE Destination ----------------------------
(***************************************************************************)
(* From what is written to where a connection goes: the process starts     *)
(* with a --direct-cidr network (Routing), a CONNECT request names its     *)
(* target (Endpoint), and the address that the target turns out to have is *)
(* direct or not.  Resolving a name and dialling are Session's.            *)
(***************************************************************************)
EXTENDS Endpoint, Routing

\* Families of inputs: networks, targets and addresses that are combined.
CONSTANT Families

ASSUME DestinationInputs ==
    /\ MaxPort \in Nat
    /\ \A f \in Families :
          /\ f.networks \subseteq
                [family : {"v4", "v6"}, value : SUBSET Nat, prefix : Nat]
          /\ \A a \in f.networks \union f.addresses :
                a.family \in {"v4", "v6"} /\ a.value \subseteq MaxOf(Bits[a.family])
          /\ f.targets \subseteq Seq(Characters)

VARIABLES
    input,     \* the network and the target as written, and the address
    startup,   \* "no", "refused" or "running"
    networks,  \* config.direct_cidrs
    parsed,    \* what Endpoint::from_str returned for the target
    direct     \* what is_direct_address returned: "unknown", "yes" or "no"

vars == <<input, startup, networks, parsed, direct>>

Init ==
    /\ \E f \in Families :
          input \in [network : f.networks, target : f.targets,
                     address : f.addresses]
    /\ startup = "no"
    /\ networks = {}
    /\ parsed = Fail("not yet")
    /\ direct = "unknown"

\* The process starts with --direct-cidr, which clap parses, or without.
Start ==
    /\ startup = "no"
    /\ \/ startup' = "running" /\ UNCHANGED networks
       \/ /\ Parses(input.network)
          /\ startup' = "running" /\ networks' = {ParseCidr(input.network)}
       \/ ~Parses(input.network) /\ startup' = "refused" /\ UNCHANGED networks
    /\ UNCHANGED <<input, parsed, direct>>

\* parse_connect_request parses the target; an error is the client's 400.
ParseTarget ==
    /\ startup = "running" /\ parsed.result = "not yet"
    /\ parsed' = FromStr(input.target)
    /\ UNCHANGED <<input, startup, networks, direct>>

\* resolve_direct_addresses asks about an address of the target.
Decide ==
    /\ parsed.result = "ok" /\ direct = "unknown"
    /\ direct' = IF IsDirectAddress(input.address, networks) THEN "yes" ELSE "no"
    /\ UNCHANGED <<input, startup, networks, parsed>>

Done ==
    /\ \/ startup = "refused"
       \/ parsed.result \notin {"not yet", "ok"}
       \/ direct # "unknown"
    /\ UNCHANGED vars

Next == Start \/ ParseTarget \/ Decide \/ Done

Spec == Init /\ [][Next]_vars

-----------------------------------------------------------------------------
(***************************************************************************)
(* Properties                                                              *)
(***************************************************************************)

\* A network given on the command line, with whatever host bits and for any
\* prefix from 0 to the width of the address, takes in exactly the addresses
\* that agree with it in their leading bits.
CidrMatchesLeadingBits ==
    \A n \in networks :
        ContainsAddress(n, input.address) <=> Agrees(input.network, input.address)

\* Without further networks exactly the documented ranges are direct.
RangesAsDocumented ==
    direct # "unknown" /\ networks = {} =>
        (direct = "yes" <=> \E r \in Documented : Agrees(r, input.address))

\* Endpoint::from_str accepts exactly the texts that spell a host and a port,
\* and returns these: searching for brackets and colons, and whatever else
\* the text holds, never yields another host.
AcceptsWhatIsSpelled ==
    parsed.result # "not yet" => ParsedAsSpelled(input.target, parsed)

\* The destination sent to the upstream proxy is the one the client asked
\* for: an accepted endpoint prints as a text that parses to it again.  Left
\* out are hosts that begin with a bracket, such as that of `[[]:1', which is
\* accepted and prints as `[:1'.
PrintedParsesBack ==
    parsed.result = "ok" /\ Head(parsed.host) # "[" =>
        FromStr(Display(parsed)) = parsed

=============================================================================
