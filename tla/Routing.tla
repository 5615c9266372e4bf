------------------------------ MODULE Routing ------------------------------
(***************************************************************************)
(* Which addresses are direct: the built-in ranges (src/src/routing.rs)    *)
(* and the networks given with --direct-cidr (IpCidr in src/src/config.rs).*)
(*                                                                         *)
(* An address is a family and a value, a word of Bits[family] bits.  A     *)
(* word is the set of the places of its bits that are one, place 0 being   *)
(* the last bit.  A network as it is written is an address with a prefix.  *)
(*                                                                         *)
(* Definitions marked `Mistake' are not part of the specification: each is *)
(* the definition after it with a plausible bug, and breaks a property.    *)
(***************************************************************************)
EXTENDS Integers, FiniteSetsExt

Bits == [v4 |-> 32, v6 |-> 128]

(***************************************************************************)
(* IpCidr                                                                  *)
(***************************************************************************)

\* u32::MAX, u128::MAX
MaxOf(w) == 0..(w - 1)

\* x << n for w bits.  A shift by w panics in a debug build; in a release
\* build the processor takes n modulo w.
Shl(x, n, w) == {i \in 0..(w - 1) : i - (n % w) \in x}

\* Mistake: no case for the prefix 0.
MaskAlwaysShifts(w, prefix) == Shl(MaxOf(w), w - prefix, w)

Mask(w, prefix) == IF prefix = 0 THEN {} ELSE Shl(MaxOf(w), w - prefix, w)

\* mask_v4, mask_v6
Masked(a, prefix) == a.value \intersect Mask(Bits[a.family], prefix)

\* IpCidr::from_str: a prefix that is no u8, or longer than the address, is
\* an error; the host bits are cleared.
Parses(t) == t.prefix <= 255 /\ t.prefix <= Bits[t.family]

ParseCidr(t) == [t EXCEPT !.value = Masked(t, t.prefix)]

\* IpCidr::contains
ContainsAddress(n, a) ==
    n.family = a.family /\ Masked(a, n.prefix) = n.value

(***************************************************************************)
(* is_direct_address                                                       *)
(***************************************************************************)

\* The bits low..high of a word, the number that a word stands for, and the
\* word of 16 bits for a number.
Slice(x, low, high) == {i - low : i \in x \intersect (low..high)}
NumberOf(x) == MapThenSumSet(LAMBDA i : 2^i, x)
Word(n) == {i \in 0..15 : (n \div 2^i) % 2 = 1}

\* Ipv4Addr::is_loopback, is_private, is_link_local (standard library)
StdV4(first, second) ==
    \/ first = 127
    \/ first = 10
    \/ first = 172 /\ second \in 16..31
    \/ first = 192 /\ second = 168
    \/ first = 169 /\ second = 254

\* Mistake: 64..127 without its last value.
DirectV4Exclusive(first, second) ==
    StdV4(first, second) \/ (first = 100 /\ second \in 64..126)

\* is_default_direct_v4
DirectV4(first, second) ==
    StdV4(first, second) \/ (first = 100 /\ second \in 64..127)

\* Ipv6Addr::is_loopback, is_unicast_link_local (standard library): the first
\* segment & 0xffc0 is 0xfe80.
StdV6(x) == x = {0} \/ Slice(x, 112, 127) \intersect Word(65472) = Word(65152)

\* is_default_direct_v6: the first octet & 0xfe is 0xfc.
DirectV6(x) == StdV6(x) \/ Slice(x, 120, 127) \intersect Word(254) = Word(252)

IsDefaultDirect(a) ==
    IF a.family = "v4"
    THEN DirectV4(NumberOf(Slice(a.value, 24, 31)), NumberOf(Slice(a.value, 16, 23)))
    ELSE DirectV6(a.value)

IsDirectAddress(a, additional) ==
    IsDefaultDirect(a) \/ \E n \in additional : ContainsAddress(n, a)

(***************************************************************************)
(* The reference                                                           *)
(***************************************************************************)

\* As many leading bits as the prefix says are the same.
Leading(x, w, prefix) == {i \in x : i >= w - prefix}
Agrees(n, a) ==
    /\ n.family = a.family
    /\ Leading(n.value, Bits[n.family], n.prefix) = Leading(a.value, Bits[a.family], n.prefix)

\* "loopback, RFC 1918 private, IPv4/IPv6 link-local, IPv6 unique-local, and
\* 100.64.0.0/10 networks are connected directly" (README.md).
V4(first, second, p) ==
    [family |-> "v4", value |-> {i + 16 : i \in Word(first * 256 + second)}, prefix |-> p]
V6(first, last, p) ==
    [family |-> "v6", value |-> {i + 112 : i \in Word(first)} \union Word(last), prefix |-> p]
Documented ==
    { V4(127, 0, 8), V4(10, 0, 8), V4(172, 16, 12), V4(192, 168, 16),
      V4(169, 254, 16), V4(100, 64, 10),
      V6(0, 1, 128), V6(65152, 0, 10), V6(64512, 0, 7) }

=============================================================================
