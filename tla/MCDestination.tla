--------------------------- MODULE MCDestination ---------------------------
(* An instance of Destination for TLC.                                     *)
EXTENDS Destination

\* The words next to a word, round the ends.
After(x, w) ==
    LET ones == {i \in x : 0..i \subseteq x}
        carry == Cardinality(ones)
    IN  ((x \ ones) \union {carry}) \intersect MaxOf(w)
Before(x, w) == MaxOf(w) \ After(MaxOf(w) \ x, w)

\* The ends of every documented range, the addresses next to them, and the
\* ends of the address space.
Edges(n) ==
    LET w == Bits[n.family]
        first == {i \in n.value : i >= w - n.prefix}
        last == first \union 0..(w - n.prefix - 1)
    IN  {first, last, Before(first, w), After(first, w),
         Before(last, w), After(last, w), {}, MaxOf(w)}

EdgeAddresses ==
    UNION {{[family |-> n.family, value |-> v] : v \in Edges(n)} :
              n \in Documented}

\* Prefixes as long as those of the ranges, and round the limits.
PrefixesTried ==
    [v4 |-> 0..17 \union {24, 31, 32, 33, 255, 256},
     v6 |-> 0..11 \union {64, 127, 128, 129, 255, 256}]

EdgeNetworks ==
    UNION {{[family |-> a.family, value |-> a.value, prefix |-> p] :
               p \in PrefixesTried[a.family]} : a \in EdgeAddresses}

\* Every network with every address, every text of up to five characters, and
\* longer ones of fewer characters: two brackets, two colons, two digits.
AllFamilies ==
    LET zero == [family |-> "v4", value |-> {}]
        targets(s) == [networks |-> {V4(10, 0, 8)}, targets |-> s, addresses |-> {zero}]
    IN  { [networks |-> EdgeNetworks, targets |-> {<<"h", ":", "1">>},
           addresses |-> EdgeAddresses],
          targets(BoundedSeq(Characters, 5)),
          targets(BoundedSeq({"[", "]", ":", "1"}, 7)) }
=============================================================================
