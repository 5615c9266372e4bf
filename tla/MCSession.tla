----------------------------- MODULE MCSession -----------------------------
(* Instances of Session for TLC.                                           *)
EXTENDS Session

\* The head of n bytes: n - 4 of them before the mark.
HeadOf(n) == [i \in 1..(n - 4) |-> 0] \o HeaderEndMark

Ask(kind, h, data, early) ==
    [kind |-> kind, head |-> h, data |-> data, early |-> early]

\* Heads shorter than, as long as and longer than the limit of 8 bytes, one
\* that is cut short, one that holds a lone line end; data sent early or not.
AllRequests ==
    { Ask("connect", HeadOf(5), 3, 3),
      Ask("connect", <<0, CR, LF>> \o HeadOf(5), 1, 1),
      Ask("connect", HeadOf(5), 2, 0),
      Ask("connect", HeadOf(9), 0, 0),
      Ask("connect", <<0, CR, LF, 0>>, 0, 0),
      Ask("other_method", HeadOf(5), 0, 0),
      Ask("bad_target", HeadOf(8), 0, 0),
      Ask("malformed", HeadOf(4), 1, 1) }

\* Answers of one sort, and of both with a repetition.
AllAnswers ==
    { <<"public">>, <<"private">>,
      <<"private", "public", "private", "loopback">> }

MixedAnswer == { <<"public", "private", "loopback">> }

Direct == {"private", "loopback"}

BothModes == {"auto", "proxy_only"}

\* An ordinary request with a body.
WithBody == { Ask("other_method", HeadOf(5), 2, 2) }

ProxyOnly == {"proxy_only"}
=============================================================================
