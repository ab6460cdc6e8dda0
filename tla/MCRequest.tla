----------------------------- MODULE MCRequest -----------------------------
(* Requests for TLC: all short byte sequences with one destination, and    *)
(* all destinations and short rule lists with one byte sequence per kind.  *)
EXTENDS Request

MCAddresses == {"4a", "4b", "6a", "6b"}
MCVersion6 == {"6a", "6b"}
MCNetworks == {{"4a", "4b"}, {"6a"}}

Sequences(S, max) == UNION {[1..n -> S] : n \in 0..max}
Names == {Name(<<"org">>), Name(<<"org", "here">>), Name(<<"org", "there">>)}
Destinations == Names \union {Address(ip) : ip \in MCAddresses}
Texts == {Name(<<"org">>), Name(<<"org", "here">>), Address("4a"), Address("6a"), BadNetwork, Everything}
             \union {Network(net) : net \in MCNetworks}
Shapes == {Bare(text) : text \in Texts} \union {Starred(text) : text \in Texts}
RuleLists == {<<<<p>>, <<q>>>> : p, q \in Shapes} \union {<<<<p, q>>>> : p, q \in Shapes}

HeaderBytes == {"x", CR, LF}
SocksBytes == {"x", NUL}
Whole(kind) ==
    CASE kind \in {"connect", "plain"} -> <<"x", LF, LF, "x">>
      [] kind \in {"socks4", "socks4a"} -> <<NUL, "x", NUL>>
      [] OTHER -> <<>>
CanAsk(kind, dest) ==
    kind = "socks4" => dest.is = "address" /\ dest.ip \notin MCVersion6

Asked(kind, bytes, dest, rules) == [kind |-> kind, bytes |-> bytes, dest |-> dest, rules |-> rules]
AnyDest == Address("4a")
MCInputs ==
    {Asked(kind, bytes, AnyDest, <<>>) :
        kind \in {"connect", "answer"}, bytes \in Sequences(HeaderBytes, 6) \ {<<>>}}
    \union {Asked(kind, bytes, AnyDest, <<>>) :
        kind \in {"socks4", "socks4a"}, bytes \in Sequences(SocksBytes, 7)}
    \union {Asked(kind, Whole(kind), dest, rules) :
        kind \in Kinds \ {"answer", "socks4"}, dest \in Destinations, rules \in RuleLists}
    \union {Asked("socks4", Whole("socks4"), dest, rules) :
        dest \in {d \in Destinations : CanAsk("socks4", d)}, rules \in RuleLists}
=============================================================================
