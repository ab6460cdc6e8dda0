---------------------------- MODULE RuleMatcher ----------------------------
(***************************************************************************)
(* RuleMatcher of matcher.rs: the patterns of a rule, what becomes of them *)
(* when the configuration is loaded, and which hosts they match.           *)
(*                                                                         *)
(* A pattern of the file is a text with or without "*." before it.  A text *)
(* is a domain name (its labels, the last one first), "*", an address, a   *)
(* network, or a slash in something that is not a network.  A host is a    *)
(* text too, or an address in the brackets of a URI.                       *)
(***************************************************************************)
EXTENDS Integers, Sequences

CONSTANTS
    Addresses,   \* addresses of both families
    Networks,    \* a network is the set of its addresses
    Version6     \* those addresses that a URI writes in brackets

ASSUME MatcherAssumption ==
    /\ Version6 \subseteq Addresses
    /\ \A net \in Networks : net \subseteq Addresses

NoAddress == [is |-> "no address"]
Name(labels) == [is |-> "name", labels |-> labels]
Address(ip) == [is |-> "address", ip |-> ip]
Bracketed(ip) == [is |-> "bracketed", ip |-> ip]
Network(net) == [is |-> "network", net |-> net]
Everything == [is |-> "everything"]
BadNetwork == [is |-> "bad network"]

Destination == [is : {"name"}, labels : Seq(STRING)] \union [is : {"address"}, ip : Addresses]
Text == Destination \union [is : {"network"}, net : Networks] \union {Everything, BadNetwork}
Pattern == [star : BOOLEAN, text : Text]

Starred(text) == [star |-> TRUE, text |-> text]
Bare(text) == [star |-> FALSE, text |-> text]

\* A text with a slash is a network or is dropped, an address is compared as
\* one, and anything else is a wildcard over the host's text.
parse_pattern(pattern) ==
    IF pattern.text.is \in {"network", "bad network"}
    THEN IF pattern.star \/ pattern.text = BadNetwork
         THEN {} ELSE {[kind |-> "cidr", net |-> pattern.text.net]}
    ELSE IF pattern.text.is = "address" /\ ~pattern.star
         THEN {[kind |-> "ip", ip |-> pattern.text.ip]}
         ELSE {[kind |-> "domain", glob |-> pattern]}

\* "*.domain" is short for itself and "domain".
Expanded(pattern) ==
    parse_pattern(pattern) \union
        (IF pattern.star THEN parse_pattern(Bare(pattern.text)) ELSE {})

Patterns(rule) == UNION {Expanded(rule[i]) : i \in DOMAIN rule}

\* WildMatch over the host's text.
Below(labels, root) == Len(labels) > Len(root) /\ SubSeq(labels, 1, Len(root)) = root
GlobMatches(glob, host) ==
    \/ glob.text = Everything /\ ~glob.star
    \/ host.is = "name" /\ glob.text.is = "name" /\
         IF glob.star THEN Below(host.labels, glob.text.labels) ELSE host.labels = glob.text.labels

\* Slip: an address is known only if the protocol gave it as one.
Resolved_ByProtocol(host, ip) == ip

\* The address that came with the request, or the host's text if it is one.
Resolved(host, ip) == IF ip # NoAddress THEN ip ELSE IF host.is = "address" THEN host ELSE NoAddress

match_pattern(pattern, host, ip) ==
    CASE pattern.kind = "domain" -> GlobMatches(pattern.glob, host)
      [] pattern.kind = "ip" -> ip # NoAddress /\ ip.ip = pattern.ip
      [] pattern.kind = "cidr" -> ip # NoAddress /\ ip.ip \in pattern.net

Matches(rule, host, ip) ==
    \E pattern \in Patterns(rule) : match_pattern(pattern, host, Resolved(host, ip))
=============================================================================
