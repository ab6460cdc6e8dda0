------------------------------ MODULE Request ------------------------------
(***************************************************************************)
(* From the bytes of a request to the rule that routes it: the loops of    *)
(* proxy_server.rs and proxy_client.rs that read until a separator, with   *)
(* find_header_separator of util.rs, and connect_to_target's choice of a   *)
(* rule for the host that each protocol makes of a destination.            *)
(*                                                                         *)
(* A read returns what has arrived, cut anywhere.  Bytes are what the      *)
(* loops tell apart.                                                       *)
(***************************************************************************)
EXTENDS RuleMatcher, FiniteSets

CONSTANTS
    Inputs,      \* the requests: kind, bytes, destination and rules
    HeaderMax,   \* HTTP_HEADER_MAX_LEN and CONNECT_RESPONSE_MAX_LEN
    UserMax,     \* the longest user id: 255
    DomainMax,   \* the longest domain: 253
    SocksMax,    \* SOCKS4_HANDSHAKE_MAX_LEN
    ReadSize     \* the length of temp

Kinds == {"socks4", "socks4a", "socks5", "connect", "plain", "answer"}
Header == {"connect", "plain", "answer"}
CR == "\r"
LF == "\\n"
NUL == "\\0"

ASSUME RequestAssumption ==
    /\ {HeaderMax, UserMax, DomainMax, ReadSize} \subseteq Nat \ {0}
    /\ SocksMax \in Nat /\ SocksMax > UserMax + DomainMax + 1
    /\ \A asked \in Inputs :
        /\ asked.kind \in Kinds /\ asked.bytes \in Seq(STRING)
        /\ asked.kind \in {"connect", "plain"} => asked.bytes # <<>>
        /\ asked.dest \in Destination /\ asked.rules \in Seq(Seq(Pattern))

VARIABLES
    input,       \* what is asked, and all the bytes that will come
    unread,      \* bytes the socket still holds
    buf,         \* bytes read
    start_pos,   \* where the search for the separator resumes
    pc,
    head,        \* how many bytes the request took
    rule         \* the rule that was chosen, 0 for none

vars == <<input, unread, buf, start_pos, pc, head, rule>>

\* handle_connection has taken the first byte, which is HTTP's own.
FirstByte == IF input.kind \in {"connect", "plain"} THEN 1 ELSE 0

Init ==
    /\ input \in Inputs
    /\ buf = SubSeq(input.bytes, 1, FirstByte)
    /\ unread = SubSeq(input.bytes, FirstByte + 1, Len(input.bytes))
    /\ start_pos = 0 /\ head = 0 /\ rule = 0
    /\ pc = IF input.kind = "socks5" THEN "route" ELSE "examine"

-----------------------------------------------------------------------------
(* Searching.                                                              *)

NotFound == 0
Earliest(positions) ==
    IF positions = {} THEN NotFound ELSE CHOOSE p \in positions : \A q \in positions : p <= q

SeparatorAt(bytes, i) ==
    /\ bytes[i] = LF
    /\ \/ bytes[i + 1] = LF
       \/ i + 2 <= Len(bytes) /\ bytes[i + 1] = CR /\ bytes[i + 2] = LF
SeparatorEnd(bytes, i) == IF bytes[i + 1] = LF THEN i + 1 ELSE i + 2

\* Slip: the search goes on where the last one ended.
ResumeAt_Exactly(pos) == pos

ResumeAt(pos) == IF pos > 3 THEN pos - 3 ELSE 0

find_header_separator(bytes, pos) ==
    LET first == Earliest({i \in (ResumeAt(pos) + 1)..(Len(bytes) - 1) : SeparatorAt(bytes, i)})
    IN  IF first = NotFound THEN NotFound ELSE SeparatorEnd(bytes, first)

FirstNul(bytes, after) == Earliest({i \in (after + 1)..Len(bytes) : bytes[i] = NUL})

-----------------------------------------------------------------------------
(* Reading.                                                                *)

Becomes(state, taken) ==
    /\ pc' = state /\ head' = taken
    /\ buf' = SubSeq(buf, taken + 1, Len(buf))
    /\ UNCHANGED <<input, unread, rule>>

\* read_http_headers, and the same loop in http_connect.
ExamineHeaders ==
    LET end == find_header_separator(buf, start_pos) IN
    /\ pc = "examine" /\ input.kind \in Header
    /\ IF end # NotFound
       THEN Becomes(IF end > HeaderMax THEN "failed" ELSE "route", IF end > HeaderMax THEN 0 ELSE end)
       ELSE Becomes(IF Len(buf) > HeaderMax THEN "failed" ELSE "read", 0)
    /\ start_pos' = IF end = NotFound THEN Len(buf) ELSE start_pos

\* The user id, and SOCKS4a's domain after it, end with a zero byte each.
ExamineSocks4 ==
    LET user == FirstNul(buf, 0)
        domain == IF user = NotFound THEN NotFound ELSE FirstNul(buf, user)
        end == IF input.kind = "socks4a" THEN domain ELSE user
        fits == user - 1 <= UserMax /\ end - user - 1 <= DomainMax
    IN
    /\ pc = "examine" /\ input.kind \in {"socks4", "socks4a"}
    /\ IF end # NotFound
       THEN Becomes(IF fits THEN "route" ELSE "failed", IF fits THEN end ELSE 0)
       ELSE Becomes(IF Len(buf) > SocksMax THEN "failed" ELSE "read", 0)
    /\ UNCHANGED start_pos

\* The socket has bytes, of which the read takes some.
Read ==
    /\ pc = "read" /\ pc' = "examine"
    /\ \E n \in 1..Len(unread) :
        /\ n <= ReadSize
        /\ buf' = buf \o SubSeq(unread, 1, n)
        /\ unread' = SubSeq(unread, n + 1, Len(unread))
    /\ UNCHANGED <<input, start_pos, head, rule>>

\* The peer closed.
ReadEof ==
    /\ pc = "read" /\ unread = <<>>
    /\ pc' = "failed"
    /\ UNCHANGED <<input, unread, buf, start_pos, head, rule>>

-----------------------------------------------------------------------------
(* Routing.                                                                *)

\* What each protocol makes of a destination: the host's text ...
Host(kind, dest) ==
    IF kind = "plain" /\ dest.is = "address" /\ dest.ip \in Version6 THEN Bracketed(dest.ip) ELSE dest

\* ... and, where the protocol has a field for it, its address.
Ip(kind, dest) == IF kind \in {"socks4", "socks5"} /\ dest.is = "address" THEN dest ELSE NoAddress

\* The first rule that matches, or a direct connection.
Route ==
    /\ pc = "route"
    /\ pc' = "routed"
    /\ rule' = IF input.kind = "answer" THEN 0
               ELSE Earliest({i \in DOMAIN input.rules :
                        Matches(input.rules[i], Host(input.kind, input.dest), Ip(input.kind, input.dest))})
    /\ UNCHANGED <<input, unread, buf, start_pos, head>>

Next == ExamineHeaders \/ ExamineSocks4 \/ Read \/ ReadEof \/ Route

Spec == Init /\ [][Next]_vars

-----------------------------------------------------------------------------
(* Properties.                                                             *)

\* Where the request ends, by all the bytes at once.
EndsLine(bytes, e) ==
    /\ bytes[e] = LF
    /\ \/ bytes[e - 1] = LF
       \/ e > 2 /\ bytes[e - 1] = CR /\ bytes[e - 2] = LF
HeadersEnd(bytes) ==
    Earliest({e \in 2..Len(bytes) : e <= HeaderMax /\ EndsLine(bytes, e)})
SocksEnd(bytes, fields) ==
    LET zeros == {i \in DOMAIN bytes : bytes[i] = NUL}
        user == Earliest(zeros)
        domain == Earliest(zeros \ {user})
    IN  IF user = NotFound \/ user > UserMax + 1 THEN NotFound
        ELSE IF fields = 1 THEN user
        ELSE IF domain = NotFound \/ domain - user > DomainMax + 1 THEN NotFound ELSE domain
End == IF input.kind \in Header THEN HeadersEnd(input.bytes)
       ELSE SocksEnd(input.bytes, IF input.kind = "socks4" THEN 1 ELSE 2)

\* Whatever pieces a request arrives in, it is taken or refused as it would be
\* in one piece, it ends at the same byte, and what follows it is neither lost
\* nor read twice.
SameHoweverCut ==
    /\ pc \in {"route", "routed"} /\ input.kind # "socks5" =>
           /\ head = End /\ head # NotFound
           /\ buf \o unread = SubSeq(input.bytes, head + 1, Len(input.bytes))
    /\ pc = "failed" => End = NotFound

\* What a rule's patterns mean: an address or a network holds the address, a
\* name is the name, "*.name" is the name and all below it, "*" is everything,
\* and the "*." of anything else has no meaning.
Describes(pattern, dest) ==
    \/ pattern.text = Everything
    \/ pattern.text = dest
    \/ /\ pattern.text.is = "name" /\ pattern.star /\ dest.is = "name"
       /\ Below(dest.labels, pattern.text.labels)
    \/ pattern.text.is = "network" /\ dest.is = "address" /\ dest.ip \in pattern.text.net
Wanted == Earliest({i \in DOMAIN input.rules :
              \E j \in DOMAIN input.rules[i] : Describes(input.rules[i][j], input.dest)})

\* A destination is routed by the first rule that describes it, in whatever
\* protocol it is asked for and whether as an address or as its text.  The
\* exception is a version 6 address in the URI of a plain HTTP request, whose
\* brackets keep it from being recognised.
RoutedAlike ==
    pc = "routed" /\ Host(input.kind, input.dest).is # "bracketed" /\ input.kind # "answer" => rule = Wanted
=============================================================================
