----------------------------- MODULE Handshake -----------------------------
(***************************************************************************)
(* One handshake: the SOCKS4(a), SOCKS5 and HTTP handlers and             *)
(* connect_to_target of proxy_server.rs, with the upstream side of it,    *)
(* ProxyClient::connect of proxy_client.rs, under the timeouts of both.   *)
(* Every read may bring what the protocol asks for, something else, an    *)
(* end of stream, or nothing; the rule that matches is any rule.          *)
(***************************************************************************)
EXTENDS Integers, Sequences

CONSTANTS
    HandshakeTimeout,   \* HANDSHAKE_TIMEOUT of proxy_server.rs, in ticks
    ConnectTimeout,     \* CONNECT_TIMEOUT of proxy_client.rs, in ticks
    ProxyTimeout        \* HANDSHAKE_TIMEOUT of proxy_client.rs, in ticks

\* The timeout of the whole is no longer than that of one connect within it.
ASSUME TimeoutsAssumption ==
    /\ HandshakeTimeout \in Nat \ {0} /\ ConnectTimeout \in Nat \ {0}
    /\ ProxyTimeout \in Nat \ {0}
    /\ HandshakeTimeout <= ConnectTimeout

VARIABLES
    pc,         \* where the handler is suspended, or how it ended
    client,     \* whether the client is still "there" or "gone"
    proto,      \* the protocol its first byte chose
    plain,      \* HTTP: a request to be forwarded, no CONNECT
    dest,       \* "ip" or "name": what it asked to be connected to
    rule,       \* what the matching rule forwards to, or "direct"
    host,       \* final_host: what the upstream proxy is asked for
    looked_up,  \* whether the name was resolved here for the upstream proxy
    target,     \* "none", "connected" (TCP), or "tunnel": ready for the relay
    replies,    \* what was written to the client, in order
    to_target,  \* what of a plain request was written to the target, in order
    leftover,   \* the sides of which bytes were read beyond the handshake
    failure,    \* why it failed
    outer,      \* ticks left of the whole handshake
    inner,      \* ticks left of the innermost timeout, or NoTimer
    began       \* history: outer when the connect began

request == <<proto, plain, dest>>
upstream == <<rule, host, looked_up, target>>
sides == <<to_target, leftover>>
clock == <<outer, inner, began>>
vars == <<pc, client, request, upstream, replies, sides, failure, clock>>

NoTimer == -1
Rules == {"direct", "socks5", "socks5h", "http"}

\* Where the handler waits for the client, for a connection, and for a proxy.
ReadsClient == {"first", "s5_methods", "s5_request", "s5_address", "s4_request", "http_headers"}
Connects == {"direct_connect", "p_connect"}
ReadsProxy == {"p_method", "p_response", "p_bound", "p_http"}
Waits == ReadsClient \union Connects \union ReadsProxy \union {"p_lookup", "forward"}
Ends == {"ok", "failed", "timed_out"}

Init ==
    /\ pc = "first" /\ client = "there"
    /\ proto = "none" /\ plain = FALSE /\ dest = "none"
    /\ rule = "none" /\ host = "none" /\ looked_up = FALSE /\ target = "none"
    /\ replies = <<>> /\ to_target = <<>> /\ leftover = {}
    /\ failure = "none"
    /\ outer = HandshakeTimeout /\ inner = NoTimer /\ began = NoTimer

Goes(from, to) == pc = from /\ pc' = to

\* A reply reaches the client's socket; if the client is gone it may fail.
Says(kind, what) ==
    \/ replies' = Append(replies, [kind |-> kind, what |-> what])
    \/ client = "gone" /\ UNCHANGED replies

Fails(why) == pc' = "failed" /\ failure' = why

-----------------------------------------------------------------------------
(* The client's request.                                                   *)

FirstByte ==
    /\ \E p \in {"socks4", "socks5", "http"} :
           /\ proto' = p
           /\ Goes("first", CASE p = "socks5" -> "s5_methods" [] p = "socks4" -> "s4_request"
                              [] p = "http" -> "http_headers")
    /\ UNCHANGED <<client, plain, dest, upstream, replies, sides, failure, clock>>

\* The client's stream ends or fails within a read.
ClientReadFails ==
    /\ pc \in ReadsClient /\ client = "gone"
    /\ Fails("client gone")
    /\ UNCHANGED <<client, request, upstream, replies, sides, clock>>

Socks5Methods ==
    /\ Goes("s5_methods", "s5_request")
    /\ replies' = Append(replies, [kind |-> "socks5", what |-> "no authentication"])
    /\ UNCHANGED <<client, request, upstream, sides, failure, clock>>

\* No method at all is not answered; none that is acceptable is.
Socks5MethodsRejected ==
    /\ pc = "s5_methods"
    /\ UNCHANGED replies \/ Says("socks5", "no acceptable method")
    /\ Fails("bad request")
    /\ UNCHANGED <<client, request, upstream, sides, clock>>

Socks5Request ==
    /\ Goes("s5_request", "s5_address")
    /\ UNCHANGED <<client, request, upstream, replies, sides, failure, clock>>

\* A wrong version is not answered, a command other than CONNECT is.
Socks5RequestRejected ==
    /\ pc = "s5_request"
    /\ \/ UNCHANGED replies /\ Fails("bad request")
       \/ Says("socks5", "command not supported") /\ Fails("refused")
    /\ UNCHANGED <<client, request, upstream, sides, clock>>

\* SOCKS5 reads no byte too many: what follows stays in the socket.
Socks5Address ==
    /\ Goes("s5_address", "route")
    /\ dest' \in {"ip", "name"}
    /\ UNCHANGED <<client, proto, plain, upstream, replies, sides, failure, clock>>

Socks5AddressRejected ==
    /\ pc = "s5_address"
    /\ Says("socks5", "address type not supported")
    /\ Fails("refused")
    /\ UNCHANGED <<client, request, upstream, sides, clock>>

\* User id and, for SOCKS4a, name are read in chunks, which may hold more.
Socks4Request ==
    /\ Goes("s4_request", "route")
    /\ dest' \in {"ip", "name"}
    /\ leftover' \in {{}, {"client"}}
    /\ UNCHANGED <<client, proto, plain, upstream, replies, to_target, failure, clock>>

\* A command other than CONNECT is answered, fields that are too long are not.
Socks4RequestRejected ==
    /\ pc = "s4_request"
    /\ \/ UNCHANGED replies /\ Fails("bad request")
       \/ Says("socks4", "rejected") /\ Fails("refused")
    /\ UNCHANGED <<client, request, upstream, sides, clock>>

HttpHeaders ==
    /\ Goes("http_headers", "route")
    /\ plain' \in BOOLEAN
    /\ dest' \in {"ip", "name"}
    /\ leftover' \in {{}, {"client"}}
    /\ UNCHANGED <<client, proto, upstream, replies, to_target, failure, clock>>

HttpHeadersRejected ==
    /\ pc = "http_headers"
    /\ Fails("bad request")
    /\ UNCHANGED <<client, request, upstream, replies, sides, clock>>

ReadRequest ==
    \/ FirstByte \/ Socks5Methods \/ Socks5MethodsRejected
    \/ Socks5Request \/ Socks5RequestRejected \/ Socks5Address \/ Socks5AddressRejected
    \/ Socks4Request \/ Socks4RequestRejected \/ HttpHeaders \/ HttpHeadersRejected

-----------------------------------------------------------------------------
(* connect_to_target and ProxyClient::connect.                             *)

\* Slip: connect_to_target answers in SOCKS5 whoever asked, then the handler does.
ConnectFails_AnswersTwice(code) ==
    /\ Fails("connect")
    /\ replies' = IF proto = "socks5"
                    THEN Append(replies, [kind |-> "socks5", what |-> code])
                    ELSE replies \o <<[kind |-> "socks5", what |-> code],
                                      [kind |-> proto, what |-> "rejected"]>>
    /\ UNCHANGED <<client, request, upstream, sides, clock>>

\* Slip: SOCKS4 and HTTP clients are left to find out for themselves.
ConnectFails_OnlySocks5Told(code) ==
    /\ Fails("connect")
    /\ IF proto = "socks5" THEN Says("socks5", code) ELSE UNCHANGED replies
    /\ UNCHANGED <<client, request, upstream, sides, clock>>

\* connect_to_target answers a SOCKS5 client itself (is_socks); the SOCKS4 and
\* HTTP handlers answer when it returns an error.
ConnectFails(code) ==
    /\ Fails("connect")
    /\ CASE proto = "socks5" -> Says("socks5", code)
         [] proto = "socks4" -> Says("socks4", "rejected")
         [] proto = "http" -> Says("http", "bad gateway")
    /\ UNCHANGED <<client, request, upstream, sides, clock>>

\* The first rule that matches decides (matcher.rs); any may.
Route ==
    /\ pc = "route"
    /\ rule' \in Rules
    /\ pc' = IF rule' = "direct" THEN "direct_connect" ELSE "p_connect"
    /\ inner' = ConnectTimeout /\ began' = outer
    /\ UNCHANGED <<client, request, host, looked_up, target, replies, sides, failure, outer>>

DirectConnected ==
    /\ Goes("direct_connect", "answer")
    /\ target' = "tunnel" /\ inner' = NoTimer
    /\ UNCHANGED <<client, request, rule, host, looked_up, replies, sides, failure, outer, began>>

DirectRefused ==
    /\ pc = "direct_connect"
    /\ ConnectFails("connection refused") \/ ConnectFails("host unreachable")

\* A name is looked up here for a socks5 or http proxy: HTTP requests always
\* take that path, and for an address the lookup only parses it.
ProxyConnected ==
    /\ LET resolves == rule \in {"socks5", "http"} /\ (proto = "http" \/ dest = "name")
           next == IF rule = "http" THEN "p_http" ELSE "p_method"
       IN  Goes("p_connect", IF resolves THEN "p_lookup" ELSE next)
    /\ host' = dest
    /\ target' = "connected" /\ inner' = ProxyTimeout
    /\ UNCHANGED <<client, request, rule, looked_up, replies, sides, failure, outer, began>>

\* A lookup that fails, or takes longer than its timeout, leaves the name.
Looked(result) ==
    /\ Goes("p_lookup", IF rule = "http" THEN "p_http" ELSE "p_method")
    /\ host' = result
    /\ looked_up' = (dest = "name")
    /\ inner' = ProxyTimeout
    /\ UNCHANGED <<client, request, rule, target, replies, sides, failure, outer, began>>

LookupSucceeds == Looked("ip")
LookupFails == Looked(dest)

\* Slip: a plain socks5 proxy is asked for the name.
ProxyMethod_SendsName ==
    /\ Goes("p_method", "p_response")
    /\ UNCHANGED <<client, request, upstream, replies, sides, failure, clock>>

\* The proxy accepts no authentication and is sent the request.
ProxyMethod ==
    /\ host = "ip" \/ rule = "socks5h"
    /\ Goes("p_method", "p_response")
    /\ UNCHANGED <<client, request, upstream, replies, sides, failure, clock>>

\* A name that could not be resolved is refused on this side for a socks5 proxy.
ProxyNeedsAddress ==
    /\ pc = "p_method" /\ rule = "socks5" /\ host = "name"
    /\ ConnectFails("general failure")

\* Slip: the proxy's answer is taken for granted.
ProxyResponse_NotAwaited ==
    /\ Goes("p_response", "answer")
    /\ inner' = NoTimer
    /\ UNCHANGED <<client, request, upstream, replies, sides, failure, outer, began>>

ProxyResponse ==
    /\ Goes("p_response", "p_bound")
    /\ UNCHANGED <<client, request, upstream, replies, sides, failure, clock>>

ProxyBound ==
    /\ Goes("p_bound", "answer")
    /\ target' = "tunnel" /\ inner' = NoTimer
    /\ UNCHANGED <<client, request, rule, host, looked_up, replies, sides, failure, outer, began>>

\* The response of an http proxy is read in chunks, which may hold more.
ProxyHttp ==
    /\ Goes("p_http", "answer")
    /\ target' = "tunnel" /\ inner' = NoTimer
    /\ leftover' \in {leftover, leftover \union {"target"}}
    /\ UNCHANGED <<client, request, rule, host, looked_up, replies, to_target, failure, outer, began>>

\* A proxy that cannot be reached, refuses, answers nonsense or hangs up.
ProxyRefuses ==
    /\ pc \in {"p_connect"} \union ReadsProxy
    /\ ConnectFails("general failure")

ConnectUpstream ==
    \/ DirectConnected \/ DirectRefused
    \/ ProxyConnected \/ LookupSucceeds \/ LookupFails
    \/ ProxyMethod \/ ProxyNeedsAddress \/ ProxyResponse \/ ProxyBound
    \/ ProxyHttp \/ ProxyRefuses

-----------------------------------------------------------------------------
(* The answer.                                                             *)

Success == CASE proto = "socks5" -> "succeeded" [] proto = "socks4" -> "granted"
             [] proto = "http" -> "established"

\* The tunnel stands: the client is told, and if that fails so does the handshake.
Answer ==
    /\ pc = "answer" /\ ~plain
    /\ \/ /\ replies' = Append(replies, [kind |-> proto, what |-> Success])
          /\ pc' = "ok" /\ UNCHANGED failure
       \/ client = "gone" /\ UNCHANGED replies /\ Fails("client gone")
    /\ UNCHANGED <<client, request, upstream, sides, clock>>

\* A plain request is not answered but forwarded: its rewritten line, then its
\* filtered headers; the body is leftover or still in the socket.
BeginForward ==
    /\ plain
    /\ Goes("answer", "forward")
    /\ UNCHANGED <<client, request, upstream, replies, sides, failure, clock>>

Forward ==
    /\ pc = "forward"
    /\ IF to_target = <<>>
         THEN to_target' = <<"line">> /\ UNCHANGED pc
         ELSE to_target' = Append(to_target, "headers") /\ pc' = "ok"
    /\ UNCHANGED <<client, request, upstream, replies, leftover, failure, clock>>

ForwardFails ==
    /\ pc = "forward"
    /\ Fails("target gone")
    /\ UNCHANGED <<client, request, upstream, replies, sides, clock>>

-----------------------------------------------------------------------------
(* Time.                                                                   *)

\* The innermost timeout: tokio's timeout polls what it wraps before its own
\* deadline, so that this comes before the outer one.
InnerExpires ==
    /\ inner = 0
    /\ \/ pc = "direct_connect" /\ ConnectFails("TTL expired")
       \/ pc \in {"p_connect"} \union ReadsProxy /\ ConnectFails("general failure")
       \/ LookupFails

\* Slip: the handshake has no timeout of its own.
OuterExpires_Never ==
    /\ FALSE /\ pc' = "timed_out"
    /\ UNCHANGED <<client, request, upstream, replies, sides, failure, clock>>

\* handle_connection's timeout drops the handler where it waits; the client is
\* told nothing.
OuterExpires ==
    /\ outer = 0 /\ inner # 0 /\ pc \in Waits
    /\ pc' = "timed_out"
    /\ UNCHANGED <<client, request, upstream, replies, sides, failure, clock>>

\* Time passes only while the handler waits, and a timer that has run down is
\* served before more of it passes.
Elapse(t) == IF t > 0 THEN t - 1 ELSE t

Tick ==
    /\ pc \in Waits /\ 0 \notin {outer, inner}
    /\ outer' = Elapse(outer) /\ inner' = Elapse(inner)
    /\ UNCHANGED <<pc, client, request, upstream, replies, sides, failure, began>>

ClientLeaves ==
    /\ client = "there" /\ pc \notin Ends
    /\ client' = "gone"
    /\ UNCHANGED <<pc, request, upstream, replies, sides, failure, clock>>

\* What needs nobody's answer.
Handler == Route \/ Answer \/ BeginForward \/ InnerExpires \/ OuterExpires

Next ==
    \/ ReadRequest \/ ClientReadFails \/ ConnectUpstream \/ Forward \/ ForwardFails
    \/ Handler \/ Tick \/ ClientLeaves

\* The handler is polled when it can move and the clock runs; no peer answers.
Fairness == WF_vars(Handler) /\ WF_vars(Tick)

Spec == Init /\ [][Next]_vars
FairSpec == Spec /\ Fairness

-----------------------------------------------------------------------------
(* Properties.                                                             *)

\* The replies that end a handshake: not the choice of a SOCKS5 method.
Verdicts == {i \in DOMAIN replies : replies[i].what # "no authentication"}
Told == Verdicts # {}

\* Two layers can answer the client, the handler and connect_to_target: it gets
\* at most one verdict, in its own protocol, and never one after the handshake
\* timed out.
OneVerdictInKind ==
    /\ \A i, j \in Verdicts : i = j
    /\ \A i \in DOMAIN replies : replies[i].kind = proto
    /\ pc = "timed_out" => ~Told

\* A client is told of success only when the way to its target stands, all the
\* proxy's answers included; it is told nothing else then.  A handshake that
\* succeeds hands the relay a tunnel the client knows of; a plain HTTP client,
\* which sent a request and expects the target's response, is told nothing, and
\* the target has its line and headers, in this order.
SuccessMeansTunnel ==
    /\ \A i \in DOMAIN replies :
           replies[i].what \in {"succeeded", "granted", "established"} =>
               target = "tunnel" /\ pc = "ok"
    /\ pc = "ok" =>
           /\ target = "tunnel"
           /\ IF plain THEN ~Told /\ to_target = <<"line", "headers">>
                       ELSE Told /\ to_target = <<>>

\* A refused command or a target that cannot be reached is reported to a client
\* that is still there, whichever layer finds out.  That a direct connect took
\* too long is reported only if it had the whole of the handshake's time to
\* itself: the timeout around it is the shorter one for any other client.
FailureIsTold ==
    /\ pc = "failed" /\ failure \in {"refused", "connect"} /\ client = "there" => Told
    /\ \A i \in DOMAIN replies : replies[i].what = "TTL expired" => began = HandshakeTimeout

\* README.md, "Proxy Protocols": for socks5 the name is resolved on this side,
\* the proxy never sees it; for socks5h it is resolved remotely, never here.
DnsAsConfigured ==
    /\ rule = "socks5h" => ~looked_up
    /\ rule = "socks5" /\ pc \in {"p_response", "p_bound", "answer", "forward", "ok"} => host = "ip"
    /\ rule = "socks5h" /\ pc \in ReadsProxy => host = dest

\* The handshake ends, whatever the client, the proxy and the target do.
HandshakeEnds == <>(pc \in Ends)
=============================================================================
