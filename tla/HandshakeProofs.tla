-------------------------- MODULE HandshakeProofs --------------------------
(***************************************************************************)
(* Proofs about Handshake, for all timeouts of which that of the whole is  *)
(* no longer than that of one connect: whatever client, proxy and target   *)
(* do, the client is told the truth, once, in its protocol, and names are  *)
(* resolved where the rule says.                                           *)
(***************************************************************************)
EXTENDS Handshake, SequenceTheorems, TLAPS

Successes == {"succeeded", "granted", "established"}
Protocols == {"socks4", "socks5", "http"}
Words ==
    {"no authentication", "no acceptable method", "command not supported",
     "address type not supported", "connection refused", "host unreachable",
     "general failure", "TTL expired", "rejected", "bad gateway"} \union Successes
Replies == [kind : Protocols, what : Words]

\* What is known of the request, the tunnel and the clock where the handler is.
Control ==
    /\ pc \in Waits \union {"route", "answer"} \union Ends
    /\ client \in {"there", "gone"} /\ plain \in BOOLEAN
    /\ proto \in {"none", "socks4", "socks5", "http"}

Asked ==
    /\ pc \in {"s5_methods", "s5_request", "s5_address"} => proto = "socks5"
    /\ pc = "s4_request" => proto = "socks4"
    /\ pc = "http_headers" => proto = "http"
    /\ pc \notin {"first"} \union Ends => proto # "none"

Reached ==
    /\ pc \in {"answer", "forward", "ok"} => target = "tunnel"
    /\ pc \notin {"forward"} \union Ends => to_target = <<>>
    /\ pc = "forward" => plain /\ to_target \in {<<>>, <<"line">>}
    /\ pc = "ok" => to_target = IF plain THEN <<"line", "headers">> ELSE <<>>

\* The rule decides the way, and the way what the proxy is asked for.
Ways ==
    /\ pc \in ReadsClient \union {"route"} => ~looked_up
    /\ pc = "direct_connect" => rule = "direct"
    /\ pc \in Connects \/ pc \in ReadsProxy \/ pc = "p_lookup" => rule \in Rules
    /\ pc = "p_lookup" => rule \in {"socks5", "http"}
    /\ pc = "p_http" => rule = "http"
    /\ DnsAsConfigured

\* A direct connect's timer runs beside the whole handshake's.
Clocks ==
    /\ outer \in 0..HandshakeTimeout
    /\ inner \in Nat \union {NoTimer}
    /\ pc = "direct_connect" =>
           /\ began \in 0..HandshakeTimeout /\ inner \in Nat
           /\ inner + began = outer + ConnectTimeout

Quiet == \A i \in DOMAIN replies : replies[i].what = "no authentication"

\* What the client was told; nothing final while the handler is under way.
Answers ==
    /\ replies \in Seq(Replies)
    /\ pc = "first" => replies = <<>>
    /\ pc \notin {"ok", "failed"} => Quiet
    /\ \A i \in DOMAIN replies : replies[i].kind = proto
    /\ \A i, j \in Verdicts : i = j
    /\ \A i \in DOMAIN replies : replies[i].what \in Successes => target = "tunnel" /\ pc = "ok"
    /\ pc = "ok" => (Told <=> ~plain)
    /\ pc = "failed" /\ failure \in {"refused", "connect"} /\ client = "there" => Told
    /\ \A i \in DOMAIN replies : replies[i].what = "TTL expired" => began = HandshakeTimeout

\* The inductive invariant.
HInv == Control /\ Asked /\ Reached /\ Ways /\ Clocks /\ Answers

-----------------------------------------------------------------------------
(* The steps, by what they do to the handler's locals.                     *)

\* Nothing moves once the handshake is over.
LEMMA OnlyTheUnfinishedMoves == Next => pc \notin Ends
BY DEF Next, ReadRequest, ClientReadFails, ConnectUpstream, Forward, ForwardFails, Handler, Tick,
   ClientLeaves, FirstByte, Socks5Methods, Socks5MethodsRejected, Socks5Request,
   Socks5RequestRejected, Socks5Address, Socks5AddressRejected, Socks4Request,
   Socks4RequestRejected, HttpHeaders, HttpHeadersRejected, DirectConnected, DirectRefused,
   ProxyConnected, LookupSucceeds, LookupFails, Looked, ProxyMethod, ProxyNeedsAddress,
   ProxyResponse, ProxyBound, ProxyHttp, ProxyRefuses, Route, Answer, BeginForward, InnerExpires,
   OuterExpires, Goes, Waits, ReadsClient, Connects, ReadsProxy, Ends

\* A handshake that ends without success keeps what it knows.
LEMMA EndingKeepsControl ==
    ASSUME Control, Asked, Reached, Ways, Clocks, pc' \in {"failed", "timed_out"},
           UNCHANGED <<client, request, upstream, sides, clock>>
    PROVE  (Control /\ Asked /\ Reached /\ Ways /\ Clocks)'
BY DEF Control, Asked, Reached, Ways, Clocks, request, upstream, sides, clock, Ends, Waits,
   ReadsClient, Connects, ReadsProxy, DnsAsConfigured

LEMMA AppendToOne ==
    ASSUME NEW a, NEW b
    PROVE  Append(<<a>>, b) = <<a, b>> /\ <<a>> # <<>>
<1> DEFINE s == <<a>>
           t == <<a, b>>
           W == {a, b}
<1>1. /\ s \in Seq(W) /\ Len(s) = 1 /\ s[1] = a
      /\ t \in Seq(W) /\ Len(t) = 2 /\ t[1] = a /\ t[2] = b
      /\ b \in W
    OBVIOUS
<1> HIDE DEF s, t, W
<1>2. /\ Append(s, b) \in Seq(W) /\ Len(Append(s, b)) = Len(s) + 1
      /\ \A i \in 1..Len(s) : Append(s, b)[i] = s[i]
      /\ Append(s, b)[Len(s) + 1] = b
    <2>1. s \in Seq(W) /\ b \in W
        BY <1>1
    <2> QED BY ONLY <2>1, AppendProperties
<1>3. \A i \in 1..2 : Append(s, b)[i] = t[i]
    BY <1>1, <1>2
<1>4. Append(s, b) = t
    BY <1>1, <1>2, <1>3, SeqEqual
<1>5. s # <<>>
    BY <1>1, EmptySeq
<1> QED BY <1>4, <1>5 DEF s, t

LEMMA FrameKeepsAll ==
    /\ Answers /\ UNCHANGED <<pc, client, proto, plain, target, replies, failure, began>> => Answers'
    /\ Control /\ Asked /\ Reached /\ Ways
           /\ UNCHANGED <<pc, client, proto, plain, dest, rule, host, looked_up, target, to_target>>
           => (Control /\ Asked /\ Reached /\ Ways)'
<1>1. ASSUME Answers, UNCHANGED <<pc, client, proto, plain, target, replies, failure, began>>
      PROVE  Answers'
    BY <1>1 DEF Answers, Quiet, Verdicts, Told
<1>2. ASSUME Control, Asked, Reached, Ways,
             UNCHANGED <<pc, client, proto, plain, dest, rule, host, looked_up, target, to_target>>
      PROVE  (Control /\ Asked /\ Reached /\ Ways)'
    BY <1>2 DEF Control, Asked, Reached, Ways, DnsAsConfigured
<1> QED BY <1>1, <1>2

\* The three ways a reply, or none, follows from a handler that gave no verdict.
LEMMA AppendReply ==
    ASSUME replies \in Seq(Replies), NEW k \in Protocols, NEW w \in Words,
           replies' = Append(replies, [kind |-> k, what |-> w])
    PROVE  /\ replies' \in Seq(Replies)
           /\ DOMAIN replies' = DOMAIN replies \union {Len(replies) + 1}
           /\ \A i \in DOMAIN replies : replies'[i] = replies[i]
           /\ replies'[Len(replies) + 1].kind = k /\ replies'[Len(replies) + 1].what = w
<1> DEFINE r == [kind |-> k, what |-> w]
<1>1. r \in Replies /\ r.kind = k /\ r.what = w
    BY DEF Replies
<1> HIDE DEF r
<1>2. replies' = Append(replies, r)
    BY DEF r
<1>3. /\ Append(replies, r) \in Seq(Replies) /\ Len(Append(replies, r)) = Len(replies) + 1
      /\ \A i \in 1..Len(replies) : Append(replies, r)[i] = replies[i]
      /\ Append(replies, r)[Len(replies) + 1] = r
    BY <1>1, AppendProperties
<1>4. Len(replies) \in Nat /\ DOMAIN replies = 1..Len(replies)
    BY LenProperties
<1>5. DOMAIN replies' = 1..(Len(replies) + 1)
    BY <1>2, <1>3, LenProperties
<1>6. \A n \in Nat : 1..(n + 1) = (1..n) \union {n + 1}
    OBVIOUS
<1> QED BY <1>1, <1>2, <1>3, <1>4, <1>5, <1>6

LEMMA SilentStep ==
    ASSUME Answers, Quiet, UNCHANGED replies,
           proto' = proto \/ replies = <<>>,
           pc' = "first" => pc = "first",
           pc' = "ok" => plain',
           pc' = "failed" /\ failure' \in {"refused", "connect"} => client' = "gone"
    PROVE  Answers'
<1>1. DOMAIN <<>> = {}
    OBVIOUS
<1>2. Quiet' /\ Verdicts' = {} /\ ~Told'
    BY DEF Quiet, Verdicts, Told
<1>3. \A i \in DOMAIN replies' : replies'[i].kind = proto'
    BY <1>1 DEF Answers
<1> QED BY <1>2, <1>3 DEF Answers, Quiet, Successes

LEMMA MethodStep ==
    ASSUME Answers, Quiet, proto = "socks5", UNCHANGED proto,
           replies' = Append(replies, [kind |-> "socks5", what |-> "no authentication"]),
           pc' \notin {"first", "ok", "failed"}
    PROVE  Answers'
<1>1. /\ replies' \in Seq(Replies)
      /\ DOMAIN replies' = DOMAIN replies \union {Len(replies) + 1}
      /\ \A i \in DOMAIN replies : replies'[i] = replies[i]
      /\ replies'[Len(replies) + 1].kind = "socks5"
      /\ replies'[Len(replies) + 1].what = "no authentication"
    BY AppendReply DEF Answers, Protocols, Words
<1>2. Quiet'
    BY <1>1 DEF Quiet
<1>3. Verdicts' = {}
    BY <1>2 DEF Quiet, Verdicts
<1>4. \A i \in DOMAIN replies' : replies'[i].kind = proto'
    BY <1>1 DEF Answers
<1> QED BY <1>1, <1>2, <1>3, <1>4 DEF Answers, Quiet, Successes

LEMMA VerdictStep ==
    ASSUME Answers, Quiet, UNCHANGED proto, proto \in Protocols,
           NEW w \in Words \ {"no authentication"},
           replies' = Append(replies, [kind |-> proto, what |-> w]),
           w \in Successes => target' = "tunnel" /\ pc' = "ok",
           w = "TTL expired" => began' = HandshakeTimeout,
           pc' \in {"ok", "failed"}, pc' = "ok" => ~plain'
    PROVE  Answers'
<1> DEFINE n == Len(replies) + 1
<1>1. /\ replies' \in Seq(Replies)
      /\ DOMAIN replies' = DOMAIN replies \union {n}
      /\ \A i \in DOMAIN replies : replies'[i] = replies[i]
      /\ replies'[n].kind = proto /\ replies'[n].what = w
    BY AppendReply DEF Answers
<1> HIDE DEF n
<1>2. Verdicts' = {n}
    BY <1>1 DEF Quiet, Verdicts
<1>3. Told' /\ \A i, j \in Verdicts' : i = j
    BY <1>2 DEF Told
<1>4. \A i \in DOMAIN replies' : replies'[i].kind = proto'
    BY <1>1 DEF Answers
<1>5. \A i \in DOMAIN replies' : i # n => replies'[i].what = "no authentication"
    BY <1>1 DEF Quiet
<1>6. \A i \in DOMAIN replies' : replies'[i].what \in Successes => target' = "tunnel" /\ pc' = "ok"
    BY <1>1, <1>5 DEF Successes
<1>7. \A i \in DOMAIN replies' : replies'[i].what = "TTL expired" => began' = HandshakeTimeout
    BY <1>1, <1>5
<1> QED BY <1>1, <1>3, <1>4, <1>6, <1>7 DEF Answers

\* A reply that ends the handshake, if the client is there to get it.
LEMMA SaysStep ==
    ASSUME Answers, Quiet, UNCHANGED <<client, proto>>, proto \in Protocols,
           NEW w \in Words \ ({"no authentication"} \union Successes),
           Says(proto, w), pc' = "failed",
           w = "TTL expired" => began' = HandshakeTimeout
    PROVE  Answers'
<1>1. CASE replies' = Append(replies, [kind |-> proto, what |-> w])
    BY <1>1, VerdictStep
<1>2. CASE client = "gone" /\ UNCHANGED replies
    BY <1>2, SilentStep
<1> QED BY <1>1, <1>2 DEF Says

\* connect_to_target's error, told by whichever layer it falls to.
LEMMA ConnectFailsStep ==
    ASSUME HInv, pc \notin Ends \union {"first"}, NEW code \in Words \ ({"no authentication"} \union Successes),
           ConnectFails(code), code = "TTL expired" => began = HandshakeTimeout
    PROVE  HInv'
<1>1. /\ pc' = "failed" /\ failure' = "connect"
      /\ UNCHANGED <<client, request, upstream, sides, clock>>
      /\ proto \in Protocols
    BY DEF ConnectFails, Fails, HInv, Control, Asked, Protocols
<1>2. /\ UNCHANGED <<client, proto, plain, target, began>> /\ Answers /\ Quiet
    BY <1>1 DEF request, upstream, clock, HInv, Answers, Ends
<1>3. ASSUME proto = "socks5" PROVE Answers'
    <2>1. Says(proto, code)
        BY <1>3 DEF ConnectFails
    <2> QED BY <1>1, <1>2, <1>3, <2>1, SaysStep
<1>4. ASSUME proto = "socks4" PROVE Answers'
    <2>1. Says(proto, "rejected")
        BY <1>4 DEF ConnectFails
    <2>2. "rejected" \in Words \ ({"no authentication"} \union Successes)
        BY DEF Successes, Words
    <2> QED BY <1>1, <1>2, <1>4, <2>1, <2>2, SaysStep
<1>5. ASSUME proto = "http" PROVE Answers'
    <2>1. Says(proto, "bad gateway")
        BY <1>5 DEF ConnectFails
    <2>2. "bad gateway" \in Words \ ({"no authentication"} \union Successes)
        BY DEF Successes, Words
    <2> QED BY <1>1, <1>2, <1>5, <2>1, <2>2, SaysStep
<1>6. Answers'
    BY <1>1, <1>3, <1>4, <1>5 DEF Protocols
<1> QED BY <1>1, <1>6, EndingKeepsControl DEF HInv

-----------------------------------------------------------------------------
(* The actions.                                                            *)

\* The client's request: read, refused with or without a word, or not come.
LEMMA ReadRequestKeepsHInv == HInv /\ (ReadRequest \/ ClientReadFails) => HInv'
<1> SUFFICES ASSUME HInv, ReadRequest \/ ClientReadFails
             PROVE  HInv'
    OBVIOUS
<1>0. pc \in ReadsClient /\ Answers /\ Quiet
    BY DEF HInv, Answers, ReadRequest, ClientReadFails, FirstByte, Socks5Methods,
       Socks5MethodsRejected, Socks5Request, Socks5RequestRejected, Socks5Address,
       Socks5AddressRejected, Socks4Request, Socks4RequestRejected, HttpHeaders,
       HttpHeadersRejected, Goes, ReadsClient
<1>1. CASE FirstByte
    <2>1. /\ pc = "first" /\ replies = <<>> /\ UNCHANGED <<client, plain, upstream, replies, sides, clock>>
          /\ \/ proto' = "socks5" /\ pc' = "s5_methods"
             \/ proto' = "socks4" /\ pc' = "s4_request"
             \/ proto' = "http" /\ pc' = "http_headers"
        BY <1>1 DEF FirstByte, Goes, HInv, Answers
    <2>2. (Control /\ Asked /\ Reached /\ Ways /\ Clocks)'
        BY <2>1 DEF HInv, Control, Asked, Reached, Ways, Clocks, upstream, sides, clock, Ends, Waits,
           ReadsClient, Connects, ReadsProxy, DnsAsConfigured
    <2>3. Answers'
        BY <2>1, <1>0, SilentStep
    <2> QED BY <2>2, <2>3 DEF HInv
<1>2. CASE Socks5Methods
    <2>1. /\ pc = "s5_methods" /\ pc' = "s5_request" /\ UNCHANGED <<client, request, upstream, sides, clock>>
        BY <1>2 DEF Socks5Methods, Goes
    <2>2. (Control /\ Asked /\ Reached /\ Ways /\ Clocks)'
        BY <2>1 DEF HInv, Control, Asked, Reached, Ways, Clocks, request, upstream, sides, clock, Ends,
           Waits, ReadsClient, Connects, ReadsProxy, DnsAsConfigured
    <2>3. Answers'
        <3>1. proto = "socks5" /\ UNCHANGED proto
            BY <2>1 DEF HInv, Asked, request
        <3> QED BY <1>0, <1>2, <2>1, <3>1, MethodStep DEF Socks5Methods
    <2> QED BY <2>2, <2>3 DEF HInv
<1>3. CASE Socks5Request \/ Socks5Address \/ Socks4Request \/ HttpHeaders
    <2>1. /\ UNCHANGED <<client, proto, upstream, replies, to_target, failure, clock>>
          /\ plain' \in BOOLEAN
          /\ \/ pc = "s5_request" /\ pc' = "s5_address"
             \/ pc \in {"s5_address", "s4_request", "http_headers"} /\ pc' = "route"
        BY <1>3 DEF Socks5Request, Socks5Address, Socks4Request, HttpHeaders, Goes, request, sides,
           HInv, Control
    <2>2. (Control /\ Asked /\ Reached /\ Clocks)'
        BY <2>1 DEF HInv, Control, Asked, Reached, Clocks, upstream, clock, Ends, Waits,
           ReadsClient, Connects, ReadsProxy
    <2>3. Ways'
        BY <2>1 DEF HInv, Ways, upstream, DnsAsConfigured, ReadsClient, Connects, ReadsProxy
    <2>4. Answers'
        BY <2>1, <1>0, SilentStep
    <2> QED BY <2>2, <2>3, <2>4 DEF HInv
<1>4. CASE \/ Socks5MethodsRejected \/ Socks5RequestRejected \/ Socks5AddressRejected
           \/ Socks4RequestRejected \/ HttpHeadersRejected \/ ClientReadFails
    <2>1. pc' = "failed" /\ UNCHANGED <<client, request, upstream, sides, clock>>
        BY <1>4 DEF Socks5MethodsRejected, Socks5RequestRejected, Socks5AddressRejected,
           Socks4RequestRejected, HttpHeadersRejected, ClientReadFails, Fails
    <2>2. UNCHANGED <<client, proto>>
        BY <2>1 DEF request
    <2>3. \/ UNCHANGED replies /\ failure' \in {"bad request", "client gone"}
          \/ \E w \in {"no acceptable method", "command not supported", "address type not supported"} :
                 proto = "socks5" /\ Says(proto, w)
          \/ proto = "socks4" /\ Says(proto, "rejected")
        <3>1. /\ pc \in {"s5_methods", "s5_request", "s5_address"} => proto = "socks5"
              /\ pc = "s4_request" => proto = "socks4"
            BY DEF HInv, Asked
        <3> QED BY <1>4, <3>1 DEF Socks5MethodsRejected, Socks5RequestRejected,
                Socks5AddressRejected, Socks4RequestRejected, HttpHeadersRejected,
                ClientReadFails, Fails
    <2>4. ASSUME UNCHANGED replies, failure' \in {"bad request", "client gone"} PROVE Answers'
        BY <2>1, <2>2, <2>4, <1>0, SilentStep
    <2>5. ASSUME NEW w \in {"no acceptable method", "command not supported",
                            "address type not supported", "rejected"},
                 proto \in {"socks4", "socks5"}, Says(proto, w)
          PROVE  Answers'
        <3>1. w \in Words \ ({"no authentication"} \union Successes) /\ w # "TTL expired"
            BY <2>5 DEF Successes, Words
        <3> QED BY <2>1, <2>2, <2>5, <3>1, <1>0, SaysStep DEF Protocols
    <2>6. Answers'
        BY <2>3, <2>4, <2>5
    <2> QED BY <2>1, <2>6, EndingKeepsControl DEF HInv
<1> QED BY <1>1, <1>2, <1>3, <1>4 DEF ReadRequest

\* The rule, the connect and the dialogue with the proxy.
LEMMA UpstreamKeepsHInv == HInv /\ (Route \/ ConnectUpstream) => HInv'
<1> SUFFICES ASSUME HInv, Route \/ ConnectUpstream
             PROVE  HInv'
    OBVIOUS
<1>0. pc \in {"route", "p_lookup"} \union Connects \union ReadsProxy /\ Answers /\ Quiet
    BY DEF HInv, Answers, ConnectUpstream, Route, DirectConnected, DirectRefused, ProxyConnected,
       LookupSucceeds, LookupFails, Looked, ProxyMethod, ProxyNeedsAddress, ProxyResponse, ProxyBound,
       ProxyHttp, ProxyRefuses, Goes, Connects, ReadsProxy
<1>1. ASSUME /\ pc' \in {"direct_connect", "answer", "p_lookup", "p_connect"} \union ReadsProxy
             /\ UNCHANGED <<client, request, replies, to_target, failure, outer>>
             /\ pc' = "answer" => target' = "tunnel"
             /\ Ways' /\ Clocks'
      PROVE  HInv'
    <2>1. UNCHANGED <<proto, plain>>
        BY <1>1 DEF request
    <2>2. (Control /\ Asked /\ Reached)'
        BY <1>0, <1>1, <2>1 DEF HInv, Control, Asked, Reached, Ends, Waits, ReadsClient, Connects, ReadsProxy
    <2>3. Answers'
        BY <1>0, <1>1, <2>1, SilentStep DEF ReadsProxy
    <2> QED BY <1>1, <2>2, <2>3 DEF HInv
<1>2. CASE Route
    <2>1. Ways'
        BY <1>2 DEF HInv, Route, Ways, DnsAsConfigured, Rules, ReadsClient, Connects, ReadsProxy, request
    <2>2. Clocks'
        BY <1>2, TimeoutsAssumption DEF HInv, Route, Clocks
    <2> QED BY <1>1, <1>2, <2>1, <2>2 DEF Route, sides
<1>3. CASE DirectConnected \/ ProxyBound \/ ProxyHttp
    <2>1. Ways'
        BY <1>3 DEF HInv, DirectConnected, ProxyBound, ProxyHttp, Goes, Ways, DnsAsConfigured,
           ReadsClient, Connects, ReadsProxy, request
    <2>2. Clocks'
        BY <1>3 DEF HInv, DirectConnected, ProxyBound, ProxyHttp, Goes, Clocks
    <2> QED BY <1>1, <1>3, <2>1, <2>2 DEF DirectConnected, ProxyBound, ProxyHttp, Goes, sides
<1>4. CASE ProxyConnected
    <2>1. /\ pc = "p_connect" /\ pc' \in {"p_lookup", "p_http", "p_method"}
          /\ pc' = "p_lookup" => rule \in {"socks5", "http"}
          /\ pc' = "p_http" => rule = "http"
          /\ host' = dest
          /\ UNCHANGED <<client, request, rule, looked_up, replies, sides, failure, outer>>
        BY <1>4 DEF ProxyConnected, Goes
    <2>2. Ways'
        BY <2>1 DEF HInv, Ways, DnsAsConfigured, ReadsClient, Connects, ReadsProxy, request
    <2>3. Clocks'
        BY <1>4, <2>1, TimeoutsAssumption DEF HInv, ProxyConnected, Clocks
    <2> QED BY <1>1, <2>1, <2>2, <2>3 DEF sides, ReadsProxy
<1>5. CASE LookupSucceeds \/ LookupFails
    <2>1. /\ pc = "p_lookup" /\ pc' \in {"p_http", "p_method"}
          /\ pc' = "p_http" => rule = "http"
          /\ rule \in {"socks5", "http"} /\ inner' = ProxyTimeout
          /\ UNCHANGED <<client, request, rule, target, replies, sides, failure, outer, began>>
        BY <1>5 DEF HInv, Ways, LookupSucceeds, LookupFails, Looked, Goes
    <2>2. Ways'
        BY <2>1 DEF HInv, Ways, DnsAsConfigured, ReadsClient, Connects, ReadsProxy, request, Rules
    <2>3. Clocks'
        BY <2>1, TimeoutsAssumption DEF HInv, Clocks
    <2> QED BY <1>1, <2>1, <2>2, <2>3 DEF sides, ReadsProxy
<1>6. CASE ProxyMethod \/ ProxyResponse
    <2>1. /\ \/ pc = "p_method" /\ pc' = "p_response" /\ (host = "ip" \/ rule = "socks5h")
             \/ pc = "p_response" /\ pc' = "p_bound"
          /\ UNCHANGED <<client, request, upstream, replies, sides, failure, clock>>
        BY <1>6 DEF ProxyMethod, ProxyResponse, Goes
    <2>2. Ways'
        BY <2>1 DEF HInv, Ways, DnsAsConfigured, ReadsClient, Connects, ReadsProxy, request, upstream
    <2>3. Clocks'
        BY <2>1 DEF HInv, Clocks, clock
    <2> QED BY <1>1, <2>1, <2>2, <2>3 DEF sides, clock, ReadsProxy
<1>7. CASE DirectRefused \/ ProxyNeedsAddress \/ ProxyRefuses
    <2>1. \E code \in {"connection refused", "host unreachable", "general failure"} : ConnectFails(code)
        BY <1>7 DEF DirectRefused, ProxyNeedsAddress, ProxyRefuses
    <2>2. pc \notin Ends \union {"first"}
        BY <1>0 DEF Connects, ReadsProxy, Ends
    <2>3. \A code \in {"connection refused", "host unreachable", "general failure"} :
              code \in Words \ ({"no authentication"} \union Successes) /\ code # "TTL expired"
        BY DEF Successes, Words
    <2> QED BY <2>1, <2>2, <2>3, ConnectFailsStep
<1> QED BY <1>2, <1>3, <1>4, <1>5, <1>6, <1>7 DEF ConnectUpstream

\* The answer, or a plain request's two writes.
LEMMA AnswerKeepsHInv == HInv /\ (Answer \/ BeginForward \/ Forward \/ ForwardFails) => HInv'
<1> SUFFICES ASSUME HInv, Answer \/ BeginForward \/ Forward \/ ForwardFails
             PROVE  HInv'
    OBVIOUS
<1>0. /\ pc \in {"answer", "forward"} /\ Answers /\ Quiet
      /\ UNCHANGED <<client, request, upstream, clock>>
      /\ UNCHANGED <<client, proto, plain, target, began>>
    BY DEF HInv, Answers, Answer, BeginForward, Forward, ForwardFails, Goes, request, upstream, clock, sides
<1>1. ASSUME pc' \in {"ok", "forward", "failed"}, (Reached /\ Answers)' PROVE HInv'
    <2>1. (Control /\ Asked /\ Clocks)'
        BY <1>0, <1>1 DEF HInv, Control, Asked, Clocks, clock, Waits, Ends, ReadsClient
    <2>2. Ways'
        BY <1>0, <1>1 DEF HInv, Ways, DnsAsConfigured, ReadsClient, Connects, ReadsProxy, request, upstream
    <2> QED BY <1>1, <2>1, <2>2 DEF HInv
<1>2. ASSUME pc' = "failed", UNCHANGED replies, failure' \in {"client gone", "target gone"} PROVE HInv'
    <2>1. Answers'
        BY <1>0, <1>2, SilentStep
    <2>2. Reached'
        BY <1>2 DEF Reached, Ends
    <2> QED BY <1>1, <1>2, <2>1, <2>2
<1>3. CASE ForwardFails
    BY <1>2, <1>3 DEF ForwardFails, Fails
<1>4. CASE Answer
    <2>1. CASE pc' = "ok" /\ replies' = Append(replies, [kind |-> proto, what |-> Success])
        <3>1. pc = "answer" /\ ~plain /\ UNCHANGED sides
            BY <1>4 DEF Answer
        <3>2. proto \in Protocols /\ target = "tunnel" /\ to_target = <<>>
            BY <3>1 DEF HInv, Control, Asked, Reached, Ends, Protocols
        <3>3. Success \in Successes /\ Success \in Words \ {"no authentication"} /\ Success # "TTL expired"
            BY <3>2 DEF Success, Successes, Words, Protocols
        <3>4. Answers'
            BY <1>0, <2>1, <3>1, <3>2, <3>3, VerdictStep
        <3>5. Reached'
            BY <1>0, <2>1, <3>1, <3>2 DEF Reached, Ends, sides
        <3> QED BY <1>1, <2>1, <3>4, <3>5
    <2>2. CASE UNCHANGED replies /\ Fails("client gone")
        BY <1>2, <2>2 DEF Fails
    <2> QED BY <1>4, <2>1, <2>2 DEF Answer
<1>5. CASE BeginForward
    <2>1. /\ pc = "answer" /\ pc' = "forward" /\ plain /\ UNCHANGED <<replies, sides>>
        BY <1>5 DEF BeginForward, Goes
    <2>2. Reached'
        BY <1>0, <2>1 DEF HInv, Reached, sides, Ends
    <2>3. Answers'
        BY <1>0, <2>1, SilentStep
    <2> QED BY <1>1, <2>1, <2>2, <2>3
<1>6. CASE Forward
    <2>1. /\ pc = "forward" /\ plain /\ target = "tunnel" /\ UNCHANGED replies
          /\ to_target \in {<<>>, <<"line">>}
        BY <1>6 DEF Forward, HInv, Reached
    <2>2. Append(<<"line">>, "headers") = <<"line", "headers">> /\ <<"line">> # <<>>
        BY AppendToOne
    <2>3. \/ pc' = "forward" /\ to_target' = <<"line">>
          \/ pc' = "ok" /\ to_target' = <<"line", "headers">>
        BY <1>6, <2>1, <2>2 DEF Forward
    <2>4. Reached'
        BY <1>0, <2>1, <2>3 DEF Reached, Ends
    <2>5. Answers'
        BY <1>0, <2>1, <2>3, SilentStep
    <2> QED BY <1>1, <2>3, <2>4, <2>5
<1> QED BY <1>3, <1>4, <1>5, <1>6

\* The timeouts, the clock and the client's leaving.
LEMMA TimeKeepsHInv == HInv /\ (InnerExpires \/ OuterExpires \/ Tick \/ ClientLeaves) => HInv'
<1> SUFFICES ASSUME HInv, InnerExpires \/ OuterExpires \/ Tick \/ ClientLeaves
             PROVE  HInv'
    OBVIOUS
<1>0. Answers
    BY DEF HInv
<1>1. CASE InnerExpires
    <2>1. CASE LookupFails
        BY <2>1, UpstreamKeepsHInv DEF ConnectUpstream
    <2>2. CASE pc = "direct_connect" /\ ConnectFails("TTL expired")
        <3>1. /\ inner = 0 /\ began \in 0..HandshakeTimeout /\ outer \in 0..HandshakeTimeout
              /\ inner + began = outer + ConnectTimeout
            BY <1>1, <2>2 DEF InnerExpires, HInv, Clocks
        <3>2. began = HandshakeTimeout
            BY <3>1, TimeoutsAssumption
        <3>3. "TTL expired" \in Words \ ({"no authentication"} \union Successes)
            BY DEF Successes, Words
        <3> QED BY <2>2, <3>2, <3>3, ConnectFailsStep DEF Ends
    <2>3. CASE pc \in {"p_connect"} \union ReadsProxy /\ ConnectFails("general failure")
        <3>1. "general failure" \in Words \ ({"no authentication"} \union Successes)
            BY DEF Successes, Words
        <3> QED BY <2>3, <3>1, ConnectFailsStep DEF Ends, ReadsProxy
    <2> QED BY <1>1, <2>1, <2>2, <2>3 DEF InnerExpires
<1>2. CASE OuterExpires
    <2>1. pc \notin Ends /\ pc' = "timed_out" /\ UNCHANGED <<client, request, upstream, replies, sides, clock>>
        BY <1>2 DEF OuterExpires, Ends, Waits, ReadsClient, Connects, ReadsProxy
    <2>2. Quiet /\ UNCHANGED proto
        BY <1>0, <2>1 DEF Answers, Ends, request
    <2>3. Answers'
        BY <1>0, <2>1, <2>2, SilentStep
    <2> QED BY <2>1, <2>3, EndingKeepsControl DEF HInv
<1>3. CASE Tick
    <2>1. /\ outer > 0 => outer' = outer - 1
          /\ inner > 0 => inner' = inner - 1
          /\ ~(inner > 0) => inner' = inner
          /\ outer # 0 /\ inner # 0
          /\ UNCHANGED <<pc, client, request, upstream, replies, sides, failure, began>>
        BY <1>3 DEF Tick, Elapse
    <2>2. outer \in 0..HandshakeTimeout /\ inner \in Nat \union {-1}
        BY DEF HInv, Clocks, NoTimer
    <2>3. /\ outer' \in 0..HandshakeTimeout /\ outer' = outer - 1
          /\ inner' \in Nat \union {-1} /\ (inner \in Nat => inner' \in Nat /\ inner' = inner - 1)
        BY <2>1, <2>2, TimeoutsAssumption
    <2>4. Clocks'
        <3>1. CASE pc = "direct_connect"
            <4>1. /\ began \in 0..HandshakeTimeout /\ inner \in Nat /\ inner + began = outer + ConnectTimeout
                BY <3>1 DEF HInv, Clocks
            <4>2. inner' + began = outer' + ConnectTimeout
                BY <2>2, <2>3, <4>1, TimeoutsAssumption
            <4> QED BY <2>1, <2>3, <3>1, <4>1, <4>2 DEF Clocks, NoTimer
        <3>2. CASE pc # "direct_connect"
            BY <2>1, <2>3, <3>2 DEF Clocks, NoTimer
        <3> QED BY <3>1, <3>2
    <2>5. (Control /\ Asked /\ Reached /\ Ways /\ Answers)'
        BY <2>1, FrameKeepsAll DEF HInv, request, upstream, sides
    <2> QED BY <2>4, <2>5 DEF HInv
<1>4. CASE ClientLeaves
    <2>1. /\ pc \notin Ends /\ client' = "gone"
          /\ UNCHANGED <<pc, request, upstream, replies, sides, failure, clock>>
        BY <1>4 DEF ClientLeaves
    <2>2. (Control /\ Asked /\ Reached /\ Ways /\ Clocks)'
        BY <2>1 DEF HInv, Control, Asked, Reached, Ways, DnsAsConfigured, Clocks,
           request, upstream, sides, clock
    <2>3. Quiet /\ UNCHANGED proto
        BY <1>0, <2>1 DEF Answers, Ends, request
    <2>4. Answers'
        BY <1>0, <2>1, <2>3, SilentStep DEF Ends
    <2> QED BY <2>2, <2>4 DEF HInv
<1> QED BY <1>1, <1>2, <1>3, <1>4

-----------------------------------------------------------------------------
LEMMA InitHInv == Init => HInv
<1> SUFFICES ASSUME Init PROVE HInv
    OBVIOUS
<1>1. Control /\ Asked /\ Reached /\ Ways
    BY DEF Init, Control, Asked, Reached, Ways, DnsAsConfigured, Waits, Ends, ReadsClient, Connects,
       ReadsProxy
<1>2. Clocks
    BY TimeoutsAssumption DEF Init, Clocks, NoTimer
<1>3. <<>> \in Seq(Replies) /\ DOMAIN <<>> = {}
    BY EmptySeq
<1>4. Answers
    BY <1>3 DEF Init, Answers, Quiet, Verdicts
<1> QED BY <1>1, <1>2, <1>4 DEF HInv

LEMMA NextKeepsHInv == HInv /\ [Next]_vars => HInv'
<1>1. HInv /\ UNCHANGED vars => HInv'
    <2> SUFFICES ASSUME HInv, UNCHANGED vars PROVE HInv'
        OBVIOUS
    <2>1. UNCHANGED <<pc, client, proto, plain, dest, rule, host, looked_up, target, to_target,
                      replies, failure, outer, inner, began>>
        BY DEF vars, request, upstream, sides, clock
    <2>2. Clocks'
        BY <2>1 DEF HInv, Clocks
    <2> QED BY <2>1, <2>2, FrameKeepsAll DEF HInv
<1> QED BY <1>1, ReadRequestKeepsHInv, UpstreamKeepsHInv, AnswerKeepsHInv, TimeKeepsHInv
        DEF Next, Handler

\* What is known at each await of the handlers and of ProxyClient::connect.
THEOREM HandshakeInvariant == Spec => []HInv
BY InitHInv, NextKeepsHInv, PTL DEF Spec

\* However handler, connect_to_target and timeouts meet, the client gets at
\* most one verdict, in its own protocol.
THEOREM VerdictsStayInKind == Spec => []OneVerdictInKind
<1>1. HInv => OneVerdictInKind
    BY DEF HInv, Answers, Quiet, OneVerdictInKind, Verdicts, Told
<1> QED BY <1>1, HandshakeInvariant, PTL

\* A success that was told, or handed to relay_data, is a tunnel that stands.
THEOREM SuccessIsATunnel == Spec => []SuccessMeansTunnel
<1>1. HInv => SuccessMeansTunnel
    BY DEF HInv, Answers, Reached, SuccessMeansTunnel, Successes
<1> QED BY <1>1, HandshakeInvariant, PTL

\* A client that is there is told of a refusal and of a failed connect, and of
\* a connect timeout only where that of the whole handshake was no shorter.
THEOREM FailuresAreTold == Spec => []FailureIsTold
<1>1. HInv => FailureIsTold
    BY DEF HInv, Answers, FailureIsTold
<1> QED BY <1>1, HandshakeInvariant, PTL

\* Names reach a socks5 proxy resolved, and a socks5h proxy as they are.
THEOREM NamesGoAsConfigured == Spec => []DnsAsConfigured
<1>1. HInv => DnsAsConfigured
    BY DEF HInv, Ways
<1> QED BY <1>1, HandshakeInvariant, PTL
=============================================================================
