------------------------------- MODULE Relay -------------------------------
(***************************************************************************)
(* relay_data of proxy_server.rs: one established connection, two halves  *)
(* (client_to_target and target_to_client) that copy bytes, polled by one *)
(* task in a biased select loop with a linger timer.  A half is named by  *)
(* the peer it reads; it writes to the other one.  Bytes are units        *)
(* numbered in the order their sender sent them.                          *)
(***************************************************************************)
EXTENDS Integers, Sequences

CONSTANTS
    MaxSent,        \* bound: units a peer sends in all
    MaxLeftover,    \* bound: units read past the handshake, of each peer
    RelayBufSize,   \* RELAY_BUF_SIZE, in units
    SockCap,        \* units the kernel takes before a write would block
    IdleTimeout,    \* IDLE_TIMEOUT, in ticks
    WriteTimeout,   \* WRITE_TIMEOUT, in ticks
    LingerTimeout   \* LINGER_TIMEOUT_SECS, in ticks

ASSUME ConstantsAssumption ==
    /\ MaxSent \in Nat /\ MaxLeftover \in 0..MaxSent
    /\ RelayBufSize \in Nat \ {0}
    /\ SockCap \in Nat \ {0}
    /\ IdleTimeout \in Nat \ {0}
    /\ WriteTimeout \in Nat \ {0}
    /\ LingerTimeout \in Nat \ {0}

VARIABLES
    peer,           \* each peer's side: sending, half-closed, or gone with a RST
    sent,           \* units each peer has sent
    inbox,          \* units in the relay's receive buffer, by sender
    held,           \* what is left of the buffer passed to write_all, by sender
    batch,          \* length of the buffer write_all was given
    out,            \* units handed to the kernel for the other peer, by sender
    unread,         \* how many of those the other peer has not taken yet
    counted,        \* bytes_sent / bytes_received, and the traffic counters
    pc,             \* where each half is suspended
    timer,          \* ticks left of that half's timeout
    linger_timeout, \* ticks left of the linger sleep, or NoTimer
    relay           \* "running", or the status it left in the tracker

peerVars == <<peer, sent>>
vars == <<peer, sent, inbox, held, batch, out, unread, counted, pc, timer,
          linger_timeout, relay>>

Peers == {"client", "target"}
Other(p) == IF p = "client" THEN "target" ELSE "client"
NoTimer == -1
Units == 1..MaxSent
Stream(n) == [i \in 1..n |-> i]
Lesser(m, n) == IF m < n THEN m ELSE n

-----------------------------------------------------------------------------
\* The leftovers of the handshake are the first thing each half writes.
Init ==
    /\ peer = [p \in Peers |-> "open"]
    /\ sent \in [Peers -> 0..MaxLeftover]
    /\ inbox = [p \in Peers |-> <<>>]
    /\ held = [p \in Peers |-> Stream(sent[p])]
    /\ batch = sent
    /\ out = [p \in Peers |-> <<>>]
    /\ unread = [p \in Peers |-> 0]
    /\ counted = [p \in Peers |-> 0]
    /\ pc = [p \in Peers |-> IF sent[p] > 0 THEN "write" ELSE "read"]
    /\ timer = [p \in Peers |-> IF sent[p] > 0 THEN WriteTimeout ELSE IdleTimeout]
    /\ linger_timeout = NoTimer
    /\ relay = "running"

-----------------------------------------------------------------------------
(* The peers.                                                              *)

PeerSend(p) ==
    /\ relay = "running" /\ peer[p] = "open" /\ sent[p] < MaxSent
    /\ sent' = [sent EXCEPT ![p] = sent[p] + 1]
    /\ inbox' = [inbox EXCEPT ![p] = Append(inbox[p], sent[p] + 1)]
    /\ UNCHANGED <<peer, held, batch, out, unread, counted, pc, timer,
                   linger_timeout, relay>>

PeerFin(p) ==
    /\ relay = "running" /\ peer[p] = "open"
    /\ peer' = [peer EXCEPT ![p] = "fin"]
    /\ UNCHANGED <<sent, inbox, held, batch, out, unread, counted, pc, timer,
                   linger_timeout, relay>>

PeerReset(p) ==
    /\ relay = "running" /\ peer[p] # "reset"
    /\ peer' = [peer EXCEPT ![p] = "reset"]
    /\ UNCHANGED <<sent, inbox, held, batch, out, unread, counted, pc, timer,
                   linger_timeout, relay>>

\* The peer that reads p's stream takes a unit out of its socket.
PeerConsume(p) ==
    /\ relay = "running" /\ peer[Other(p)] # "reset" /\ unread[p] > 0
    /\ unread' = [unread EXCEPT ![p] = unread[p] - 1]
    /\ UNCHANGED <<peer, sent, inbox, held, batch, out, counted, pc, timer,
                   linger_timeout, relay>>

-----------------------------------------------------------------------------
(* One half of the relay.  tokio's timeout polls the inner future first,   *)
(* so an expired timer counts only for a half that cannot move.            *)

Readable(p) == inbox[p] # <<>> \/ peer[p] # "open"
Writable(p) == unread[p] < SockCap \/ peer[Other(p)] = "reset"
Blocked(p) == \/ pc[p] = "done"
              \/ pc[p] = "read" /\ ~Readable(p)
              \/ pc[p] = "write" /\ ~Writable(p)

At(p, where) == relay = "running" /\ pc[p] = where

\* Slip: the counters would be advanced by the buffer's size instead of n.
ReadSome_CountsWholeBuffer(p) ==
    /\ At(p, "read") /\ inbox[p] # <<>>
    /\ LET n == Lesser(Len(inbox[p]), RelayBufSize) IN
       /\ held' = [held EXCEPT ![p] = SubSeq(inbox[p], 1, n)]
       /\ inbox' = [inbox EXCEPT ![p] = SubSeq(inbox[p], n + 1, Len(inbox[p]))]
    /\ batch' = [batch EXCEPT ![p] = RelayBufSize]
    /\ pc' = [pc EXCEPT ![p] = "write"]
    /\ timer' = [timer EXCEPT ![p] = WriteTimeout]
    /\ UNCHANGED <<peerVars, out, unread, counted, linger_timeout, relay>>

ReadSome(p) ==
    /\ At(p, "read") /\ inbox[p] # <<>>
    /\ LET n == Lesser(Len(inbox[p]), RelayBufSize) IN
       /\ held' = [held EXCEPT ![p] = SubSeq(inbox[p], 1, n)]
       /\ inbox' = [inbox EXCEPT ![p] = SubSeq(inbox[p], n + 1, Len(inbox[p]))]
       /\ batch' = [batch EXCEPT ![p] = n]
    /\ pc' = [pc EXCEPT ![p] = "write"]
    /\ timer' = [timer EXCEPT ![p] = WriteTimeout]
    /\ UNCHANGED <<peerVars, out, unread, counted, linger_timeout, relay>>

\* Slip: the linger sleep is armed again when the second half ends.
ReadEof_AlwaysLingers(p) ==
    /\ At(p, "read") /\ inbox[p] = <<>> /\ peer[p] = "fin"
    /\ pc' = [pc EXCEPT ![p] = "done"]
    /\ timer' = [timer EXCEPT ![p] = 0]
    /\ linger_timeout' = LingerTimeout
    /\ UNCHANGED <<peerVars, inbox, held, batch, out, unread, counted, relay>>

\* Slip: the linger sleep is given the idle timeout.
ReadEof_LingersForIdle(p) ==
    /\ At(p, "read") /\ inbox[p] = <<>> /\ peer[p] = "fin"
    /\ pc' = [pc EXCEPT ![p] = "done"]
    /\ timer' = [timer EXCEPT ![p] = 0]
    /\ IF pc[Other(p)] = "done"
         THEN relay' = "closed" /\ UNCHANGED linger_timeout
         ELSE linger_timeout' = IdleTimeout /\ UNCHANGED relay
    /\ UNCHANGED <<peerVars, inbox, held, batch, out, unread, counted>>

\* Slip: a FIN is taken for the end of the stream while data is still unread.
ReadEof_DropsUnread(p) ==
    /\ At(p, "read") /\ peer[p] = "fin"
    /\ pc' = [pc EXCEPT ![p] = "done"]
    /\ timer' = [timer EXCEPT ![p] = 0]
    /\ IF pc[Other(p)] = "done"
         THEN relay' = "closed" /\ UNCHANGED linger_timeout
         ELSE linger_timeout' = LingerTimeout /\ UNCHANGED relay
    /\ UNCHANGED <<peerVars, inbox, held, batch, out, unread, counted>>

\* End of stream: the other peer's socket is shut down for writing (which does
\* not block on TCP) and the half is over.  The select loop then arms the
\* linger sleep, or closes the relay if the other half is over as well.
ReadEof(p) ==
    /\ At(p, "read") /\ inbox[p] = <<>> /\ peer[p] = "fin"
    /\ pc' = [pc EXCEPT ![p] = "done"]
    /\ timer' = [timer EXCEPT ![p] = 0]
    /\ IF pc[Other(p)] = "done"
         THEN relay' = "closed" /\ UNCHANGED linger_timeout
         ELSE linger_timeout' = LingerTimeout /\ UNCHANGED relay
    /\ UNCHANGED <<peerVars, inbox, held, batch, out, unread, counted>>

\* A half that fails ends the relay at once, whatever the other one holds.
HalfFails ==
    /\ relay' = "error"
    /\ UNCHANGED <<peerVars, inbox, held, batch, out, unread, counted, pc,
                   timer, linger_timeout>>

ReadError(p) == At(p, "read") /\ peer[p] = "reset" /\ HalfFails
WriteError(p) == At(p, "write") /\ peer[Other(p)] = "reset" /\ HalfFails

\* Slip: the deadline is looked at before the socket.
IdleExpires_DeadlineFirst(p) == At(p, "read") /\ timer[p] = 0 /\ HalfFails
IdleExpires(p) == At(p, "read") /\ timer[p] = 0 /\ Blocked(p) /\ HalfFails

\* Slip: a write without a timeout.
WriteExpires_Never(p) == At(p, "write") /\ FALSE /\ HalfFails
WriteExpires(p) == At(p, "write") /\ timer[p] = 0 /\ Blocked(p) /\ HalfFails

\* Slip: write instead of write_all, what a short write leaves over is lost.
WriteSome_ShortWrite(p) ==
    /\ At(p, "write") /\ unread[p] < SockCap /\ peer[Other(p)] # "reset"
    /\ out' = [out EXCEPT ![p] = Append(out[p], Head(held[p]))]
    /\ held' = [held EXCEPT ![p] = <<>>]
    /\ unread' = [unread EXCEPT ![p] = unread[p] + 1]
    /\ counted' = [counted EXCEPT ![p] = counted[p] + 1]
    /\ batch' = [batch EXCEPT ![p] = 0]
    /\ pc' = [pc EXCEPT ![p] = "read"]
    /\ timer' = [timer EXCEPT ![p] = IdleTimeout]
    /\ UNCHANGED <<peerVars, inbox, linger_timeout, relay>>

\* write_all moves units while the kernel takes them; only when the last one
\* is gone are the counters advanced and the next read begun.
WriteSome(p) ==
    /\ At(p, "write") /\ unread[p] < SockCap /\ peer[Other(p)] # "reset"
    /\ out' = [out EXCEPT ![p] = Append(out[p], Head(held[p]))]
    /\ held' = [held EXCEPT ![p] = Tail(held[p])]
    /\ unread' = [unread EXCEPT ![p] = unread[p] + 1]
    /\ IF Len(held[p]) > 1
         THEN UNCHANGED <<counted, batch, pc, timer>>
         ELSE /\ counted' = [counted EXCEPT ![p] = counted[p] + batch[p]]
              /\ batch' = [batch EXCEPT ![p] = 0]
              /\ pc' = [pc EXCEPT ![p] = "read"]
              /\ timer' = [timer EXCEPT ![p] = IdleTimeout]
    /\ UNCHANGED <<peerVars, inbox, linger_timeout, relay>>

Half(p) ==
    \/ ReadSome(p) \/ ReadEof(p) \/ ReadError(p) \/ IdleExpires(p)
    \/ WriteSome(p) \/ WriteError(p) \/ WriteExpires(p)

\* The select is biased: the linger branch is polled after both halves, so it
\* is taken when neither of them can move.
LingerFires ==
    /\ relay = "running" /\ linger_timeout = 0
    /\ \A p \in Peers : Blocked(p)
    /\ relay' = "closed"
    /\ UNCHANGED <<peerVars, inbox, held, batch, out, unread, counted, pc,
                   timer, linger_timeout>>

\* Time passes for every timer that is running.
Elapse(t) == IF t > 0 THEN t - 1 ELSE t

Tick ==
    /\ relay = "running"
    /\ timer' = [p \in Peers |-> Elapse(timer[p])]
    /\ linger_timeout' = Elapse(linger_timeout)
    /\ UNCHANGED <<peerVars, inbox, held, batch, out, unread, counted, pc, relay>>

Next ==
    \/ \E p \in Peers : PeerSend(p) \/ PeerFin(p) \/ PeerReset(p) \/ PeerConsume(p)
    \/ \E p \in Peers : Half(p)
    \/ LingerFires
    \/ Tick

\* The runtime polls a task that can move and its clock advances; the peers
\* owe nothing.
Fairness ==
    /\ \A p \in Peers : WF_vars(Half(p))
    /\ WF_vars(LingerFires)
    /\ WF_vars(Tick)

Spec == Init /\ [][Next]_vars
FairSpec == Spec /\ Fairness

-----------------------------------------------------------------------------
(* Properties.                                                             *)

\* Type invariant of relay_data's locals, its sockets and its counters.
TypeOK ==
    /\ peer \in [Peers -> {"open", "fin", "reset"}]
    /\ sent \in [Peers -> 0..MaxSent]
    /\ inbox \in [Peers -> Seq(Units)]
    /\ held \in [Peers -> Seq(Units)]
    /\ batch \in [Peers -> Nat]
    /\ out \in [Peers -> Seq(Units)]
    /\ unread \in [Peers -> 0..SockCap]
    /\ counted \in [Peers -> Nat]
    /\ pc \in [Peers -> {"read", "write", "done"}]
    /\ timer \in [Peers -> 0..(IdleTimeout + WriteTimeout)]
    /\ linger_timeout \in {NoTimer} \union 0..LingerTimeout
    /\ relay \in {"running", "closed", "error"}

\* Whatever the interleaving of the two halves, their timeouts and the peers,
\* a peer's units are in order and all there: first those passed on, then
\* those in the write buffer, then those not read yet (read / write_all pairs).
StreamIntact == \A p \in Peers : out[p] \o held[p] \o inbox[p] = Stream(sent[p])

\* bytes_sent and bytes_received advance only after write_all returned: they
\* are exact between writes and never ahead of what was passed on.
CountersExact ==
    \A p \in Peers :
        /\ counted[p] + batch[p] = Len(out[p]) + Len(held[p])
        /\ batch[p] >= Len(held[p])
        /\ (pc[p] = "write") <=> (held[p] # <<>>)
        /\ (held[p] = <<>>) <=> (batch[p] = 0)

\* The half that reads p reached the end of p's stream and passed on all of it.
Drained(p) == pc[p] = "done" /\ peer[p] # "open" /\ out[p] = Stream(sent[p])

\* set_closed is reached only with one direction complete to its end, and the
\* other one too unless the linger sleep ran out.  set_error is reached only
\* when a peer is gone, or a half could not move for the whole of its timeout:
\* a late poll never turns waiting data into a timeout.
EndsForAReason ==
    /\ relay = "closed" =>
           \E p \in Peers : Drained(p) /\ (Drained(Other(p)) \/ linger_timeout = 0)
    /\ relay = "error" =>
           \E p \in Peers : \/ peer[p] = "reset"
                            \/ timer[p] = 0 /\ pc[p] # "done" /\ Blocked(p)

\* The select loop's flags and its linger sleep stay in step: the sleep runs
\* exactly while one half is over, and the loop never spins with both over.
LingerArmed ==
    relay = "running" =>
        /\ (linger_timeout # NoTimer) <=> (\E p \in Peers : pc[p] = "done")
        /\ \E p \in Peers : pc[p] # "done"

\* A relay whose peers fall silent (MaxSent bounds what they send), stop
\* reading, half-close or vanish ends all the same: no wait is without a timeout.
RelayEnds == <>(relay # "running")

\* relay_data as seen by its peers implements the abstract byte tunnel.
Tunnel == INSTANCE ByteTunnel WITH
    finished <- {p \in Peers : peer[p] # "open"},
    received <- out,
    ended <- {p \in Peers : pc[p] = "done"},
    state <- CASE relay = "running" -> "open" [] relay = "closed" -> "closed"
               [] relay = "error" -> "failed"
ImplementsTunnel == Tunnel!TunnelSpec

\* The comment at the linger sleep: it "prevents truncation of partial
\* responses when one half closes early".  Closed regularly, with neither peer
\* gone, everything the relay was sent should have been passed on.
LingerPreventsTruncation ==
    relay = "closed" /\ (\A p \in Peers : peer[p] # "reset")
        => \A p \in Peers : out[p] = Stream(sent[p])
=============================================================================
