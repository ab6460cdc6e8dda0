----------------------------- MODULE ByteTunnel -----------------------------
(***************************************************************************)
(* What a relayed connection promises its two peers, without sockets,     *)
(* buffers or timers: each direction is a byte stream that is handed over *)
(* in order, without gaps, repetitions or inventions; its end is handed   *)
(* over only after all of it; and the connection is closed regularly only *)
(* after at least one direction ended.  Relay.tla, the model of           *)
(* relay_data, is shown to implement this.                                *)
(***************************************************************************)
EXTENDS Integers, Sequences

CONSTANT Peers

VARIABLES
    sent,       \* sent[p]: how many units peer p has sent; unit i is the number i
    finished,   \* the peers that will send nothing more
    received,   \* received[p]: the units of p's stream the other peer was given
    ended,      \* the peers whose end of stream was passed on
    state       \* "open", "closed" or "failed"

tunnelVars == <<sent, finished, received, ended, state>>

\* The first n units of a stream.
Stream(n) == [i \in 1..n |-> i]

TunnelInit ==
    /\ sent \in [Peers -> Nat]
    /\ finished = {}
    /\ received = [p \in Peers |-> <<>>]
    /\ ended = {}
    /\ state = "open"

Send(p) ==
    /\ p \notin finished
    /\ sent' = [sent EXCEPT ![p] = sent[p] + 1]
    /\ UNCHANGED <<finished, received, ended, state>>

Finish(p) ==
    /\ finished' = finished \union {p}
    /\ UNCHANGED <<sent, received, ended, state>>

\* More of what p sent reaches the other peer, exactly as it was sent.
Deliver(p) ==
    /\ state = "open"
    /\ \E n \in Len(received[p])..sent[p] :
           received' = [received EXCEPT ![p] = Stream(n)]
    /\ UNCHANGED <<sent, finished, ended, state>>

\* The end of p's stream is passed on once all of the stream was; the tunnel
\* may close at that moment.
PassEnd(p) ==
    /\ state = "open"
    /\ p \in finished
    /\ received[p] = Stream(sent[p])
    /\ ended' = ended \union {p}
    /\ state' \in {"open", "closed"}
    /\ UNCHANGED <<sent, finished, received>>

Close ==
    /\ state = "open"
    /\ ended # {}
    /\ state' = "closed"
    /\ UNCHANGED <<sent, finished, received, ended>>

Fail ==
    /\ state = "open"
    /\ state' = "failed"
    /\ UNCHANGED <<sent, finished, received, ended>>

TunnelNext ==
    \/ \E p \in Peers : Send(p) \/ Finish(p) \/ Deliver(p) \/ PassEnd(p)
    \/ Close
    \/ Fail

TunnelSpec == TunnelInit /\ [][TunnelNext]_tunnelVars
=============================================================================
