---------------------------- MODULE ProxyServer ----------------------------
(***************************************************************************)
(* The accept loop and handle_connection of proxy_server.rs: permits, the *)
(* life of each connection from accept to the release of its permit, the  *)
(* background exe lookup, and what they write into the connection table   *)
(* while the traffic window takes snapshots of it.  What happens inside   *)
(* the handshake is Handshake.tla, inside the relay Relay.tla.            *)
(***************************************************************************)
EXTENDS ConnectionTracker

CONSTANTS
    Conns,              \* connection attempts
    MaxPermits,         \* MAX_CONNECTIONS of proxy_server.rs
    HandshakeTimeout    \* HANDSHAKE_TIMEOUT, in ticks

ASSUME ServerAssumption ==
    /\ IsFiniteSet(Conns) /\ Cardinality(Conns) <= MaxId
    /\ MaxPermits \in Nat \ {0}
    /\ HandshakeTimeout \in Nat

VARIABLES
    permits,    \* available permits of the semaphore
    phase,      \* where each connection's task is
    conn_id,    \* the id register gave it, 0 before
    hs_timer,   \* ticks left of the handshake's timeout
    lookup      \* where its exe lookup task is

serverVars == <<permits, phase, conn_id, hs_timer, lookup>>
vars == <<trackerVars, serverVars>>

Recording == {"protocol", "target", "proxy", "connected"}
HoldsPermit == {"spawned", "registering", "handshake", "relay", "ending"} \union Recording
Phases == {"new", "rejected", "finished"} \union HoldsPermit

Init ==
    /\ TrackerInit
    /\ permits = MaxPermits
    /\ phase = [c \in Conns |-> "new"]
    /\ conn_id = [c \in Conns |-> 0]
    /\ hs_timer = [c \in Conns |-> HandshakeTimeout]
    /\ lookup = [c \in Conns |-> "none"]

Goes(c, from, to) == phase[c] = from /\ phase' = [phase EXCEPT ![c] = to]

-----------------------------------------------------------------------------
(* run: one accepted socket at a time.                                     *)

Accept(c) ==
    /\ permits > 0
    /\ Goes(c, "new", "spawned")
    /\ permits' = permits - 1
    /\ UNCHANGED <<trackerVars, conn_id, hs_timer, lookup>>

\* Slip: the rejected connection gives back a permit it never had.
Reject_ReleasesPermit(c) ==
    /\ permits = 0
    /\ Goes(c, "new", "rejected")
    /\ permits' = permits + 1
    /\ UNCHANGED <<trackerVars, conn_id, hs_timer, lookup>>

Reject(c) ==
    /\ permits = 0
    /\ Goes(c, "new", "rejected")
    /\ UNCHANGED <<trackerVars, permits, conn_id, hs_timer, lookup>>

-----------------------------------------------------------------------------
(* handle_connection.                                                      *)

RegisterTakesId(c) ==
    /\ Goes(c, "spawned", "registering")
    /\ conn_id' = [conn_id EXCEPT ![c] = next_id]
    /\ TakeId
    /\ UNCHANGED <<permits, hs_timer, lookup>>

\* register returns; the lookup task is spawned and the handshake begins.
RegisterInserts(c) ==
    /\ Goes(c, "registering", "handshake")
    /\ Insert(conn_id[c])
    /\ lookup' = [lookup EXCEPT ![c] = "first"]
    /\ UNCHANGED <<permits, conn_id, hs_timer>>

\* Slip: the row is marked connected before it is described.
HandshakeOk_ConnectedFirst(c) ==
    /\ Goes(c, "handshake", "connected")
    /\ UNCHANGED <<trackerVars, permits, conn_id, hs_timer, lookup>>

HandshakeOk(c) ==
    /\ Goes(c, "handshake", "protocol")
    /\ UNCHANGED <<trackerVars, permits, conn_id, hs_timer, lookup>>

HandshakeFails(c) ==
    /\ Goes(c, "handshake", "ending")
    /\ SetError(conn_id[c])
    /\ UNCHANGED <<permits, conn_id, hs_timer, lookup>>

\* Slip: its row is taken out of the map, behind the tracker's back.
HandshakeTimesOut_RemovesRow(c) ==
    /\ hs_timer[c] = 0
    /\ Goes(c, "handshake", "ending")
    /\ connections' = OnlyRows(DOMAIN connections \ {conn_id[c]})
    /\ UNCHANGED <<order, next_id, registering, snapshot_count, permits, conn_id, hs_timer, lookup>>

\* Slip: a handshake without a timeout.
HandshakeTimesOut_Never(c) == FALSE /\ HandshakeFails(c)

HandshakeTimesOut(c) ==
    /\ hs_timer[c] = 0
    /\ Goes(c, "handshake", "ending")
    /\ SetError(conn_id[c])
    /\ UNCHANGED <<permits, conn_id, hs_timer, lookup>>

\* Four locked sections one after the other: the window may look in between.
Record(c) ==
    /\ \/ Goes(c, "protocol", "target") /\ SetProxyProtocol(conn_id[c])
       \/ Goes(c, "target", "proxy") /\ SetOutboundTarget(conn_id[c])
       \/ Goes(c, "proxy", "connected") /\ SetProxy(conn_id[c])
       \/ Goes(c, "connected", "relay") /\ SetConnected(conn_id[c])
    /\ UNCHANGED <<permits, conn_id, hs_timer, lookup>>

\* Slip: the end of the relay is not recorded.
RelayEnds_Unrecorded(c) ==
    /\ Goes(c, "relay", "ending")
    /\ UNCHANGED <<trackerVars, permits, conn_id, hs_timer, lookup>>

\* relay_data returns: closed, or failed (see Relay).
RelayEnds(c) ==
    /\ Goes(c, "relay", "ending")
    /\ SetClosed(conn_id[c]) \/ SetError(conn_id[c])
    /\ UNCHANGED <<permits, conn_id, hs_timer, lookup>>

\* exe_resolver.remove, then the task's future is dropped with its permit.
Finish(c) ==
    /\ Goes(c, "ending", "finished")
    /\ permits' = permits + 1
    /\ UNCHANGED <<trackerVars, conn_id, hs_timer, lookup>>

-----------------------------------------------------------------------------
(* The exe lookup task: it outlives the connection when the lookup is slow.*)

\* Slip: the lookup writes back the row it saw when it was spawned.
LookupFinds_StaleCopy(c) ==
    /\ lookup[c] \in {"first", "retry"}
    /\ lookup' = [lookup EXCEPT ![c] = "done"]
    /\ Modify(conn_id[c], [NewRow EXCEPT !.exe_name = "known"])
    /\ UNCHANGED <<permits, phase, conn_id, hs_timer>>

LookupFinds(c) ==
    /\ lookup[c] \in {"first", "retry"}
    /\ lookup' = [lookup EXCEPT ![c] = "done"]
    /\ SetExeName(conn_id[c])
    /\ UNCHANGED <<permits, phase, conn_id, hs_timer>>

LookupMisses(c) ==
    /\ lookup[c] \in {"first", "retry"}
    /\ lookup' = [lookup EXCEPT ![c] = IF lookup[c] = "first" THEN "retry" ELSE "done"]
    /\ UNCHANGED <<trackerVars, permits, phase, conn_id, hs_timer>>

-----------------------------------------------------------------------------
\* The traffic window's tick.
WindowSnapshot == Snapshot /\ UNCHANGED serverVars

Tick ==
    /\ TrackerTick
    /\ hs_timer' = [c \in Conns |-> IF phase[c] = "handshake" /\ hs_timer[c] > 0
                                      THEN hs_timer[c] - 1 ELSE hs_timer[c]]
    /\ UNCHANGED <<permits, phase, conn_id, lookup>>

\* What the runtime does by itself, whatever the peers do.
Task(c) ==
    \/ RegisterTakesId(c) \/ RegisterInserts(c) \/ HandshakeTimesOut(c)
    \/ Record(c) \/ RelayEnds(c) \/ Finish(c)

Next ==
    \/ \E c \in Conns : \/ Accept(c) \/ Reject(c) \/ Task(c)
                        \/ HandshakeOk(c) \/ HandshakeFails(c)
                        \/ LookupFinds(c) \/ LookupMisses(c)
    \/ WindowSnapshot
    \/ Tick

\* A ready task is polled, the clock runs, the window is open and ticks.  That
\* RelayEnds is owed to nobody's good will is Relay's property of that name.
Fairness ==
    /\ \A c \in Conns : WF_vars(Task(c))
    /\ WF_vars(Tick)
    /\ WF_vars(WindowSnapshot)

Spec == Init /\ [][Next]_vars
FairSpec == Spec /\ Fairness

-----------------------------------------------------------------------------
(* Properties.                                                             *)

\* Type invariant of the server's part of the state.
ServerTypeOK ==
    /\ permits \in 0..MaxPermits
    /\ phase \in [Conns -> Phases]
    /\ conn_id \in [Conns -> 0..MaxId]
    /\ hs_timer \in [Conns -> 0..HandshakeTimeout]
    /\ lookup \in [Conns -> {"none", "first", "retry", "done"}]

Holders == {c \in Conns : phase[c] \in HoldsPermit}

\* The semaphore bounds the work: every permit is held by exactly one running
\* handle_connection, and every row shown as alive belongs to one of those.
LiveRowsHoldPermits ==
    /\ permits + Cardinality(Holders) = MaxPermits
    /\ \A id \in DOMAIN connections :
           connections[id].status \in Live => \E c \in Holders : conn_id[c] = id

\* As long as a row is in the table its status is that of its connection.
StatusFollowsPhase ==
    \A c \in Conns : conn_id[c] \in DOMAIN connections =>
        LET row == connections[conn_id[c]] IN
        CASE phase[c] \in {"handshake"} \union Recording -> row.status = "connecting"
          [] phase[c] = "relay" -> row.status = "connected"
          [] phase[c] \in {"ending", "finished"} -> row.status \in Terminal /\ row.closed_at # NotClosed

\* A row is shown as connected, or as regularly closed, only with its protocol,
\* target and proxy filled in: the order of the four sections in Record.
ConnectedRowsDescribed ==
    \A id \in DOMAIN connections :
        connections[id].status \in {"connected", "closed"} =>
            /\ connections[id].proxy_protocol = "known"
            /\ connections[id].outbound_target = "known"
            /\ connections[id].proxy = "known"

\* A row tells the truth about its connection, although the lookup task writes
\* the same row, a snapshot may fall between any two sections, and none of the
\* three synchronises with another.
RowsTellTheTruth == StatusFollowsPhase /\ ConnectedRowsDescribed

\* A row that was closed or failed stays so, and its retention never restarts.
TerminalStatusIsFinal ==
    [][\A id \in DOMAIN connections \intersect DOMAIN connections' :
           connections[id].status \in Terminal =>
               /\ connections'[id].status = connections[id].status
               /\ connections'[id].closed_at >= connections[id].closed_at
      ]_vars

\* The server uses the table only through the tracker's operations, so that
\* all that holds of the tracker alone holds in the server.
ImplementsTracker == TrackerSpec

\* Every accepted connection ends and gives its permit back, whatever its
\* client, its proxy and its target do.
PermitsReturn == \A c \in Conns : phase[c] = "spawned" ~> phase[c] = "finished"

\* While the traffic window ticks, every ended connection leaves the table.
ClosedRowsLeave ==
    \A c \in Conns : phase[c] = "finished" ~> conn_id[c] \notin DOMAIN connections
=============================================================================
