---------------------------- MODULE ServerProofs ----------------------------
(***************************************************************************)
(* Proofs about ProxyServer, for any number of connections and permits and *)
(* any size of the table: the server is a caller that ConnectionTracker    *)
(* allows, so that what TrackerProofs shows holds here too; permits are    *)
(* accounted for, and every row tells the truth about its connection.      *)
(***************************************************************************)
EXTENDS ProxyServer, TrackerProofs

\* The phases in which register has returned an id.
Registered == {"handshake", "relay", "ending", "finished"} \union Recording
Described == {"relay", "ending", "finished"}

\* Ids belong to one connection each, and every row to one of them.
Linked ==
    /\ \A c \in Conns : phase[c] = "registering" => conn_id[c] \in registering
    /\ \A c \in Conns : phase[c] \in Registered => conn_id[c] \in Issued
    /\ \A c \in Conns : phase[c] \in {"new", "rejected", "spawned"} => conn_id[c] = 0
    /\ \A c \in Conns : lookup[c] # "none" => phase[c] \in Registered
    /\ \A c, d \in Conns : conn_id[c] = conn_id[d] => c = d \/ conn_id[c] = 0
    /\ \A id \in DOMAIN connections : \E c \in Conns : conn_id[c] = id

\* How far a row is filled in when its connection is in a phase.
RowFits(row, at) ==
    /\ at \in {"handshake"} \union Recording => row.status = "connecting"
    /\ at = "relay" => row.status = "connected"
    /\ at \in {"ending", "finished"} => row.status \in Terminal /\ row.closed_at # NotClosed
    /\ at \in {"target", "proxy", "connected", "relay"} => row.proxy_protocol = "known"
    /\ at \in {"proxy", "connected", "relay"} => row.outbound_target = "known"
    /\ at \in {"connected", "relay"} => row.proxy = "known"
    /\ at \in {"ending", "finished"} /\ row.status = "closed" =>
           row.proxy_protocol = "known" /\ row.outbound_target = "known" /\ row.proxy = "known"

RowsFit ==
    \A c \in Conns : conn_id[c] \in DOMAIN connections => RowFits(connections[conn_id[c]], phase[c])

PermitsHeld == permits \in Nat /\ permits + Cardinality(Holders) = MaxPermits

ServerTypes ==
    /\ phase \in [Conns -> Phases]
    /\ conn_id \in [Conns -> 0..MaxId]
    /\ hs_timer \in [Conns -> 0..HandshakeTimeout]
    /\ lookup \in [Conns -> {"none", "first", "retry", "done"}]

\* The inductive invariant.  Whose row a setter changes is known from Linked,
\* and what it finds there from RowsFit.
SInv == TInv /\ ServerTypes /\ Linked /\ RowsFit /\ PermitsHeld

-----------------------------------------------------------------------------
\* Every action of the server is an operation of the tracker, or none.
LEMMA ServerStepIsTrackerStep ==
    ASSUME Linked, [Next]_vars
    PROVE  [TrackerNext]_trackerVars
<1>1. ASSUME NEW c \in Conns, phase[c] \in Registered, Setter(conn_id[c])
      PROVE  TrackerNext
    BY <1>1 DEF Linked, TrackerNext
<1>2. ASSUME NEW c \in Conns, Accept(c) \/ Reject(c) \/ HandshakeOk(c) \/ Finish(c) \/ LookupMisses(c)
      PROVE  UNCHANGED trackerVars
    BY <1>2 DEF Accept, Reject, HandshakeOk, Finish, LookupMisses
<1>3. ASSUME NEW c \in Conns, RegisterTakesId(c)
      PROVE  TrackerNext
    BY <1>3 DEF RegisterTakesId, TrackerNext
<1>4. ASSUME NEW c \in Conns, RegisterInserts(c)
      PROVE  TrackerNext
    <2>1. Insert(conn_id[c]) /\ conn_id[c] \in registering
        BY <1>4 DEF RegisterInserts, Insert
    <2> QED BY <2>1 DEF TrackerNext
<1>5. ASSUME NEW c \in Conns, HandshakeFails(c) \/ HandshakeTimesOut(c)
      PROVE  TrackerNext
    <2>1. phase[c] \in Registered /\ SetError(conn_id[c])
        BY <1>5 DEF HandshakeFails, HandshakeTimesOut, Goes, Registered
    <2> QED BY <1>1, <2>1 DEF Setter
<1>6. ASSUME NEW c \in Conns, Record(c)
      PROVE  TrackerNext
    <2>1. /\ phase[c] \in Registered
          /\ \/ SetProxyProtocol(conn_id[c]) \/ SetOutboundTarget(conn_id[c])
             \/ SetProxy(conn_id[c]) \/ SetConnected(conn_id[c])
        BY <1>6 DEF Record, Goes, Registered, Recording
    <2> QED BY <1>1, <2>1 DEF Setter
<1>7. ASSUME NEW c \in Conns, RelayEnds(c)
      PROVE  TrackerNext
    <2>1. phase[c] \in Registered /\ (SetClosed(conn_id[c]) \/ SetError(conn_id[c]))
        BY <1>7 DEF RelayEnds, Goes, Registered
    <2> QED BY <1>1, <2>1 DEF Setter
<1>8. ASSUME NEW c \in Conns, LookupFinds(c)
      PROVE  TrackerNext
    <2>1. phase[c] \in Registered /\ SetExeName(conn_id[c])
        BY <1>8 DEF LookupFinds, Linked
    <2> QED BY <1>1, <2>1 DEF Setter
<1>9. CASE WindowSnapshot \/ Tick
    BY <1>9 DEF WindowSnapshot, Tick, TrackerNext
<1>10. CASE UNCHANGED vars
    BY <1>10 DEF vars
<1> QED BY <1>2, <1>3, <1>4, <1>5, <1>6, <1>7, <1>8, <1>9, <1>10 DEF Next, Task

\* The state of the server at the start.
LEMMA ServerInitInv == Init => SInv
<1> SUFFICES ASSUME Init PROVE SInv
    OBVIOUS
<1>1. TInv
    BY TrackerInitInv DEF Init
<1>2. /\ MaxPermits \in Nat \ {0} /\ HandshakeTimeout \in Nat /\ MaxId \in Nat
      /\ DOMAIN connections = {}
    BY ServerAssumption, TrackerAssumption DEF Init, TrackerInit
<1>3. ServerTypes
    BY <1>2 DEF Init, ServerTypes, Phases
<1>4. Linked /\ RowsFit
    BY <1>2 DEF Init, Linked, RowsFit, Registered, Recording
<1>5. PermitsHeld
    <2>1. Holders = {}
        BY DEF Init, Holders, HoldsPermit, Recording
    <2>2. Cardinality(Holders) = 0
        BY <2>1, FS_EmptySet
    <2> QED BY <1>2, <2>2 DEF PermitsHeld, Init
<1> QED BY <1>1, <1>3, <1>4, <1>5 DEF SInv

-----------------------------------------------------------------------------
\* A connection's own task, or its lookup, changes its row and nobody else's.
\* What a closed row says of its end is not touched any more.
Own(c, to, row) ==
    /\ phase[c] \in Registered /\ to \in Registered
    /\ phase' = [phase EXCEPT ![c] = to]
    /\ to = phase[c] \/ {phase[c], to} \subseteq HoldsPermit
    /\ Modify(conn_id[c], row)
    /\ UNCHANGED <<permits, conn_id, hs_timer>>
    /\ \/ lookup' = lookup
       \/ lookup[c] # "none" /\ lookup' = [lookup EXCEPT ![c] = "done"]
    /\ conn_id[c] \in DOMAIN connections =>
           LET old == connections[conn_id[c]] IN
           /\ RowFits(row, to)
           /\ old.status \in Terminal => row.status = old.status /\ row.closed_at = old.closed_at

LEMMA SettersOwn ==
    ASSUME SInv, NEW c \in Conns,
           \/ HandshakeFails(c) \/ HandshakeTimesOut(c) \/ Record(c)
           \/ RelayEnds(c) \/ LookupFinds(c)
    PROVE  \E to \in Registered : \E row \in Row : Own(c, to, row)
<1> DEFINE id == conn_id[c]
           old == Clone(id)
<1>1. /\ old \in Row /\ 0 \in 0..Retention
      /\ id \in DOMAIN connections => old = connections[id] /\ RowFits(old, phase[c])
    <2>1. Clone(id) \in Row
        BY RowsStayRows DEF SInv, TInv
    <2> QED BY <2>1, TrackerAssumption DEF Clone, SInv, RowsFit
<1>2. phase \in [Conns -> Phases]
    BY DEF SInv, ServerTypes
<1> HIDE DEF old
<1>3. CASE HandshakeFails(c) \/ HandshakeTimesOut(c)
    <2> DEFINE row == [old EXCEPT !.status = "error", !.closed_at = 0]
    <2>1. /\ phase[c] = "handshake" /\ phase' = [phase EXCEPT ![c] = "ending"]
          /\ Modify(id, row) /\ UNCHANGED <<permits, conn_id, hs_timer, lookup>>
        BY <1>3 DEF HandshakeFails, HandshakeTimesOut, Goes, SetError, old
    <2>2. row \in Row /\ row.status = "error" /\ row.closed_at = 0
        BY <1>1 DEF Row, Terminal
    <2>3. RowFits(row, "ending")
        BY <2>2 DEF RowFits, Recording, Terminal, NotClosed
    <2>4. id \in DOMAIN connections => connections[id].status \notin Terminal
        BY <1>1, <2>1 DEF RowFits, Recording, Terminal
    <2> HIDE DEF row
    <2>5. Own(c, "ending", row)
        BY <2>1, <2>3, <2>4 DEF Own, Registered, HoldsPermit
    <2> QED BY <2>2, <2>5 DEF Registered
<1>4. CASE RelayEnds(c)
    <2>1. /\ phase[c] = "relay" /\ phase' = [phase EXCEPT ![c] = "ending"]
          /\ UNCHANGED <<permits, conn_id, hs_timer, lookup>>
        BY <1>4 DEF RelayEnds, Goes
    <2>2. PICK end \in Terminal : Modify(id, [old EXCEPT !.status = end, !.closed_at = 0])
        BY <1>4 DEF RelayEnds, SetClosed, SetError, Terminal, old
    <2> DEFINE row == [old EXCEPT !.status = end, !.closed_at = 0]
    <2>3. row \in Row /\ row.status = end /\ row.closed_at = 0
        BY <1>1 DEF Row
    <2>4. /\ row.proxy = old.proxy /\ row.outbound_target = old.outbound_target
          /\ row.proxy_protocol = old.proxy_protocol
        BY <1>1 DEF Row
    <2>5. id \in DOMAIN connections => RowFits(row, "ending")
        BY <1>1, <2>1, <2>3, <2>4 DEF RowFits, Recording, Terminal, NotClosed
    <2>6. id \in DOMAIN connections => connections[id].status \notin Terminal
        BY <1>1, <2>1 DEF RowFits, Recording, Terminal
    <2>7. Modify(id, row)
        BY <2>2
    <2> HIDE DEF row
    <2>8. Own(c, "ending", row)
        BY <2>1, <2>5, <2>6, <2>7 DEF Own, Registered, HoldsPermit
    <2> QED BY <2>3, <2>8 DEF Registered
<1>5. CASE Record(c)
    <2>1. UNCHANGED <<permits, conn_id, hs_timer, lookup>>
        BY <1>5 DEF Record
    <2>2. CASE Goes(c, "protocol", "target") /\ SetProxyProtocol(id)
        <3> DEFINE row == [old EXCEPT !.proxy_protocol = "known"]
        <3>1. row \in Row /\ row.status = old.status /\ row.proxy_protocol = "known"
            BY <1>1 DEF Row
        <3>2. id \in DOMAIN connections =>
                  RowFits(row, "target") /\ connections[id].status \notin Terminal
            BY <1>1, <2>2, <3>1 DEF RowFits, Goes, Recording, Terminal
        <3>3. Modify(id, row)
            BY <2>2 DEF SetProxyProtocol, old
        <3> HIDE DEF row
        <3>4. Own(c, "target", row)
            BY <2>1, <2>2, <3>2, <3>3 DEF Own, Goes, Registered, Recording, HoldsPermit
        <3> QED BY <3>1, <3>4 DEF Registered, Recording
    <2>3. CASE Goes(c, "target", "proxy") /\ SetOutboundTarget(id)
        <3> DEFINE row == [old EXCEPT !.outbound_target = "known"]
        <3>1. row \in Row /\ row.status = old.status /\ row.outbound_target = "known"
              /\ row.proxy_protocol = old.proxy_protocol
            BY <1>1 DEF Row
        <3>2. id \in DOMAIN connections =>
                  RowFits(row, "proxy") /\ connections[id].status \notin Terminal
            BY <1>1, <2>3, <3>1 DEF RowFits, Goes, Recording, Terminal
        <3>3. Modify(id, row)
            BY <2>3 DEF SetOutboundTarget, old
        <3> HIDE DEF row
        <3>4. Own(c, "proxy", row)
            BY <2>1, <2>3, <3>2, <3>3 DEF Own, Goes, Registered, Recording, HoldsPermit
        <3> QED BY <3>1, <3>4 DEF Registered, Recording
    <2>4. CASE Goes(c, "proxy", "connected") /\ SetProxy(id)
        <3> DEFINE row == [old EXCEPT !.proxy = "known"]
        <3>1. row \in Row /\ row.status = old.status /\ row.proxy = "known"
              /\ row.proxy_protocol = old.proxy_protocol
              /\ row.outbound_target = old.outbound_target
            BY <1>1 DEF Row
        <3>2. id \in DOMAIN connections =>
                  RowFits(row, "connected") /\ connections[id].status \notin Terminal
            BY <1>1, <2>4, <3>1 DEF RowFits, Goes, Recording, Terminal
        <3>3. Modify(id, row)
            BY <2>4 DEF SetProxy, old
        <3> HIDE DEF row
        <3>4. Own(c, "connected", row)
            BY <2>1, <2>4, <3>2, <3>3 DEF Own, Goes, Registered, Recording, HoldsPermit
        <3> QED BY <3>1, <3>4 DEF Registered, Recording
    <2>5. CASE Goes(c, "connected", "relay") /\ SetConnected(id)
        <3> DEFINE row == [old EXCEPT !.status = "connected"]
        <3>1. row \in Row /\ row.status = "connected" /\ row.proxy = old.proxy
              /\ row.proxy_protocol = old.proxy_protocol
              /\ row.outbound_target = old.outbound_target
            BY <1>1 DEF Row, Live
        <3>2. id \in DOMAIN connections =>
                  RowFits(row, "relay") /\ connections[id].status \notin Terminal
            BY <1>1, <2>5, <3>1 DEF RowFits, Goes, Recording, Terminal
        <3>3. Modify(id, row)
            BY <2>5 DEF SetConnected, old
        <3> HIDE DEF row
        <3>4. Own(c, "relay", row)
            BY <2>1, <2>5, <3>2, <3>3 DEF Own, Goes, Registered, Recording, HoldsPermit
        <3> QED BY <3>1, <3>4 DEF Registered
    <2> QED BY <1>5, <2>2, <2>3, <2>4, <2>5 DEF Record
<1>6. CASE LookupFinds(c)
    <2> DEFINE row == [old EXCEPT !.exe_name = "known"]
    <2>1. /\ lookup[c] # "none" /\ lookup' = [lookup EXCEPT ![c] = "done"]
          /\ Modify(id, row) /\ UNCHANGED <<permits, phase, conn_id, hs_timer>>
        BY <1>6 DEF LookupFinds, SetExeName, old
    <2>2. phase[c] \in Registered /\ phase' = [phase EXCEPT ![c] = phase[c]]
        BY <1>2, <2>1 DEF SInv, Linked
    <2>3. /\ row \in Row /\ row.status = old.status /\ row.closed_at = old.closed_at
          /\ row.proxy = old.proxy /\ row.proxy_protocol = old.proxy_protocol
          /\ row.outbound_target = old.outbound_target
        BY <1>1 DEF Row
    <2>4. id \in DOMAIN connections =>
              /\ RowFits(row, phase[c])
              /\ row.status = connections[id].status /\ row.closed_at = connections[id].closed_at
        BY <1>1, <2>3 DEF RowFits
    <2> HIDE DEF row
    <2>5. Own(c, phase[c], row)
        BY <2>1, <2>2, <2>4 DEF Own
    <2> QED BY <2>2, <2>3, <2>5
<1> QED BY <1>3, <1>4, <1>5, <1>6

\* The setters keep every row fitting its connection: the row that changes
\* belongs to c alone.
LEMMA OwnKeepsInv ==
    ASSUME SInv, NEW c \in Conns, NEW to \in Registered, NEW row \in Row, Own(c, to, row)
    PROVE  ServerTypes' /\ Linked' /\ RowsFit' /\ PermitsHeld'
<1>1. /\ phase \in [Conns -> Phases] /\ phase[c] \in Registered
      /\ lookup \in [Conns -> {"none", "first", "retry", "done"}]
      /\ phase' = [phase EXCEPT ![c] = to]
      /\ UNCHANGED <<permits, conn_id, hs_timer>>
    BY DEF SInv, ServerTypes, Own
<1>2. /\ \A d \in Conns : phase'[d] = IF d = c THEN to ELSE phase[d]
      /\ phase' \in [Conns -> Phases]
    BY <1>1 DEF Registered, Recording, Phases, HoldsPermit
<1>3. /\ lookup' \in [Conns -> {"none", "first", "retry", "done"}]
      /\ \A d \in Conns : lookup'[d] # "none" => lookup[d] # "none"
    BY <1>1 DEF Own
<1>4. /\ DOMAIN connections' = DOMAIN connections
      /\ UNCHANGED <<order, next_id, registering, snapshot_count>>
      /\ \A i \in DOMAIN connections : i # conn_id[c] => connections'[i] = connections[i]
      /\ conn_id[c] \in DOMAIN connections => connections'[conn_id[c]] = row
    BY DEF Own, Modify
<1>5. ServerTypes'
    BY <1>1, <1>2, <1>3 DEF SInv, ServerTypes
<1>6. Issued' = Issued
    BY <1>4 DEF Issued
<1>7. Linked'
    <2>1. to \notin {"registering", "new", "rejected", "spawned"}
        BY DEF Registered, Recording
    <2>2. \A d \in Conns : /\ phase'[d] \in Registered => phase[d] \in Registered
                           /\ phase[d] \in Registered => phase'[d] \in Registered
        BY <1>1, <1>2
    <2> QED BY <1>1, <1>2, <1>3, <1>4, <1>6, <2>1, <2>2 DEF SInv, Linked
<1>8. RowsFit'
    <2>1. SUFFICES ASSUME NEW d \in Conns, conn_id[d] \in DOMAIN connections
                   PROVE  RowFits(connections'[conn_id[d]], phase'[d])
        BY <1>1, <1>4 DEF RowsFit
    <2>2. CASE d = c
        BY <1>2, <1>4, <2>1, <2>2 DEF Own
    <2>3. CASE d # c
        <3>1. conn_id[d] # 0
            BY <2>1 DEF SInv, TInv, TrackerTypeOK
        <3>2. conn_id[d] # conn_id[c]
            BY <2>3, <3>1 DEF SInv, Linked
        <3> QED BY <1>2, <1>4, <2>1, <2>3, <3>2 DEF SInv, RowsFit
    <2> QED BY <2>2, <2>3
<1>9. PermitsHeld'
    <2>1. Holders' = Holders
        BY <1>1, <1>2 DEF Own, Holders
    <2> QED BY <1>1, <2>1 DEF SInv, PermitsHeld
<1> QED BY <1>5, <1>7, <1>8, <1>9

\* The connections that hold a permit are finitely many, and one more or one
\* less when one of them is spawned or ends.
LEMMA HoldersCount ==
    ASSUME NEW S \in SUBSET Conns, NEW c \in Conns
    PROVE  /\ IsFiniteSet(S) /\ Cardinality(S) \in Nat
           /\ c \notin S => Cardinality(S \union {c}) = Cardinality(S) + 1
           /\ c \in S => Cardinality(S \ {c}) = Cardinality(S) - 1
<1>1. IsFiniteSet(S)
    BY ServerAssumption, FS_Subset
<1> QED BY <1>1, FS_CardinalityType, FS_AddElement, FS_RemoveElement

\* What does not touch the table: a phase that goes on, from accept to the
\* release of the permit.
LEMMA PhaseOnlyKeepsInv ==
    ASSUME SInv, NEW c \in Conns,
           Accept(c) \/ Reject(c) \/ HandshakeOk(c) \/ Finish(c) \/ LookupMisses(c)
    PROVE  ServerTypes' /\ Linked' /\ RowsFit' /\ PermitsHeld'
<1>1. /\ phase \in [Conns -> Phases] /\ permits \in Nat
      /\ permits + Cardinality(Holders) = MaxPermits
      /\ lookup \in [Conns -> {"none", "first", "retry", "done"}]
      /\ UNCHANGED <<trackerVars, conn_id, hs_timer>>
    BY DEF SInv, ServerTypes, PermitsHeld, Accept, Reject, HandshakeOk, Finish, LookupMisses
<1>2. PICK to \in Phases :
          /\ phase' = [phase EXCEPT ![c] = to]
          /\ \/ phase[c] = "new" /\ to \in {"spawned", "rejected"}
             \/ phase[c] = "handshake" /\ to = "protocol"
             \/ phase[c] = "ending" /\ to = "finished"
             \/ to = phase[c]
    BY <1>1 DEF Accept, Reject, HandshakeOk, Finish, LookupMisses, Goes, Phases, HoldsPermit, Recording
<1>3. /\ phase' \in [Conns -> Phases]
      /\ \A d \in Conns : phase'[d] = IF d = c THEN to ELSE phase[d]
    BY <1>1, <1>2
<1>4. /\ lookup' \in [Conns -> {"none", "first", "retry", "done"}]
      /\ \A d \in Conns : lookup'[d] # "none" => lookup[d] # "none"
    BY <1>1 DEF Accept, Reject, HandshakeOk, Finish, LookupMisses
<1>5. ServerTypes'
    BY <1>1, <1>3, <1>4 DEF SInv, ServerTypes
<1>6. Linked'
    <2>1. /\ connections' = connections /\ registering' = registering /\ Issued' = Issued
          /\ conn_id' = conn_id
        BY <1>1 DEF trackerVars, Issued
    <2>2. \A d \in Conns :
              /\ phase'[d] \in Registered <=> phase[d] \in Registered
              /\ phase'[d] = "registering" <=> phase[d] = "registering"
              /\ phase'[d] \in {"new", "rejected", "spawned"} => phase[d] \in {"new", "rejected", "spawned"}
        BY <1>2, <1>3 DEF Registered, Recording
    <2> QED BY <1>4, <2>1, <2>2 DEF SInv, Linked
<1>7. RowsFit'
    <2>1. SUFFICES ASSUME NEW d \in Conns, conn_id[d] \in DOMAIN connections
                   PROVE  RowFits(connections[conn_id[d]], phase'[d])
        BY <1>1 DEF RowsFit, trackerVars
    <2>2. RowFits(connections[conn_id[d]], phase[d])
        BY <2>1 DEF SInv, RowsFit
    <2>3. CASE d # c \/ to = phase[c]
        BY <1>3, <2>2, <2>3
    <2>4. CASE d = c /\ phase[c] = "new"
        BY <2>1, <2>4 DEF SInv, Linked, TInv, TrackerTypeOK
    <2>5. CASE d = c /\ phase[c] = "handshake" /\ to = "protocol"
        BY <1>3, <2>2, <2>5 DEF RowFits, Recording
    <2>6. CASE d = c /\ phase[c] = "ending" /\ to = "finished"
        BY <1>3, <2>2, <2>6 DEF RowFits, Recording
    <2> QED BY <1>2, <2>3, <2>4, <2>5, <2>6
<1>8. PermitsHeld'
    <2>1. Holders \in SUBSET Conns /\ MaxPermits \in Nat
        BY ServerAssumption DEF Holders
    <2>2. CASE Accept(c)
        <3>1. /\ permits > 0 /\ permits' = permits - 1
              /\ phase[c] = "new" /\ phase' = [phase EXCEPT ![c] = "spawned"]
            BY <2>2 DEF Accept, Goes
        <3>2. c \notin Holders /\ Holders' = Holders \union {c}
            BY <1>1, <3>1 DEF Holders, HoldsPermit, Recording
        <3> QED BY <1>1, <2>1, <3>1, <3>2, HoldersCount DEF PermitsHeld
    <2>3. CASE Finish(c)
        <3>1. /\ permits' = permits + 1
              /\ phase[c] = "ending" /\ phase' = [phase EXCEPT ![c] = "finished"]
            BY <2>3 DEF Finish, Goes
        <3>2. c \in Holders /\ Holders' = Holders \ {c}
            BY <1>1, <3>1 DEF Holders, HoldsPermit, Recording
        <3>3. Cardinality(Holders') = Cardinality(Holders) - 1 /\ Cardinality(Holders) \in Nat
            BY <2>1, <3>2, HoldersCount
        <3> QED BY <1>1, <2>1, <3>1, <3>3 DEF PermitsHeld
    <2>4. CASE Reject(c) \/ HandshakeOk(c) \/ LookupMisses(c)
        <3>1. /\ permits' = permits
              /\ \/ Goes(c, "new", "rejected") \/ Goes(c, "handshake", "protocol") \/ phase' = phase
            BY <2>4 DEF Reject, HandshakeOk, LookupMisses
        <3>2. Holders' = Holders
            BY <1>1, <3>1 DEF Holders, Goes, HoldsPermit, Recording
        <3> QED BY <1>1, <3>1, <3>2 DEF PermitsHeld
    <2> QED BY <2>2, <2>3, <2>4
<1> QED BY <1>5, <1>6, <1>7, <1>8

\* register: the id is the connection's own before it is in the table.
LEMMA RegisterTakesIdKeepsInv ==
    ASSUME SInv, NEW c \in Conns, RegisterTakesId(c)
    PROVE  ServerTypes' /\ Linked' /\ RowsFit' /\ PermitsHeld'
<1>1. /\ phase \in [Conns -> Phases] /\ phase[c] = "spawned"
      /\ phase' = [phase EXCEPT ![c] = "registering"]
      /\ conn_id \in [Conns -> 0..MaxId] /\ conn_id' = [conn_id EXCEPT ![c] = next_id]
      /\ next_id' = next_id + 1 /\ registering' = registering \union {next_id}
      /\ UNCHANGED <<connections, permits, hs_timer, lookup>>
    BY DEF SInv, ServerTypes, RegisterTakesId, Goes, TakeId
<1>2. next_id \in 1..MaxId /\ registering \subseteq 1..(next_id - 1)
    BY TrackerAssumption DEF SInv, TInv, TrackerTypeOK, RegisterTakesId, TakeId
<1>3. /\ \A d \in Conns : phase'[d] = IF d = c THEN "registering" ELSE phase[d]
      /\ \A d \in Conns : conn_id'[d] = IF d = c THEN next_id ELSE conn_id[d]
      /\ phase' \in [Conns -> Phases] /\ conn_id' \in [Conns -> 0..MaxId]
    <2>1. next_id \in 0..MaxId
        BY <1>2, TrackerAssumption
    <2> QED BY <1>1, <2>1 DEF Phases, HoldsPermit
<1>4. ServerTypes'
    BY <1>1, <1>3 DEF SInv, ServerTypes
<1>5. Issued' = Issued /\ next_id \notin Issued /\ next_id \notin registering
    BY <1>1, <1>2 DEF Issued
<1>6. \A d \in Conns : conn_id[d] # next_id
    <2>1. SUFFICES ASSUME NEW d \in Conns PROVE conn_id[d] # next_id
        OBVIOUS
    <2>2. phase[d] \in Registered \union {"registering", "new", "rejected", "spawned"}
        BY <1>1 DEF Phases, HoldsPermit, Registered, Recording
    <2>3. conn_id[d] \in Issued \/ conn_id[d] \in registering \/ conn_id[d] = 0
        BY <2>2 DEF SInv, Linked
    <2> QED BY <1>2, <1>5, <2>3
<1>7. Linked'
    <2>1. \A d \in Conns : d # c /\ phase[d] = "registering" => conn_id'[d] \in registering'
        BY <1>1, <1>3 DEF SInv, Linked
    <2>2. conn_id'[c] \in registering' /\ phase'[c] = "registering"
        BY <1>1, <1>3
    <2>3. \A d \in Conns : phase'[d] \in Registered =>
              d # c /\ phase[d] \in Registered /\ conn_id'[d] \in Issued'
        BY <1>3, <1>5 DEF SInv, Linked, Registered, Recording
    <2>4. \A d \in Conns : phase'[d] \in {"new", "rejected", "spawned"} => conn_id'[d] = 0
        BY <1>3 DEF SInv, Linked
    <2>5. \A d \in Conns : lookup'[d] # "none" => phase'[d] \in Registered
        BY <1>1, <1>3 DEF SInv, Linked, Registered, Recording
    <2>6. \A d, e \in Conns : conn_id'[d] = conn_id'[e] => d = e \/ conn_id'[d] = 0
        BY <1>3, <1>6 DEF SInv, Linked
    <2>7. \A id \in DOMAIN connections' : \E d \in Conns : conn_id'[d] = id
        <3>1. SUFFICES ASSUME NEW id \in DOMAIN connections
                       PROVE  \E d \in Conns : conn_id'[d] = id
            BY <1>1
        <3>2. PICK d \in Conns : conn_id[d] = id
            BY DEF SInv, Linked
        <3>3. d # c
            BY <1>1, <3>1, <3>2 DEF SInv, Linked, TInv, TrackerTypeOK
        <3> QED BY <1>3, <3>2, <3>3
    <2> QED BY <1>3, <2>1, <2>2, <2>3, <2>4, <2>5, <2>6, <2>7 DEF Linked
<1>8. RowsFit'
    <2>1. next_id \notin DOMAIN connections
        BY <1>5 DEF SInv, TInv, OrderMatchesConnections
    <2> QED BY <1>1, <1>3, <2>1 DEF SInv, RowsFit
<1>9. PermitsHeld'
    <2>1. Holders' = Holders
        BY <1>1, <1>3 DEF Holders, HoldsPermit
    <2> QED BY <1>1, <2>1 DEF SInv, PermitsHeld
<1> QED BY <1>4, <1>7, <1>8, <1>9

\* The insertion drops at most other rows, and adds the connection's.
LEMMA RegisterInsertsKeepsInv ==
    ASSUME SInv, NEW c \in Conns, RegisterInserts(c)
    PROVE  ServerTypes' /\ Linked' /\ RowsFit' /\ PermitsHeld'
<1> DEFINE id == conn_id[c]
<1>1. /\ phase \in [Conns -> Phases] /\ phase[c] = "registering"
      /\ phase' = [phase EXCEPT ![c] = "handshake"]
      /\ lookup \in [Conns -> {"none", "first", "retry", "done"}]
      /\ lookup' = [lookup EXCEPT ![c] = "first"]
      /\ registering' = registering \ {id} /\ id \in registering /\ id \in 1..MaxId
      /\ UNCHANGED <<permits, conn_id, hs_timer, next_id>>
    BY TrackerAssumption DEF SInv, TInv, TrackerTypeOK, ServerTypes, RegisterInserts, Goes, Insert
<1>2. /\ \A d \in Conns : phase'[d] = IF d = c THEN "handshake" ELSE phase[d]
      /\ \A d \in Conns : lookup'[d] = IF d = c THEN "first" ELSE lookup[d]
      /\ phase' \in [Conns -> Phases]
      /\ lookup' \in [Conns -> {"none", "first", "retry", "done"}]
    BY <1>1 DEF Phases, HoldsPermit
<1>3. /\ DOMAIN connections' \subseteq DOMAIN connections \union {id}
      /\ \A i \in DOMAIN connections' : connections'[i] = IF i = id THEN NewRow ELSE connections[i]
    BY DEF RegisterInserts, Insert
<1>4. ServerTypes'
    BY <1>1, <1>2 DEF SInv, ServerTypes
<1>5. Issued' = Issued \union {id}
    <2>1. id \in 1..(next_id - 1)
        BY <1>1 DEF SInv, TInv, TrackerTypeOK
    <2> QED BY <1>1, <2>1 DEF Issued
<1>6. \A d \in Conns : d # c => conn_id[d] # id
    BY <1>1 DEF SInv, Linked
<1>7. Linked'
    <2>1. \A d \in Conns : phase'[d] = "registering" => conn_id'[d] \in registering'
        BY <1>1, <1>2, <1>6 DEF SInv, Linked
    <2>2. \A d \in Conns : phase'[d] \in Registered => conn_id'[d] \in Issued'
        BY <1>1, <1>2, <1>5 DEF SInv, Linked
    <2>3. \A d \in Conns : phase'[d] \in {"new", "rejected", "spawned"} => conn_id'[d] = 0
        BY <1>1, <1>2 DEF SInv, Linked
    <2>4. \A d \in Conns : lookup'[d] # "none" => phase'[d] \in Registered
        BY <1>2 DEF SInv, Linked, Registered
    <2>5. \A d, e \in Conns : conn_id'[d] = conn_id'[e] => d = e \/ conn_id'[d] = 0
        BY <1>1 DEF SInv, Linked
    <2>6. \A i \in DOMAIN connections' : \E d \in Conns : conn_id'[d] = i
        BY <1>1, <1>3 DEF SInv, Linked
    <2> QED BY <2>1, <2>2, <2>3, <2>4, <2>5, <2>6 DEF Linked
<1>8. RowsFit'
    <2>1. SUFFICES ASSUME NEW d \in Conns, conn_id[d] \in DOMAIN connections'
                   PROVE  RowFits(connections'[conn_id[d]], phase'[d])
        BY <1>1 DEF RowsFit
    <2>2. CASE d = c
        <3>1. connections'[conn_id[d]] = NewRow /\ phase'[d] = "handshake"
            BY <1>2, <1>3, <2>1, <2>2
        <3> QED BY <3>1 DEF RowFits, NewRow, Recording
    <2>3. CASE d # c
        BY <1>2, <1>3, <1>6, <2>1, <2>3 DEF SInv, RowsFit
    <2> QED BY <2>2, <2>3
<1>9. PermitsHeld'
    <2>1. Holders' = Holders
        BY <1>1, <1>2 DEF Holders, HoldsPermit
    <2> QED BY <1>1, <2>1 DEF SInv, PermitsHeld
<1> QED BY <1>4, <1>7, <1>8, <1>9

\* The window's snapshot drops rows, and time only makes closed ones older.
LEMMA OthersKeepInv ==
    ASSUME SInv, WindowSnapshot \/ Tick \/ UNCHANGED vars
    PROVE  ServerTypes' /\ Linked' /\ RowsFit' /\ PermitsHeld'
<1>1. /\ UNCHANGED <<permits, phase, conn_id, lookup, next_id, registering>>
      /\ DOMAIN connections' \subseteq DOMAIN connections
      /\ \A i \in DOMAIN connections' :
             connections'[i] = connections[i] \/ connections'[i] = Aged(connections[i])
    BY DEF WindowSnapshot, Snapshot, OnlyRows, Surviving, Tick, TrackerTick, vars, trackerVars, serverVars
<1>2. hs_timer' \in [Conns -> 0..HandshakeTimeout]
    <2>1. hs_timer \in [Conns -> 0..HandshakeTimeout] /\ HandshakeTimeout \in Nat
        BY ServerAssumption DEF SInv, ServerTypes
    <2>2. CASE hs_timer' = hs_timer
        BY <2>1, <2>2
    <2>3. CASE Tick
        BY <2>1, <2>3 DEF Tick
    <2> QED BY <2>2, <2>3 DEF WindowSnapshot, vars, serverVars
<1>3. ServerTypes'
    BY <1>1, <1>2 DEF SInv, ServerTypes
<1>4. Linked'
    BY <1>1 DEF SInv, Linked, Issued
<1>5. \A row \in Row : \A at : RowFits(row, at) => RowFits(Aged(row), at)
    <2>1. SUFFICES ASSUME NEW row \in Row, NEW at, RowFits(row, at)
                   PROVE  RowFits(Aged(row), at)
        OBVIOUS
    <2>2. Retention \in Nat /\ row.closed_at \in {NotClosed} \union 0..Retention
        BY TrackerAssumption DEF Row
    <2>3. CASE row.closed_at \in 0..(Retention - 1)
        <3>1. /\ Aged(row) = [row EXCEPT !.closed_at = row.closed_at + 1]
              /\ row.closed_at + 1 # NotClosed
            BY <2>2, <2>3 DEF Aged, NotClosed
        <3>2. /\ Aged(row).closed_at # NotClosed /\ Aged(row).status = row.status
              /\ Aged(row).proxy = row.proxy /\ Aged(row).proxy_protocol = row.proxy_protocol
              /\ Aged(row).outbound_target = row.outbound_target
            BY <3>1 DEF Row
        <3> QED BY <2>1, <3>2 DEF RowFits
    <2>4. CASE row.closed_at \notin 0..(Retention - 1)
        BY <2>1, <2>4 DEF Aged
    <2> QED BY <2>3, <2>4
<1>6. RowsFit'
    <2>1. \A i \in DOMAIN connections : connections[i] \in Row
        BY DEF SInv, TInv, TrackerTypeOK
    <2> QED BY <1>1, <1>5, <2>1 DEF SInv, RowsFit
<1>7. PermitsHeld'
    BY <1>1 DEF SInv, PermitsHeld, Holders
<1> QED BY <1>3, <1>4, <1>6, <1>7

LEMMA ServerStepInv == SInv /\ [Next]_vars => SInv'
<1> SUFFICES ASSUME SInv, [Next]_vars PROVE SInv'
    OBVIOUS
<1>1. TInv'
    BY ServerStepIsTrackerStep, TrackerStepInv DEF SInv
<1>2. ServerTypes' /\ Linked' /\ RowsFit' /\ PermitsHeld'
    <2>1. ASSUME NEW c \in Conns,
                 \/ HandshakeFails(c) \/ HandshakeTimesOut(c) \/ Record(c)
                 \/ RelayEnds(c) \/ LookupFinds(c)
          PROVE  ServerTypes' /\ Linked' /\ RowsFit' /\ PermitsHeld'
        BY <2>1, SettersOwn, OwnKeepsInv
    <2>2. ASSUME NEW c \in Conns,
                 Accept(c) \/ Reject(c) \/ HandshakeOk(c) \/ Finish(c) \/ LookupMisses(c)
          PROVE  ServerTypes' /\ Linked' /\ RowsFit' /\ PermitsHeld'
        BY <2>2, PhaseOnlyKeepsInv
    <2>3. ASSUME NEW c \in Conns, RegisterTakesId(c) \/ RegisterInserts(c)
          PROVE  ServerTypes' /\ Linked' /\ RowsFit' /\ PermitsHeld'
        BY <2>3, RegisterTakesIdKeepsInv, RegisterInsertsKeepsInv
    <2> QED BY <2>1, <2>2, <2>3, OthersKeepInv DEF Next, Task
<1> QED BY <1>1, <1>2 DEF SInv

\* Permits, phases, ids and rows agree, however tasks, lookups, timeouts and
\* snapshots interleave.
THEOREM ServerInvariant == Spec => []SInv
<1> QED BY ServerInitInv, ServerStepInv, PTL DEF Spec

-----------------------------------------------------------------------------
(* What follows from the invariant.                                        *)

\* The semaphore's count and every connection's bookkeeping keep their types:
\* no permit is given back that was not taken.
THEOREM ServerTypeCorrect == Spec => []ServerTypeOK
<1>1. ASSUME SInv PROVE ServerTypeOK
    <2>1. /\ permits \in Nat /\ permits + Cardinality(Holders) = MaxPermits /\ MaxPermits \in Nat
          /\ Cardinality(Holders) \in Nat
        <3>1. Holders \in SUBSET Conns
            BY DEF Holders
        <3>2. Cardinality(Holders) \in Nat
            BY <3>1, ServerAssumption, FS_Subset, FS_CardinalityType
        <3> QED BY <1>1, <3>2, ServerAssumption DEF SInv, PermitsHeld
    <2>2. permits \in 0..MaxPermits
        BY <2>1
    <2> QED BY <1>1, <2>2 DEF SInv, ServerTypes, ServerTypeOK
<1> QED BY <1>1, ServerInvariant, PTL

\* Every permit is held by one running handle_connection, and every row shown
\* as alive is the row of one of those.
THEOREM PermitsCoverLiveRows == Spec => []LiveRowsHoldPermits
<1>1. ASSUME SInv PROVE LiveRowsHoldPermits
    <2>1. ASSUME NEW id \in DOMAIN connections, connections[id].status \in Live
          PROVE  \E c \in Holders : conn_id[c] = id
        <3>1. PICK c \in Conns : conn_id[c] = id
            BY <1>1 DEF SInv, Linked
        <3>2. id # 0 /\ id \notin registering
            BY <1>1, <2>1 DEF SInv, TInv, TrackerTypeOK, OrderMatchesConnections, Issued
        <3>3. phase[c] \in Registered
            BY <1>1, <3>1, <3>2 DEF SInv, Linked, ServerTypes, Phases, HoldsPermit, Registered, Recording
        <3>4. phase[c] \notin {"ending", "finished"}
            BY <1>1, <2>1, <3>1 DEF SInv, RowsFit, RowFits, Live, Terminal
        <3> QED BY <3>1, <3>3, <3>4 DEF Holders, HoldsPermit, Registered
    <2> QED BY <1>1, <2>1 DEF SInv, PermitsHeld, LiveRowsHoldPermits
<1> QED BY <1>1, ServerInvariant, PTL

\* A row in the table has the status of its connection, and is shown as
\* connected, or as regularly closed, only when it is filled in.
THEOREM RowsAreTruthful == Spec => []RowsTellTheTruth
<1>1. ASSUME SInv PROVE RowsTellTheTruth
    <2>1. ASSUME NEW c \in Conns, conn_id[c] \in DOMAIN connections
          PROVE  /\ phase[c] \in Registered
                 /\ RowFits(connections[conn_id[c]], phase[c])
        <3>1. conn_id[c] # 0 /\ conn_id[c] \notin registering
            BY <1>1, <2>1 DEF SInv, TInv, TrackerTypeOK, OrderMatchesConnections, Issued
        <3>2. phase[c] \in Registered
            BY <1>1, <3>1 DEF SInv, Linked, ServerTypes, Phases, HoldsPermit, Registered, Recording
        <3> QED BY <1>1, <2>1, <3>2 DEF SInv, RowsFit
    <2>2. StatusFollowsPhase
        <3>1. SUFFICES ASSUME NEW c \in Conns, conn_id[c] \in DOMAIN connections
                       PROVE  LET row == connections[conn_id[c]] IN
                              CASE phase[c] \in {"handshake"} \union Recording -> row.status = "connecting"
                                [] phase[c] = "relay" -> row.status = "connected"
                                [] phase[c] \in {"ending", "finished"} ->
                                       row.status \in Terminal /\ row.closed_at # NotClosed
            BY DEF StatusFollowsPhase
        <3>2. /\ phase[c] \in Registered
              /\ RowFits(connections[conn_id[c]], phase[c])
            BY <2>1, <3>1
        <3>3. CASE phase[c] \in {"handshake"} \union Recording
            BY <3>2, <3>3 DEF RowFits, Recording
        <3>4. CASE phase[c] = "relay"
            BY <3>2, <3>4 DEF RowFits, Recording
        <3>5. CASE phase[c] \in {"ending", "finished"}
            BY <3>2, <3>5 DEF RowFits, Recording
        <3> QED BY <3>2, <3>3, <3>4, <3>5 DEF Registered
    <2>3. ConnectedRowsDescribed
        <3>1. SUFFICES ASSUME NEW id \in DOMAIN connections,
                              connections[id].status \in {"connected", "closed"}
                       PROVE  /\ connections[id].proxy_protocol = "known"
                              /\ connections[id].outbound_target = "known"
                              /\ connections[id].proxy = "known"
            BY DEF ConnectedRowsDescribed
        <3>2. PICK c \in Conns : conn_id[c] = id
            BY <1>1 DEF SInv, Linked
        <3>3. phase[c] \in Registered /\ RowFits(connections[id], phase[c])
            BY <2>1, <3>1, <3>2
        <3> QED BY <3>1, <3>3 DEF RowFits, Registered, Recording, Terminal
    <2> QED BY <2>2, <2>3 DEF RowsTellTheTruth
<1> QED BY <1>1, ServerInvariant, PTL

LEMMA TerminalStep ==
    ASSUME SInv, Next,
           NEW id \in DOMAIN connections \intersect DOMAIN connections',
           connections[id].status \in Terminal
    PROVE  /\ connections'[id].status = connections[id].status
           /\ connections'[id].closed_at >= connections[id].closed_at
<1>1. connections[id] \in Row /\ Retention \in Nat
      /\ connections[id].closed_at \in Int
    BY TrackerAssumption DEF SInv, TInv, TrackerTypeOK, Row, NotClosed
<1>2. CASE connections'[id] = connections[id]
    BY <1>1, <1>2
<1>3. ASSUME NEW c \in Conns,
             \/ HandshakeFails(c) \/ HandshakeTimesOut(c) \/ Record(c)
             \/ RelayEnds(c) \/ LookupFinds(c)
      PROVE  /\ connections'[id].status = connections[id].status
             /\ connections'[id].closed_at >= connections[id].closed_at
    <2>1. PICK to \in Registered, row \in Row : Own(c, to, row)
        BY <1>3, SettersOwn
    <2>2. CASE id = conn_id[c]
        BY <1>1, <2>1, <2>2 DEF Own, Modify
    <2>3. CASE id # conn_id[c]
        BY <1>2, <2>1, <2>3 DEF Own, Modify
    <2> QED BY <2>2, <2>3
<1>4. ASSUME NEW c \in Conns,
             \/ Accept(c) \/ Reject(c) \/ HandshakeOk(c) \/ Finish(c) \/ LookupMisses(c)
             \/ RegisterTakesId(c)
      PROVE  connections'[id] = connections[id]
    BY <1>4 DEF Accept, Reject, HandshakeOk, Finish, LookupMisses, RegisterTakesId, TakeId, trackerVars
<1>5. ASSUME NEW c \in Conns, RegisterInserts(c)
      PROVE  connections'[id] = connections[id]
    <2>1. conn_id[c] \in registering /\ id # conn_id[c]
        BY <1>5 DEF SInv, TInv, OrderMatchesConnections, Issued, RegisterInserts, Insert
    <2> QED BY <1>5, <2>1 DEF RegisterInserts, Insert
<1>6. CASE WindowSnapshot
    BY <1>2, <1>6 DEF WindowSnapshot, Snapshot, OnlyRows, Surviving
<1>7. CASE Tick
    <2>1. connections'[id] = Aged(connections[id])
        BY <1>7 DEF Tick, TrackerTick
    <2>2. CASE connections[id].closed_at \in 0..(Retention - 1)
        <3>1. Aged(connections[id]) = [connections[id] EXCEPT !.closed_at = connections[id].closed_at + 1]
            BY <2>2 DEF Aged
        <3>2. /\ Aged(connections[id]).status = connections[id].status
              /\ Aged(connections[id]).closed_at = connections[id].closed_at + 1
            BY <1>1, <3>1 DEF Row
        <3> QED BY <1>1, <2>1, <3>2
    <2>3. CASE connections[id].closed_at \notin 0..(Retention - 1)
        BY <1>2, <2>1, <2>3 DEF Aged
    <2> QED BY <2>2, <2>3
<1> QED BY <1>2, <1>3, <1>4, <1>5, <1>6, <1>7 DEF Next, Task

\* Neither a late lookup, nor a setter of its own connection, nor a snapshot
\* undoes the end of a connection or starts its retention anew.
THEOREM TerminalStatusStays == Spec => TerminalStatusIsFinal
<1>1. ASSUME SInv, [Next]_vars
      PROVE  [\A id \in DOMAIN connections \intersect DOMAIN connections' :
                  connections[id].status \in Terminal =>
                      /\ connections'[id].status = connections[id].status
                      /\ connections'[id].closed_at >= connections[id].closed_at]_vars
    BY <1>1, TerminalStep
<1> QED BY <1>1, ServerInvariant, PTL DEF Spec, TerminalStatusIsFinal

\* The server is one of the callers that ConnectionTracker allows.
THEOREM ServerImplementsTracker == Spec => ImplementsTracker
<1>1. SInv => Linked
    BY DEF SInv
<1>2. ASSUME Linked, [Next]_vars PROVE [TrackerNext]_trackerVars
    BY <1>2, ServerStepIsTrackerStep
<1>3. Init => TrackerInit
    BY DEF Init
<1> QED BY <1>1, <1>2, <1>3, ServerInvariant, PTL DEF Spec, ImplementsTracker, TrackerSpec

\* What TrackerProofs shows of any caller holds of the running server: its table
\* stays within its capacity, loses rows for a reason and for good, and keeps
\* the order that the traffic window's differences rely on.
THEOREM TrackerTheoremsLift ==
    Spec => /\ []OrderMatchesConnections /\ []WithinCapacity
            /\ GoneIsGone /\ RowsLeaveForAReason /\ SurvivorsKeepOrder
<1> QED BY ServerImplementsTracker, OrderStaysInStep, CapacityHolds, GoneStaysGone,
           RowsLeaveOnlyForAReason, SurvivorsStayInOrder, PTL DEF ImplementsTracker
=============================================================================
