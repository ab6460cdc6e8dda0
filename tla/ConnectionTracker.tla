------------------------- MODULE ConnectionTracker -------------------------
(***************************************************************************)
(* ConnectionTracker of connection_tracker.rs: the table behind the       *)
(* traffic window.  connections is the map of rows, order the queue that  *)
(* gives them their place; both are changed under one write lock, so each *)
(* locked section is one action.  Callers are arbitrary here: any setter  *)
(* may be called at any time for any id that register returned.           *)
(***************************************************************************)
EXTENDS Integers, Sequences, FiniteSets

CONSTANTS
    MaxConnections, \* MAX_CONNECTIONS of connection_tracker.rs
    Retention,      \* CLOSED_RETENTION, in ticks
    CleanupEvery,   \* snapshots from one cleanup to the next
    MaxId           \* bound: connections registered in all

ASSUME TrackerAssumption ==
    /\ MaxConnections \in Nat \ {0}
    /\ Retention \in Nat
    /\ CleanupEvery \in Nat \ {0}
    /\ MaxId \in Nat

VARIABLES
    connections,    \* id -> row, for the ids in the table
    order,          \* the ids in the table, oldest insertion first
    next_id,        \* the id the next register takes
    registering,    \* ids taken by a register that has not reached the lock yet
    snapshot_count  \* snapshots so far, modulo CleanupEvery

trackerVars == <<connections, order, next_id, registering, snapshot_count>>

NotClosed == -1         \* closed_at is None
Live == {"connecting", "connected"}
Terminal == {"closed", "error"}

\* A row: closed_at is the time since closing, up to Retention, and a field
\* that is filled in later is "pending" until it is "known".
Row == [status : Live \union Terminal,
        proxy : {"pending", "known"},
        outbound_target : {"pending", "known"},
        proxy_protocol : {"pending", "known"},
        exe_name : {"pending", "known"},
        closed_at : {NotClosed} \union 0..Retention]

NewRow == [status |-> "connecting", proxy |-> "pending",
           outbound_target |-> "pending", proxy_protocol |-> "pending",
           exe_name |-> "pending", closed_at |-> NotClosed]

RangeOf(s) == {s[i] : i \in DOMAIN s}
OnlyRows(ids) == [id \in ids |-> connections[id]]

TrackerInit ==
    /\ connections = [id \in {} |-> NewRow]
    /\ order = <<>>
    /\ next_id = 1
    /\ registering = {}
    /\ snapshot_count = 0

-----------------------------------------------------------------------------
(* register: the id is taken from an atomic counter before the lock.       *)

TakeId ==
    /\ next_id <= MaxId
    /\ next_id' = next_id + 1
    /\ registering' = registering \union {next_id}
    /\ UNCHANGED <<connections, order, snapshot_count>>

\* Slip: an id leaves the queue and its row stays in the map.
Evicted_None(queue) == {}

\* The ids that the while loop pops off a queue that is too long.
Evicted(queue) == {queue[i] : i \in 1..(Len(queue) - MaxConnections)}

\* Slip: the loop stops one id too early.
Shortened_OneTooLong(queue) ==
    IF Len(queue) > MaxConnections + 1
      THEN SubSeq(queue, Len(queue) - MaxConnections, Len(queue))
      ELSE queue

Shortened(queue) ==
    IF Len(queue) > MaxConnections
      THEN SubSeq(queue, Len(queue) - MaxConnections + 1, Len(queue))
      ELSE queue

Insert(id) ==
    /\ id \in registering
    /\ registering' = registering \ {id}
    /\ LET queue == Append(order, id)
           all == [i \in DOMAIN connections \union {id} |->
                      IF i = id THEN NewRow ELSE connections[i]]
       IN  /\ order' = Shortened(queue)
           /\ connections' = [i \in DOMAIN all \ Evicted(queue) |-> all[i]]
    /\ UNCHANGED <<next_id, snapshot_count>>

-----------------------------------------------------------------------------
(* modify: a copy of the row is changed and put back under the write lock. *)

\* The copy that modify's closure changes.
Clone(id) == IF id \in DOMAIN connections THEN connections[id] ELSE NewRow

\* Slip: a row that is no longer in the table is put back by a late setter.
Modify_Upserts(id, row) ==
    /\ connections' = [i \in DOMAIN connections \union {id} |->
                          IF i = id THEN row ELSE connections[i]]
    /\ UNCHANGED <<order, next_id, registering, snapshot_count>>

Modify(id, row) ==
    /\ connections' = IF id \in DOMAIN connections
                        THEN [connections EXCEPT ![id] = row]
                        ELSE connections
    /\ UNCHANGED <<order, next_id, registering, snapshot_count>>

SetExeName(id) == Modify(id, [Clone(id) EXCEPT !.exe_name = "known"])
SetProxy(id) == Modify(id, [Clone(id) EXCEPT !.proxy = "known"])
SetOutboundTarget(id) == Modify(id, [Clone(id) EXCEPT !.outbound_target = "known"])
SetProxyProtocol(id) == Modify(id, [Clone(id) EXCEPT !.proxy_protocol = "known"])
SetConnected(id) == Modify(id, [Clone(id) EXCEPT !.status = "connected"])
SetClosed(id) == Modify(id, [Clone(id) EXCEPT !.status = "closed", !.closed_at = 0])

\* Slip: a failed connection is not given a closing time.
SetError_NoClosingTime(id) == Modify(id, [Clone(id) EXCEPT !.status = "error"])
SetError(id) == Modify(id, [Clone(id) EXCEPT !.status = "error", !.closed_at = 0])

-----------------------------------------------------------------------------
(* snapshot, and time.                                                     *)

\* The sequence of those elements of s that are in ids: VecDeque::retain.  The
\* k-th one is at the place with k such places up to it.
Places(s, ids) == {i \in DOMAIN s : s[i] \in ids}
Rank(s, ids, i) == Cardinality({j \in Places(s, ids) : j <= i})

Retain(s, ids) ==
    [k \in 1..Cardinality(Places(s, ids)) |->
        s[CHOOSE i \in Places(s, ids) : Rank(s, ids, i) = k]]

\* Slip: a closed row is dropped at once.
Expired_Early(row) == row.closed_at # NotClosed

Expired(row) == row.closed_at # NotClosed /\ row.closed_at >= Retention
Surviving == {id \in DOMAIN connections : ~Expired(connections[id])}

\* Slip: the queue is rebuilt from the map's keys, in any order.
Snapshot_Rebuilds ==
    /\ snapshot_count' = (snapshot_count + 1) % CleanupEvery
    /\ IF snapshot_count = 0
         THEN /\ connections' = OnlyRows(Surviving)
              /\ order' \in {s \in [1..Cardinality(Surviving) -> Surviving] : RangeOf(s) = Surviving}
         ELSE UNCHANGED <<connections, order>>
    /\ UNCHANGED <<next_id, registering>>

Snapshot ==
    /\ snapshot_count' = (snapshot_count + 1) % CleanupEvery
    /\ IF snapshot_count = 0
         THEN /\ connections' = OnlyRows(Surviving)
              /\ order' = Retain(order, Surviving)
         ELSE UNCHANGED <<connections, order>>
    /\ UNCHANGED <<next_id, registering>>

Aged(row) ==
    IF row.closed_at \in 0..(Retention - 1)
      THEN [row EXCEPT !.closed_at = row.closed_at + 1]
      ELSE row

TrackerTick ==
    /\ connections' = [id \in DOMAIN connections |-> Aged(connections[id])]
    /\ UNCHANGED <<order, next_id, registering, snapshot_count>>

\* The ids that register has returned to a caller.
Issued == (1..(next_id - 1)) \ registering

Setter(id) ==
    \/ SetExeName(id) \/ SetProxy(id) \/ SetOutboundTarget(id) \/ SetProxyProtocol(id)
    \/ SetConnected(id) \/ SetClosed(id) \/ SetError(id)

TrackerNext ==
    \/ TakeId
    \/ \E id \in registering : Insert(id)
    \/ \E id \in Issued : Setter(id)
    \/ Snapshot
    \/ TrackerTick

TrackerSpec == TrackerInit /\ [][TrackerNext]_trackerVars

-----------------------------------------------------------------------------
(* Properties.                                                             *)

\* Type invariant of TrackerState and of the two atomic counters.
TrackerTypeOK ==
    /\ DOMAIN connections \subseteq 1..MaxId
    /\ \A id \in DOMAIN connections : connections[id] \in Row
    /\ order \in Seq(1..MaxId)
    /\ next_id \in 1..(MaxId + 1)
    /\ registering \subseteq 1..(next_id - 1)
    /\ snapshot_count \in 0..(CleanupEvery - 1)

\* The map and the queue, which every locked section updates separately, name
\* the same rows, each once, and no row before its register took the lock.
OrderMatchesConnections ==
    /\ RangeOf(order) = DOMAIN connections
    /\ \A i, j \in DOMAIN order : order[i] = order[j] => i = j
    /\ DOMAIN connections \subseteq Issued

\* The table never outgrows MAX_CONNECTIONS (register's while loop).
WithinCapacity == Len(order) <= MaxConnections

\* What the traffic window's difference algorithm relies on: whatever happens
\* between two snapshots, rows that stay keep their places relative to each
\* other and new rows come after them, although ids may be inserted out of order.
SurvivorsKeepOrder ==
    [][LET kept == Retain(order, RangeOf(order'))
       IN  /\ SubSeq(order', 1, Len(kept)) = kept
           /\ \A i \in (Len(kept) + 1)..Len(order') : order'[i] \notin RangeOf(order)
      ]_trackerVars

\* A row leaves the table only if it was closed for the whole retention, or as
\* the oldest of a full table when a new one comes in.
RowsLeaveForAReason ==
    [][\A id \in DOMAIN connections \ DOMAIN connections' :
           \/ connections[id].closed_at = Retention
           \/ /\ Len(order) = MaxConnections
              /\ id = order[1]
              /\ registering' # registering
      ]_trackerVars

\* A row that left is not brought back by a late setter (an exe lookup or a
\* relay that ends after its row was evicted), and an id is never reused.
GoneIsGone ==
    [][\A id \in Issued \ DOMAIN connections : id \notin DOMAIN connections']_trackerVars
=============================================================================
