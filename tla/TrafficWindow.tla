--------------------------- MODULE TrafficWindow ---------------------------
(***************************************************************************)
(* The table of the real-time traffic window: run_traffic_window of        *)
(* traffic_window.rs over the tracker it shows, whose callers are as       *)
(* arbitrary as in ConnectionTracker.  A tick takes a snapshot, compares   *)
(* it with the rows it took last and tells the toolkit's list view row by  *)
(* row what went, what came and what changed.                              *)
(*                                                                         *)
(* A cell's byte counts are read from counters shared with the relay: they *)
(* appear by the highlight that the tick derives from them.                *)
(***************************************************************************)
EXTENDS ConnectionTracker
Seqs == INSTANCE SequencesExt

CONSTANT TopN   \* TOP_N

ASSUME WindowAssumption == TopN \in Nat

VARIABLES
    windows,    \* the build: a resize skips the diff, a tick ends in a repaint
    rows,       \* TrafficDataSource.connections: ids, with what their cells show
    top,        \* top_sent, and top_recv alike
    view,       \* the list view: the rows as they were painted
    last,       \* the last thing the window did: "closed", a "tick", or a "resize"
    swallowed   \* history: a resize took rows the view was not told of

windowVars == <<windows, rows, top, view, last, swallowed>>
tableVars == <<trackerVars, windowVars>>

\* ConnectionInfo's equality, and its cells, leave closed_at out.
Cells == {"status", "proxy", "outbound_target", "proxy_protocol", "exe_name"}
Shown(row) == [cell \in Cells |-> row[cell]]

\* What snapshot() returns: the tracker's rows after its cleanup.
Taken == [i \in DOMAIN order' |-> [id |-> order'[i], data |-> Shown(connections'[order'[i]])]]
Ids(table) == {table[i].id : i \in DOMAIN table}

\* recompute_highlights: the counters may have become anything by now.
Highlights(table) == {ids \in SUBSET Ids(table) : Cardinality(ids) <= TopN}

\* cell(): a row past the end has empty cells.
NoRow == [id |-> 0, data |-> {}, hot |-> FALSE]
Painted(table, hot, i) ==
    IF i \in DOMAIN table
    THEN [id |-> table[i].id, data |-> table[i].data, hot |-> table[i].id \in hot]
    ELSE NoRow
AllPainted(table, hot) == [i \in DOMAIN table |-> Painted(table, hot, i)]

WindowInit ==
    /\ TrackerInit
    /\ windows \in BOOLEAN
    /\ rows = <<>> /\ top = {} /\ view = <<>> /\ last = "closed"
    /\ swallowed = FALSE

-----------------------------------------------------------------------------
(* The list view.                                                          *)

RowDeleted(v, i) == IF i \in DOMAIN v THEN Seqs!RemoveAt(v, i) ELSE v
RowInserted(v, i, cells) == IF i <= Len(v) + 1 THEN Seqs!InsertAt(v, i, cells) ELSE v
RowChanged(v, i, cells) == IF i \in DOMAIN v THEN [v EXCEPT ![i] = cells] ELSE v

\* Slip: the old indices are gone through from the first to the last.
Deletions_Upwards(v, old, new) ==
    LET left[i \in 0..Len(old)] ==
            IF i = 0 THEN v
            ELSE IF old[i].id \in Ids(new) THEN left[i - 1] ELSE RowDeleted(left[i - 1], i)
    IN left[Len(old)]

\* The rows that are gone, by their old indices, the last first.
Deletions(v, old, new) ==
    LET left[i \in 1..(Len(old) + 1)] ==
            IF i > Len(old) THEN v
            ELSE IF old[i].id \in Ids(new) THEN left[i + 1] ELSE RowDeleted(left[i + 1], i)
    IN left[1]

\* The rows that are new, by their new indices, the first first.
Insertions(v, old, new, hot) ==
    LET filled[i \in 0..Len(new)] ==
            IF i = 0 THEN v
            ELSE IF new[i].id \in Ids(old) THEN filled[i - 1]
            ELSE RowInserted(filled[i - 1], i, Painted(new, hot, i))
    IN filled[Len(new)]

\* The rows that stayed but do not look the same, or changed their rank.
Changed(old, new, wasHot, hot) ==
    {i \in DOMAIN new : \E j \in DOMAIN old :
        /\ old[j].id = new[i].id
        /\ old[j].data # new[i].data \/ (old[j].id \in wasHot) # (old[j].id \in hot)}

Changes(v, old, new, wasHot, hot) ==
    LET drawn[i \in 0..Len(new)] ==
            IF i = 0 THEN v
            ELSE IF i \in Changed(old, new, wasHot, hot)
            THEN RowChanged(drawn[i - 1], i, Painted(new, hot, i))
            ELSE drawn[i - 1]
    IN drawn[Len(new)]

Notified(v, old, new, wasHot, hot) ==
    Changes(Insertions(Deletions(v, old, new), old, new, hot), old, new, wasHot, hot)

\* InvalidateRect: every row the view has is painted from the data it has now.
Repainted(v, table, hot) == [i \in DOMAIN v |-> Painted(table, hot, i)]

-----------------------------------------------------------------------------
(* The window's thread.                                                    *)

TakeRows ==
    /\ Snapshot
    /\ rows' = Taken
    /\ top' \in Highlights(rows')
    /\ UNCHANGED windows

\* The first snapshot fills the table before the window is shown.
Open ==
    /\ last = "closed" /\ last' = "tick"
    /\ TakeRows
    /\ view' = AllPainted(rows', top')
    /\ UNCHANGED swallowed

Tick ==
    /\ last # "closed" /\ last' = "tick"
    /\ TakeRows
    /\ LET after == Notified(view, rows, rows', top, top')
       IN view' = IF windows THEN Repainted(after, rows', top') ELSE after
    /\ UNCHANGED swallowed

\* A tick that finds the table's size changed takes the rows and returns.
Resize ==
    /\ windows
    /\ last # "closed" /\ last' = "resize"
    /\ TakeRows
    /\ swallowed' = (swallowed \/ Ids(rows') # Ids(rows))
    /\ UNCHANGED view

\* The connections' tasks; SetConnected stands for the setters of a text too,
\* and SetClosed for a failure.
Callers ==
    \/ TakeId
    \/ \E id \in registering : Insert(id)
    \/ \E id \in Issued : SetConnected(id) \/ SetClosed(id)
    \/ TrackerTick

WindowNext == Open \/ Tick \/ Resize \/ (Callers /\ UNCHANGED windowVars)

WindowSpec == WindowInit /\ [][WindowNext]_tableVars

-----------------------------------------------------------------------------
(* Properties.                                                             *)

\* What the order of the diff is for: deletions, insertions and changes never
\* use an index the view does not have, and after a tick the view shows the
\* snapshot - its rows, what they say, how they are highlighted - whatever was
\* evicted, pruned, registered and changed since the last tick, and also after
\* a resize, as long as no row came or went with it.
ViewIsSnapshot == last = "tick" /\ ~swallowed => view = AllPainted(rows, top)

\* traffic_window.rs:375: "after all insertions the view layout exactly
\* matches the new snapshot".
LayoutMatchesSnapshot ==
    last = "tick" => [i \in DOMAIN view |-> view[i].id] = [i \in DOMAIN rows |-> rows[i].id]
=============================================================================
