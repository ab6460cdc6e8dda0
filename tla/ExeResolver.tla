---------------------------- MODULE ExeResolver ----------------------------
(***************************************************************************)
(* Which executable a connection comes from: ExeResolver of                *)
(* etw_resolver.rs with the task of handle_connection that asks it.  Two   *)
(* caches, keyed by the client's port alone, are filled by the trace's     *)
(* callback (Traced) and by the lookups themselves, and cleared port by    *)
(* port when a handler ends.  A lookup leaves its locks at every await.    *)
(*                                                                         *)
(* A process stands for its executable as well as for its identifier.      *)
(***************************************************************************)
EXTENDS Integers, FiniteSets, Sequences

CONSTANTS
    NConns,      \* bound: how many connections the clients make
    Ports,       \* the source ports they use
    Processes,   \* the local processes that may connect
    Elsewhere,   \* what makes a connection of another host's client
    None,        \* no process
    Capacity,    \* EXE_CACHE_CAPACITY
    TTL,         \* EXE_CACHE_TTL_SECS, in ticks
    Traced       \* whether the ETW session runs: never outside Windows

ASSUME ResolverAssumption ==
    /\ NConns \in Nat /\ Capacity \in Nat /\ TTL \in Nat
    /\ Traced \in BOOLEAN
    /\ Elsewhere \notin Processes /\ None \notin Ports \union Processes \union {Elsewhere}

Conns == 1 .. NConns

VARIABLES
    made,      \* how many connections were made
    port,      \* the source port of each
    owner,     \* the process at its client end, or Elsewhere
    open,      \* connections whose client end the OS still lists
    handler,   \* handle_connection, by connection
    lookup,    \* its task: where it is, for which process, in which try
    name,      \* what set_exe_name was given
    pids,      \* port_to_pid
    exes,      \* port_to_exe
    events,    \* connects the trace has yet to report, in order
    mixed,     \* history: ports on which the work for two connections met
    healed     \* history: ports whose caches the last event settled

clients == <<made, port, owner, open>>
caches == <<pids, exes>>
history == <<mixed, healed>>
vars == <<clients, handler, lookup, name, caches, events, history>>

Absent == [pid |-> None, age |-> 0]
Cached(cache) == {p \in DOMAIN cache : cache[p].pid # None}
Idle == [at |-> "none", pid |-> None, again |-> FALSE]

Init ==
    /\ made = 0 /\ open = {}
    /\ port = [c \in Conns |-> None] /\ owner = [c \in Conns |-> None]
    /\ handler = [c \in Conns |-> "none"]
    /\ lookup = [c \in Conns |-> Idle]
    /\ name = [c \in Conns |-> None]
    /\ pids = [p \in Ports |-> Absent] /\ exes = [p \in Ports |-> Absent]
    /\ events = <<>>
    /\ mixed = {} /\ healed = {}

-----------------------------------------------------------------------------
(* The caches.                                                             *)

\* Entries go only when there are too many, and then only the old ones.
Evicted(cache) ==
    IF Cardinality(Cached(cache)) > Capacity
    THEN [p \in DOMAIN cache |-> IF cache[p].age >= TTL THEN Absent ELSE cache[p]]
    ELSE cache

With(cache, p, pid) == [cache EXCEPT ![p] = [pid |-> pid, age |-> 0]]
Without(cache, p) == [cache EXCEPT ![p] = Absent]

Aged(cache) ==
    [p \in DOMAIN cache |->
        IF cache[p].pid = None \/ cache[p].age = TTL THEN cache[p]
        ELSE [cache[p] EXCEPT !.age = @ + 1]]

Tick ==
    /\ pids' = Aged(pids) /\ exes' = Aged(exes)
    /\ UNCHANGED <<clients, handler, lookup, name, events, history>>

-----------------------------------------------------------------------------
(* The clients and the operating system.                                   *)

Asking(c) == lookup[c].at \notin {"none", "done"}
Served(c) == handler[c] \in {"served", "removing"}
Reported(c) == \A i \in DOMAIN events : events[i] # c
Busy(c) == Asking(c) \/ Served(c) \/ ~Reported(c)
OnPort(p) == {c \in Conns : port[c] = p}
Local(c) == owner[c] \in Processes

\* The client's connect, its accept and the spawn of the lookup.  A host
\* uses a port once at a time; another host may use the same one meanwhile.
\* The trace may lose the event.
Connect(p, w) ==
    LET c == made + 1 IN
    /\ made < NConns
    /\ w \in Processes => \A d \in OnPort(p) \intersect open : ~Local(d)
    /\ made' = c /\ open' = open \union {c}
    /\ port' = [port EXCEPT ![c] = p] /\ owner' = [owner EXCEPT ![c] = w]
    /\ handler' = [handler EXCEPT ![c] = "served"]
    /\ lookup' = [lookup EXCEPT ![c] = [Idle EXCEPT !.at = "exe"]]
    /\ \/ UNCHANGED events
       \/ Traced /\ w \in Processes /\ events' = Append(events, c)
    /\ mixed' = IF \E d \in OnPort(p) : Busy(d) \/ d \in open THEN mixed \union {p} ELSE mixed
    /\ healed' = IF w \in Processes THEN healed \ {p} ELSE healed
    /\ UNCHANGED <<name, caches>>

\* The client end closes; the OS forgets whose it was.
Close(c) ==
    /\ c \in open
    /\ open' = open \ {c}
    /\ UNCHANGED <<made, port, owner, handler, lookup, name, caches, events, history>>

\* The table is matched by the two port numbers, whatever the addresses are;
\* reading it may fail, and the client ends of other hosts are not in it.
Listed(p) == {None} \union {owner[c] : c \in {d \in OnPort(p) \intersect open : Local(d)}}

-----------------------------------------------------------------------------
(* The trace.                                                              *)

\* A lookup brings a process to port_to_pid that is not c's.
Overtakes(d, c) == port[d] = port[c] /\ lookup[d].at = "insert" /\ lookup[d].pid # owner[c]
Newest(c) == \A d \in OnPort(port[c]) : Local(d) => d <= c

\* The callback holds both locks.
Event ==
    LET c == Head(events) IN
    /\ events # <<>>
    /\ events' = Tail(events)
    /\ pids' = Evicted(With(pids, port[c], owner[c]))
    /\ exes' = Evicted(Without(exes, port[c]))
    /\ healed' = IF Newest(c) /\ ~\E d \in Conns : Overtakes(d, c)
                 THEN healed \union {port[c]} ELSE healed \ {port[c]}
    /\ UNCHANGED <<clients, handler, lookup, name, mixed>>

-----------------------------------------------------------------------------
(* A lookup.                                                               *)

LooksAt(c, at, pid) == lookup' = [lookup EXCEPT ![c].at = at, ![c].pid = pid]

\* lookup returned Some(exe), or None, which is tried once more.
Found(c, exe) ==
    /\ LooksAt(c, "done", None)
    /\ name' = [name EXCEPT ![c] = exe]

NotFound(c) ==
    /\ LooksAt(c, IF lookup[c].again THEN "done" ELSE "sleep", None)
    /\ UNCHANGED name

Retry(c) ==
    /\ lookup[c].at = "sleep"
    /\ lookup' = [lookup EXCEPT ![c].at = "exe", ![c].again = TRUE]
    /\ UNCHANGED <<clients, handler, name, caches, events, history>>

LookAtExes(c) ==
    LET cached == exes[port[c]].pid IN
    /\ lookup[c].at = "exe"
    /\ IF cached # None THEN Found(c, cached) ELSE LooksAt(c, "pid", None) /\ UNCHANGED name
    /\ UNCHANGED <<clients, handler, caches, events, history>>

LookAtPids(c) ==
    LET cached == pids[port[c]].pid IN
    /\ lookup[c].at = "pid"
    /\ LooksAt(c, IF cached # None THEN "resolve" ELSE "netstat", cached)
    /\ UNCHANGED <<clients, handler, name, caches, events, history>>

\* The scan runs on a blocking thread; its answer is used when the task runs.
Netstat(c) ==
    /\ lookup[c].at = "netstat"
    /\ \E pid \in Listed(port[c]) :
           IF pid = None THEN NotFound(c) ELSE LooksAt(c, "insert", pid) /\ UNCHANGED name
    /\ UNCHANGED <<clients, handler, caches, events, history>>

\* Slip: the table's bound is forgotten on the lookup's path.
InsertPid_NoEviction(c) ==
    /\ lookup[c].at = "insert"
    /\ pids' = With(pids, port[c], lookup[c].pid)
    /\ LooksAt(c, "resolve", lookup[c].pid)
    /\ UNCHANGED <<clients, handler, name, exes, events, history>>

InsertPid(c) ==
    /\ lookup[c].at = "insert"
    /\ pids' = Evicted(With(pids, port[c], lookup[c].pid))
    /\ LooksAt(c, "resolve", lookup[c].pid)
    /\ UNCHANGED <<clients, handler, name, exes, events, history>>

\* resolve_pid_to_exe, on a blocking thread: the process may be gone by then.
Resolve(c) ==
    /\ lookup[c].at = "resolve"
    /\ NotFound(c) \/ (LooksAt(c, "cache", lookup[c].pid) /\ UNCHANGED name)
    /\ UNCHANGED <<clients, handler, caches, events, history>>

\* Slip: the process is not compared again under the lock.
CacheExe_Unchecked(c) ==
    LET p == port[c]  pid == lookup[c].pid IN
    /\ lookup[c].at = "cache"
    /\ exes' = Evicted(With(exes, p, pid))
    /\ Found(c, pid)
    /\ UNCHANGED <<clients, handler, pids, events, history>>

\* Cached only if the port's process is still the one that was resolved,
\* answered in any case.
CacheExe(c) ==
    LET p == port[c]  pid == lookup[c].pid IN
    /\ lookup[c].at = "cache"
    /\ exes' = IF pids[p].pid = pid THEN Evicted(With(exes, p, pid)) ELSE exes
    /\ Found(c, pid)
    /\ UNCHANGED <<clients, handler, pids, events, history>>

-----------------------------------------------------------------------------
(* remove, when the handler ends: two locks, one after the other.          *)

\* Slip: port_to_pid is left to age.
RemovePid_OnlyExe(c) ==
    /\ handler[c] = "served"
    /\ handler' = [handler EXCEPT ![c] = "removing"]
    /\ mixed' = IF Asking(c) \/ ~Reported(c) THEN mixed \union {port[c]} ELSE mixed
    /\ UNCHANGED <<clients, lookup, name, caches, events, healed>>

RemovePid(c) ==
    /\ handler[c] = "served"
    /\ handler' = [handler EXCEPT ![c] = "removing"]
    /\ pids' = Without(pids, port[c])
    /\ mixed' = IF Asking(c) \/ ~Reported(c) THEN mixed \union {port[c]} ELSE mixed
    /\ UNCHANGED <<clients, lookup, name, exes, events, healed>>

\* Slip: port_to_exe is left to age.
RemoveExe_Forgotten(c) ==
    /\ handler[c] = "removing"
    /\ handler' = [handler EXCEPT ![c] = "ended"]
    /\ UNCHANGED <<clients, lookup, name, caches, events, history>>

RemoveExe(c) ==
    /\ handler[c] = "removing"
    /\ handler' = [handler EXCEPT ![c] = "ended"]
    /\ exes' = Without(exes, port[c])
    /\ UNCHANGED <<clients, lookup, name, pids, events, history>>

-----------------------------------------------------------------------------
Lookup(c) ==
    \/ LookAtExes(c) \/ LookAtPids(c) \/ Netstat(c) \/ InsertPid(c)
    \/ Resolve(c) \/ CacheExe(c) \/ Retry(c)

Next ==
    \/ \E p \in Ports, w \in Processes \union {Elsewhere} : Connect(p, w)
    \/ \E c \in Conns : Close(c) \/ Lookup(c) \/ RemovePid(c) \/ RemoveExe(c)
    \/ Event
    \/ Tick

Spec == Init /\ [][Next]_vars

-----------------------------------------------------------------------------
(* Properties.                                                             *)

(* On a port where one connection was always over - closed, its lookup     *)
(* done and its event reported before its handler ended - when the next    *)
(* came, no connection is shown under another process's name.              *)
NamedRight ==
    \A c \in Conns : name[c] # None /\ port[c] \notin mixed => name[c] = owner[c]

(* On such a port remove leaves nothing in either cache for the next       *)
(* connection to find, however its lookup, its event and its end met.      *)
NothingLeft ==
    \A p \in Ports \ mixed :
        (\A c \in OnPort(p) : ~Busy(c)) => pids[p].pid = None /\ exes[p].pid = None

(* Once the trace reported the newest local connection of a port, with no  *)
(* scan for it just finished, the caches hold that process or nothing,     *)
(* whatever lookups of other connections are still under way.              *)
EventHeals ==
    \A p \in healed : \E c \in OnPort(p) :
        /\ Local(c) /\ Newest(c)
        /\ {pids[p].pid, exes[p].pid} \subseteq {owner[c], None}

Grows(before, after) == \E p \in Ports : after[p].pid # None /\ after[p].age = 0 /\ after[p] # before[p]
OverflowIsFresh(before, after) ==
    Grows(before, after) /\ Cardinality(Cached(after)) > Capacity
        => \A p \in Cached(after) : after[p].age < TTL

(* Whoever inserts, an insertion that leaves a cache above its capacity    *)
(* leaves no entry in it that is past its time; and a port's process is    *)
(* forgotten only at the end of a connection on that port, or, to make     *)
(* room, when it is past its time.                                         *)
EvictionIsByAge ==
    [][/\ OverflowIsFresh(pids, pids') /\ OverflowIsFresh(exes, exes')
       /\ \A p \in Ports : pids[p].pid # None /\ pids'[p].pid = None =>
              \/ pids[p].age >= TTL
              \/ \E c \in OnPort(p) : handler[c] = "served" /\ handler'[c] = "removing"]_vars
=============================================================================
