--------------------------- MODULE ResolverProofs ---------------------------
(***************************************************************************)
(* Proofs about ExeResolver, for any number of connections, ports and      *)
(* processes, any capacity and any lifetime of entries: names are right    *)
(* and nothing stays cached on a port that is used by one connection at a  *)
(* time, a settled event wins over lookups under way, and eviction goes    *)
(* by age.                                                                 *)
(***************************************************************************)
EXTENDS ExeResolver, SequenceTheorems, TLAPS

Ats == {"none", "exe", "pid", "netstat", "insert", "resolve", "cache", "sleep", "done"}
Entry == [pid : Processes \union {None}, age : Nat]

\* Types, and what tells a connection that was made from one that was not.
ResolverTypeOK ==
    /\ made \in 0..NConns
    /\ port \in [Conns -> Ports \union {None}]
    /\ \A c \in Conns : port[c] \in Ports <=> c <= made
    /\ owner \in [Conns -> Processes \union {Elsewhere, None}]
    /\ open \subseteq Conns
    /\ handler \in [Conns -> {"none", "served", "removing", "ended"}]
    /\ lookup \in [Conns -> [at : Ats, pid : Processes \union {None}, again : BOOLEAN]]
    /\ name \in [Conns -> Processes \union {None}]
    /\ pids \in [Ports -> Entry] /\ exes \in [Ports -> Entry]
    /\ events \in Seq(Conns)
    /\ mixed \subseteq Ports /\ healed \subseteq Ports

\* A connection that was not made has no part in anything; an event is one of
\* a local connection; a lookup that has found a process knows it.
Made ==
    /\ \A c \in Conns : c > made =>
           c \notin open /\ handler[c] = "none" /\ lookup[c].at = "none" /\ name[c] = None
    /\ \A c \in Conns : handler[c] = "none" => c > made
    /\ \A i \in DOMAIN events : events[i] <= made /\ Local(events[i])
    /\ \A c \in Conns : lookup[c].at \in {"insert", "resolve", "cache"} => lookup[c].pid # None

\* On a port that is not mixed all connections but the newest are over.
Alone ==
    \A c, d \in Conns : c < d /\ port[c] = port[d] /\ port[c] \in Ports \ mixed =>
        ~Busy(c) /\ c \notin open

\* There a lookup works for its own connection's process, which is over with
\* its event when the handler starts to remove.
Owned ==
    \A c \in Conns : port[c] \in Ports \ mixed =>
        /\ {name[c], lookup[c].pid} \subseteq {None, owner[c]}
        /\ handler[c] \in {"removing", "ended"} => ~Asking(c) /\ Reported(c)

\* There each cache holds what belongs to the connection that is being served
\* and nothing once it was cleared.
Cleared ==
    \A p \in Ports \ mixed :
        /\ \A c \in OnPort(p) : handler[c] = "served" =>
               {pids[p].pid, exes[p].pid} \subseteq {None, owner[c]}
        /\ (\A c \in OnPort(p) : handler[c] # "served") => pids[p].pid = None
        /\ (\A c \in OnPort(p) : ~Served(c)) => exes[p].pid = None

\* A host has one connection at a time on a port: the scan sees no other.
Sole == \A c \in open : Local(c) => Newest(c)

\* Nothing on its way to port_to_pid contradicts a settled event.
Settled ==
    \A p \in healed : \E c \in OnPort(p) :
        /\ Local(c) /\ Newest(c)
        /\ {pids[p].pid, exes[p].pid} \subseteq {owner[c], None}
        /\ \A d \in OnPort(p) : lookup[d].at = "insert" => lookup[d].pid = owner[c]

\* The inductive invariant.
XInv == ResolverTypeOK /\ Made /\ Alone /\ Owned /\ Cleared /\ Sole /\ Settled

-----------------------------------------------------------------------------
(* The caches.                                                             *)

\* What an insertion, a removal, an eviction and the passing of time do to a
\* port's entry.
LEMMA CacheFacts ==
    ASSUME NEW cache \in [Ports -> Entry], NEW p \in Ports, NEW pid \in Processes \union {None}
    PROVE  /\ With(cache, p, pid) \in [Ports -> Entry]
           /\ With(cache, p, pid)[p] = [pid |-> pid, age |-> 0] /\ With(cache, p, pid)[p].pid = pid
           /\ \A q \in Ports : q # p => With(cache, p, pid)[q] = cache[q]
           /\ Without(cache, p) \in [Ports -> Entry]
           /\ Without(cache, p)[p] = Absent
           /\ \A q \in Ports : q # p => Without(cache, p)[q] = cache[q]
<1>1. Absent \in Entry /\ [pid |-> pid, age |-> 0] \in Entry
    BY DEF Absent, Entry
<1> QED BY <1>1 DEF With, Without

LEMMA EvictedFacts ==
    ASSUME NEW cache \in [Ports -> Entry]
    PROVE  /\ Evicted(cache) \in [Ports -> Entry]
           /\ \A q \in Ports : \/ Evicted(cache)[q] = cache[q]
                               \/ Evicted(cache)[q] = Absent /\ cache[q].age >= TTL
<1>1. Absent \in Entry
    BY DEF Absent, Entry
<1> QED BY <1>1 DEF Evicted

LEMMA AgedFacts ==
    ASSUME NEW cache \in [Ports -> Entry]
    PROVE  /\ Aged(cache) \in [Ports -> Entry]
           /\ \A q \in Ports : /\ Aged(cache)[q].pid = cache[q].pid
                               /\ Aged(cache)[q] = cache[q] \/ Aged(cache)[q].age # 0
<1>1. \A e \in Entry : [e EXCEPT !.age = @ + 1] = [pid |-> e.pid, age |-> e.age + 1]
    BY DEF Entry
<1> QED BY <1>1 DEF Aged, Entry

-----------------------------------------------------------------------------
(* Steps of a lookup.                                                      *)

Seeking == [at : Ats, pid : Processes \union {None}, again : BOOLEAN]

\* A lookup goes on, or ends, with a process it may have.
Goes(c, after) ==
    /\ after \in Seeking /\ after.at # "none"
    /\ after.at \in {"insert", "resolve", "cache"} => after.pid # None
    /\ after.at = "insert" => after.pid \in Listed(port[c])
    /\ port[c] \notin mixed => after.pid \in {None, owner[c]}
    /\ lookup' = [lookup EXCEPT ![c] = after]

\* It leaves the names alone, or gives its own connection one it may have.
Names(c) ==
    /\ name' \in [Conns -> Processes \union {None}]
    /\ \A d \in Conns \ {c} : name'[d] = name[d]
    /\ port[c] \notin mixed => name'[c] \in {None, owner[c]}

\* What every step of c's lookup has in common is enough for the invariant: it
\* brings to port_to_pid what it was about to insert, to port_to_exe what both
\* it and port_to_pid hold, and has from the scan what the scan lists.
LEMMA LookupKeepsInv ==
    ASSUME XInv, NEW c \in Conns, Asking(c),
           UNCHANGED <<clients, handler, events, history>>,
           NEW after, Goes(c, after), Names(c),
           pids' \in [Ports -> Entry], exes' \in [Ports -> Entry],
           \A q \in Ports : \/ pids'[q].pid \in {None, pids[q].pid}
                            \/ q = port[c] /\ lookup[c].at = "insert" /\ pids'[q].pid = lookup[c].pid,
           \A q \in Ports : \/ exes'[q].pid \in {None, exes[q].pid}
                            \/ q = port[c] /\ exes'[q].pid = lookup[c].pid /\ exes'[q].pid = pids[q].pid
    PROVE  XInv'
<1>1. UNCHANGED <<made, port, owner, open, handler, events, mixed, healed>>
    BY DEF clients, history
<1>2. /\ {lookup, lookup'} \subseteq [Conns -> Seeking] /\ lookup'[c] = after
      /\ \A d \in Conns \ {c} : lookup'[d] = lookup[d]
    BY DEF XInv, ResolverTypeOK, Seeking, Goes
<1>3. ResolverTypeOK'
    BY <1>1, <1>2 DEF XInv, ResolverTypeOK, Seeking, Names
<1>4. made \in Int /\ c \in Int /\ ~(c > made) /\ port[c] \in Ports /\ handler[c] # "none"
    BY DEF XInv, ResolverTypeOK, Made, Asking, Conns
<1>5. Made'
    BY <1>1, <1>2, <1>4 DEF XInv, Made, Local, Goes, Names
<1>6. \A d \in Conns : Busy(d)' => Busy(d)
    BY <1>1, <1>2 DEF Busy, Asking, Served, Reported
<1>7. Alone'
    BY <1>1, <1>6 DEF XInv, Alone
<1>8. Owned'
    BY <1>1, <1>2, <1>6 DEF XInv, Owned, Asking, Reported, Goes, Names
<1>9. Cleared'
    <2> SUFFICES ASSUME NEW p \in Ports \ mixed
                 PROVE  /\ \A d \in OnPort(p) : handler[d] = "served" =>
                               {pids'[p].pid, exes'[p].pid} \subseteq {None, owner[d]}
                        /\ (\A d \in OnPort(p) : handler[d] # "served") => pids'[p].pid = None
                        /\ (\A d \in OnPort(p) : ~Served(d)) => exes'[p].pid = None
        BY <1>1 DEF Cleared, OnPort, Served
    <2>1. CASE p # port[c]
        BY <2>1 DEF XInv, Cleared
    <2>2. CASE p = port[c]
        <3>1. handler[c] = "served" /\ lookup[c].pid \in {None, owner[c]} /\ c \in OnPort(p)
            BY <1>4, <2>2 DEF XInv, Owned, ResolverTypeOK, OnPort
        <3>2. {pids[p].pid, exes[p].pid} \subseteq {None, owner[c]}
            BY <3>1 DEF XInv, Cleared
        <3>3. {pids'[p].pid, exes'[p].pid} \subseteq {None, owner[c]}
            BY <3>1, <3>2
        <3>4. \A d \in OnPort(p) : handler[d] = "served" => d = c
            BY <2>2, <3>1 DEF XInv, Alone, Busy, Served, OnPort, Conns
        <3> QED BY <3>1, <3>3, <3>4 DEF Served
    <2> QED BY <2>1, <2>2
<1>10. Sole'
    BY <1>1 DEF XInv, Sole, Local, Newest, OnPort
<1>11. Settled'
    <2> SUFFICES ASSUME NEW p \in healed
                 PROVE  \E d \in OnPort(p) :
                            /\ Local(d) /\ Newest(d)
                            /\ {pids'[p].pid, exes'[p].pid} \subseteq {owner[d], None}
                            /\ \A e \in OnPort(p) : lookup'[e].at = "insert" => lookup'[e].pid = owner[d]
        BY <1>1 DEF Settled, Local, Newest, OnPort
    <2>1. PICK d \in OnPort(p) :
              /\ Local(d) /\ Newest(d)
              /\ {pids[p].pid, exes[p].pid} \subseteq {owner[d], None}
              /\ \A e \in OnPort(p) : lookup[e].at = "insert" => lookup[e].pid = owner[d]
        BY DEF XInv, Settled
    <2>2. p \in Ports /\ d \in Conns /\ port[d] = p
        BY <2>1 DEF XInv, ResolverTypeOK, OnPort
    <2>3. {pids'[p].pid, exes'[p].pid} \subseteq {owner[d], None}
        BY <2>1, <2>2 DEF OnPort
    <2>4. \A e \in OnPort(p) \intersect open : Local(e) => e = d
        <3> SUFFICES ASSUME NEW e \in OnPort(p) \intersect open, Local(e) PROVE e = d
            OBVIOUS
        <3>1. Newest(e) /\ port[e] = p /\ e \in Conns
            BY DEF XInv, Sole, OnPort
        <3>2. e <= d /\ d <= e
            BY <2>1, <2>2, <3>1 DEF Newest
        <3> QED BY <2>2, <3>1, <3>2 DEF Conns
    <2>5. Listed(p) \subseteq {None, owner[d]}
        BY <2>4 DEF Listed
    <2>6. \A e \in OnPort(p) : lookup'[e].at = "insert" => lookup'[e].pid = owner[d]
        BY <1>2, <2>1, <2>2, <2>5 DEF OnPort, Goes
    <2> QED BY <2>1, <2>3, <2>6
<1> QED BY <1>3, <1>5, <1>7, <1>8, <1>9, <1>10, <1>11 DEF XInv


\* What a lookup may see in the caches and in the scan.
LEMMA LookupSees ==
    ASSUME XInv, NEW c \in Conns, Asking(c)
    PROVE  /\ port[c] \in Ports /\ pids[port[c]] \in Entry /\ exes[port[c]] \in Entry
           /\ lookup \in [Conns -> Seeking] /\ name \in [Conns -> Processes \union {None}]
           /\ Listed(port[c]) \subseteq Processes \union {None}
           /\ port[c] \notin mixed =>
                  {pids[port[c]].pid, exes[port[c]].pid, lookup[c].pid, name[c]} \union Listed(port[c])
                      \subseteq {None, owner[c]}
<1>1. /\ lookup \in [Conns -> Seeking] /\ lookup[c] \in Seeking
      /\ name \in [Conns -> Processes \union {None}]
      /\ pids \in [Ports -> Entry] /\ exes \in [Ports -> Entry]
    BY DEF XInv, ResolverTypeOK, Seeking
<1>2. port[c] \in Ports /\ handler[c] # "none"
    BY DEF XInv, ResolverTypeOK, Made, Asking, Conns
<1>3. port[c] \notin mixed =>
          /\ handler[c] = "served"
          /\ {pids[port[c]].pid, exes[port[c]].pid, lookup[c].pid, name[c]} \subseteq {None, owner[c]}
    BY <1>2 DEF XInv, Owned, Cleared, ResolverTypeOK, OnPort
<1>4. ASSUME port[c] \notin mixed, NEW d \in OnPort(port[c]) \intersect open PROVE d = c
    BY <1>2, <1>4 DEF XInv, Alone, Busy, OnPort, Conns
<1> QED BY <1>1, <1>2, <1>3, <1>4 DEF Listed, Local

LEMMA LooksGoes ==
    ASSUME XInv, NEW c \in Conns, Asking(c),
           NEW at \in Ats \ {"none"}, NEW pid \in Processes \union {None}, LooksAt(c, at, pid),
           at \in {"insert", "resolve", "cache"} => pid # None,
           at = "insert" => pid \in Listed(port[c]),
           port[c] \notin mixed => pid \in {None, owner[c]}
    PROVE  \E after : Goes(c, after)
<1> DEFINE after == [lookup[c] EXCEPT !.at = at, !.pid = pid]
<1>1. lookup \in [Conns -> Seeking] /\ lookup[c] \in Seeking
    BY DEF XInv, ResolverTypeOK, Seeking
<1>2. after \in Seeking /\ after.at = at /\ after.pid = pid
    BY <1>1 DEF Seeking
<1>3. lookup' = [lookup EXCEPT ![c] = after]
    BY <1>1 DEF LooksAt, Seeking
<1> HIDE DEF after
<1>4. Goes(c, after)
    BY <1>2, <1>3 DEF Goes
<1> QED BY <1>4

LEMMA EndsGo ==
    ASSUME XInv, NEW c \in Conns, Asking(c), NotFound(c)
    PROVE  Names(c) /\ \E after : Goes(c, after)
<1>1. Names(c)
    BY LookupSees DEF NotFound, Names
<1>2. \E after : Goes(c, after)
    BY LooksGoes DEF NotFound, Ats
<1> QED BY <1>1, <1>2

LEMMA FoundGoes ==
    ASSUME XInv, NEW c \in Conns, Asking(c), NEW exe \in Processes, Found(c, exe),
           port[c] \notin mixed => exe \in {None, owner[c]}
    PROVE  Names(c) /\ \E after : Goes(c, after)
<1>1. Names(c)
    BY LookupSees DEF Found, Names
<1>2. \E after : Goes(c, after)
    BY LooksGoes DEF Found, Ats
<1> QED BY <1>1, <1>2

\* The steps that leave the caches alone.
LEMMA LookingKeepsInv ==
    ASSUME XInv, NEW c \in Conns, LookAtExes(c) \/ LookAtPids(c) \/ Netstat(c) \/ Resolve(c) \/ Retry(c)
    PROVE  XInv'
<1>1. Asking(c) /\ UNCHANGED <<clients, handler, caches, events, history>>
    BY DEF LookAtExes, LookAtPids, Netstat, Resolve, Retry, Asking
<1>2. /\ port[c] \in Ports /\ pids[port[c]] \in Entry /\ exes[port[c]] \in Entry
      /\ lookup \in [Conns -> Seeking] /\ name \in [Conns -> Processes \union {None}]
      /\ Listed(port[c]) \subseteq Processes \union {None}
      /\ port[c] \notin mixed =>
             {pids[port[c]].pid, exes[port[c]].pid, lookup[c].pid, name[c]} \union Listed(port[c])
                 \subseteq {None, owner[c]}
    BY <1>1, LookupSees
<1>3. UNCHANGED name => Names(c)
    BY <1>2 DEF Names
<1>4. Names(c) /\ \E after : Goes(c, after)
    <2>1. CASE LookAtExes(c)
        <3>1. CASE exes[port[c]].pid # None
            BY <1>1, <1>2, <2>1, <3>1, FoundGoes DEF LookAtExes, Entry
        <3>2. CASE exes[port[c]].pid = None
            BY <1>1, <1>3, <2>1, <3>2, LooksGoes DEF LookAtExes, Ats
        <3> QED BY <3>1, <3>2
    <2>2. CASE LookAtPids(c)
        BY <1>1, <1>2, <1>3, <2>2, LooksGoes DEF LookAtPids, Ats, Entry
    <2>3. CASE Netstat(c)
        <3>1. PICK pid \in Listed(port[c]) :
                  IF pid = None THEN NotFound(c) ELSE LooksAt(c, "insert", pid) /\ UNCHANGED name
            BY <2>3 DEF Netstat
        <3>2. CASE pid = None
            BY <1>1, <3>1, <3>2, EndsGo
        <3>3. CASE pid # None
            <4>1. LooksAt(c, "insert", pid) /\ Names(c) /\ "insert" \in Ats \ {"none"}
                BY <1>3, <3>1, <3>3 DEF Ats
            <4>2. pid \in Processes \union {None} /\ (port[c] \notin mixed => pid \in {None, owner[c]})
                BY <1>2
            <4> QED BY <1>1, <3>3, <4>1, <4>2, LooksGoes
        <3> QED BY <3>2, <3>3
    <2>4. CASE Resolve(c)
        <3>1. lookup[c].pid \in Processes /\ (NotFound(c) \/ (LooksAt(c, "cache", lookup[c].pid) /\ UNCHANGED name))
            BY <1>2, <2>4 DEF Resolve, Seeking, XInv, Made
        <3>2. CASE NotFound(c)
            BY <1>1, <3>2, EndsGo
        <3>3. CASE LooksAt(c, "cache", lookup[c].pid) /\ UNCHANGED name
            <4>1. Names(c) /\ "cache" \in Ats \ {"none"} /\ lookup[c].pid # None
                BY <1>3, <3>1, <3>3, ResolverAssumption DEF Ats
            <4>2. port[c] \notin mixed => lookup[c].pid \in {None, owner[c]}
                BY <1>2
            <4> QED BY <1>1, <3>1, <3>3, <4>1, <4>2, LooksGoes
        <3> QED BY <3>1, <3>2, <3>3
    <2>5. CASE Retry(c)
        <3> DEFINE after == [lookup[c] EXCEPT !.at = "exe", !.again = TRUE]
        <3>1. /\ after \in Seeking /\ after.at = "exe" /\ after.pid = lookup[c].pid
              /\ lookup' = [lookup EXCEPT ![c] = after]
            BY <1>2, <2>5 DEF Retry, Seeking, Ats
        <3> HIDE DEF after
        <3>2. Goes(c, after) /\ Names(c)
            BY <1>2, <1>3, <2>5, <3>1 DEF Goes, Retry
        <3> QED BY <3>2
    <2> QED BY <2>1, <2>2, <2>3, <2>4, <2>5
<1>5. PICK after : Goes(c, after)
    BY <1>4
<1>6. pids' = pids /\ exes' = exes /\ pids \in [Ports -> Entry] /\ exes \in [Ports -> Entry]
    BY <1>1 DEF caches, XInv, ResolverTypeOK
<1> QED BY <1>1, <1>4, <1>5, <1>6, LookupKeepsInv

\* The steps that insert.
LEMMA CachingKeepsInv ==
    ASSUME XInv, NEW c \in Conns, InsertPid(c) \/ CacheExe(c)
    PROVE  XInv'
<1>0. PICK p, pid : p = port[c] /\ pid = lookup[c].pid
    OBVIOUS
<1>1. Asking(c) /\ UNCHANGED <<clients, handler, events, history>>
    BY DEF InsertPid, CacheExe, Asking
<1>2. /\ p \in Ports
      /\ lookup \in [Conns -> Seeking] /\ name \in [Conns -> Processes \union {None}]
      /\ p \notin mixed => {pid, name[c]} \subseteq {None, owner[c]}
    BY <1>0, <1>1, LookupSees
<1>3. pid \in Processes
    BY <1>0, <1>2 DEF InsertPid, CacheExe, XInv, Made, Seeking
<1>4. pids \in [Ports -> Entry] /\ exes \in [Ports -> Entry]
    BY DEF XInv, ResolverTypeOK
<1>5. ASSUME NEW cache \in [Ports -> Entry]
      PROVE  /\ Evicted(With(cache, p, pid)) \in [Ports -> Entry]
             /\ \A q \in Ports : \/ Evicted(With(cache, p, pid))[q].pid \in {None, cache[q].pid}
                                 \/ q = p /\ Evicted(With(cache, p, pid))[q].pid = pid
    <2>1. /\ With(cache, p, pid) \in [Ports -> Entry] /\ With(cache, p, pid)[p].pid = pid
          /\ \A q \in Ports : q # p => With(cache, p, pid)[q] = cache[q]
        BY <1>2, <1>3 DEF With, Entry
    <2> QED BY <2>1, EvictedFacts DEF Absent
<1>6. CASE InsertPid(c)
    <2>1. /\ pids' = Evicted(With(pids, p, pid)) /\ exes' = exes /\ name' = name
          /\ lookup[c].at = "insert" /\ LooksAt(c, "resolve", pid)
        BY <1>0, <1>6 DEF InsertPid
    <2>2. Names(c)
        BY <1>0, <1>2, <2>1 DEF Names
    <2>3. PICK after : Goes(c, after)
        BY <1>0, <1>1, <1>2, <1>3, <2>1, LooksGoes, ResolverAssumption DEF Ats
    <2>4. /\ pids' \in [Ports -> Entry]
          /\ \A q \in Ports : \/ pids'[q].pid \in {None, pids[q].pid}
                              \/ q = port[c] /\ lookup[c].at = "insert" /\ pids'[q].pid = lookup[c].pid
        BY <1>0, <1>4, <1>5, <2>1
    <2> QED BY <1>0, <1>1, <1>4, <2>1, <2>2, <2>3, <2>4, LookupKeepsInv
<1>7. CASE CacheExe(c)
    <2>1. /\ exes' = IF pids[p].pid = pid THEN Evicted(With(exes, p, pid)) ELSE exes
          /\ pids' = pids /\ Found(c, pid)
        BY <1>0, <1>7 DEF CacheExe
    <2>2. Names(c) /\ \E after : Goes(c, after)
        BY <1>0, <1>1, <1>2, <1>3, <2>1, FoundGoes
    <2>3. PICK after : Goes(c, after)
        BY <2>2
    <2>4. /\ exes' \in [Ports -> Entry]
          /\ \A q \in Ports : \/ exes'[q].pid \in {None, exes[q].pid}
                              \/ q = port[c] /\ exes'[q].pid = lookup[c].pid /\ exes'[q].pid = pids[q].pid
        BY <1>0, <1>4, <1>5, <2>1
    <2> QED BY <1>0, <1>1, <1>4, <2>1, <2>2, <2>3, <2>4, LookupKeepsInv
<1> QED BY <1>6, <1>7

-----------------------------------------------------------------------------
(* The other steps.                                                        *)

\* A new connection: on its port the others are over, or the port is mixed.
LEMMA ConnectKeepsInv ==
    ASSUME XInv, NEW p \in Ports, NEW w \in Processes \union {Elsewhere}, Connect(p, w)
    PROVE  XInv'
<1>0. PICK c : c = made + 1
    OBVIOUS
<1>1. /\ made < NConns /\ made' = c /\ open' = open \union {c}
      /\ w \in Processes => \A d \in OnPort(p) \intersect open : ~Local(d)
      /\ port' = [port EXCEPT ![c] = p] /\ owner' = [owner EXCEPT ![c] = w]
      /\ handler' = [handler EXCEPT ![c] = "served"]
      /\ lookup' = [lookup EXCEPT ![c] = [Idle EXCEPT !.at = "exe"]]
      /\ events' = events \/ (w \in Processes /\ events' = Append(events, c))
      /\ mixed' = IF \E d \in OnPort(p) : Busy(d) \/ d \in open THEN mixed \union {p} ELSE mixed
      /\ healed' = IF w \in Processes THEN healed \ {p} ELSE healed
      /\ UNCHANGED <<name, pids, exes>>
    BY <1>0 DEF Connect, caches
<1>2. /\ made \in 0..NConns /\ NConns \in Nat /\ c \in Conns
      /\ None \notin Ports /\ Elsewhere \notin Processes
    BY <1>0, <1>1, ResolverAssumption DEF XInv, ResolverTypeOK, Conns
<1>3. /\ port \in [Conns -> Ports \union {None}] /\ owner \in [Conns -> Processes \union {Elsewhere, None}]
      /\ handler \in [Conns -> {"none", "served", "removing", "ended"}]
      /\ lookup \in [Conns -> Seeking] /\ events \in Seq(Conns)
      /\ open \subseteq Conns
    BY DEF XInv, ResolverTypeOK, Seeking
<1>4. PICK asks \in Seeking : asks = [Idle EXCEPT !.at = "exe"] /\ asks.at = "exe" /\ asks.pid = None
    <2>1. Idle \in Seeking /\ Idle.pid = None
        BY DEF Idle, Seeking, Ats
    <2>2. /\ [Idle EXCEPT !.at = "exe"] \in Seeking
          /\ [Idle EXCEPT !.at = "exe"].at = "exe" /\ [Idle EXCEPT !.at = "exe"].pid = None
        BY <2>1 DEF Seeking, Ats
    <2> QED BY <2>2
<1>5. /\ port'[c] = p /\ owner'[c] = w /\ handler'[c] = "served"
      /\ lookup'[c].at = "exe" /\ lookup'[c].pid = None
      /\ \A d \in Conns \ {c} : /\ port'[d] = port[d] /\ owner'[d] = owner[d]
                                /\ handler'[d] = handler[d] /\ lookup'[d] = lookup[d]
    BY <1>1, <1>2, <1>3, <1>4
<1>6. /\ events' \in Seq(Conns)
      /\ \A i \in DOMAIN events' : \/ events'[i] = c /\ w \in Processes
                                   \/ i \in DOMAIN events /\ events'[i] = events[i]
      /\ \A i \in DOMAIN events : i \in DOMAIN events' /\ events'[i] = events[i]
    <2>1. CASE events' = events
        BY <1>3, <2>1
    <2>2. CASE w \in Processes /\ events' = Append(events, c)
        BY <1>2, <1>3, <2>2, AppendProperties, LenProperties
    <2> QED BY <1>1, <2>1, <2>2
<1>7. /\ port[c] \notin Ports /\ c > made
      /\ c \notin open /\ handler[c] = "none" /\ lookup[c].at = "none"
      /\ \A i \in DOMAIN events : events[i] # c
    <2>1. c > made /\ ~(c <= made)
        BY <1>0, <1>2
    <2>2. \A i \in DOMAIN events : events[i] <= made
        BY DEF XInv, Made
    <2> QED BY <1>2, <2>1, <2>2 DEF XInv, ResolverTypeOK, Made
<1>8. ResolverTypeOK'
    <2>1. \A d \in Conns : port'[d] \in Ports <=> d <= made'
        BY <1>0, <1>1, <1>2, <1>5 DEF XInv, ResolverTypeOK, Conns
    <2>2. lookup' \in [Conns -> Seeking]
        BY <1>1, <1>3, <1>4 DEF Seeking, Ats
    <2>3. mixed' \subseteq Ports /\ healed' \subseteq Ports
        BY <1>1 DEF XInv, ResolverTypeOK
    <2>4. /\ made' \in 0..NConns /\ open' \subseteq Conns
          /\ port' \in [Conns -> Ports \union {None}]
          /\ owner' \in [Conns -> Processes \union {Elsewhere, None}]
          /\ handler' \in [Conns -> {"none", "served", "removing", "ended"}]
        BY <1>0, <1>1, <1>2, <1>3
    <2>5. /\ name' \in [Conns -> Processes \union {None}]
          /\ pids' \in [Ports -> Entry] /\ exes' \in [Ports -> Entry]
        BY <1>1 DEF XInv, ResolverTypeOK
    <2> QED BY <1>6, <2>1, <2>2, <2>3, <2>4, <2>5 DEF ResolverTypeOK, Seeking
<1>9. Made'
    <2>1. \A d \in Conns : d > made' => d # c /\ d > made
        BY <1>0, <1>1, <1>2 DEF Conns
    <2>2. \A d \in Conns : d > made' =>
              d \notin open' /\ handler'[d] = "none" /\ lookup'[d].at = "none" /\ name'[d] = None
        BY <1>1, <1>5, <2>1 DEF XInv, Made
    <2>3. \A d \in Conns : handler'[d] = "none" => d > made'
        BY <1>0, <1>1, <1>2, <1>5 DEF XInv, Made, Conns
    <2>4. \A i \in DOMAIN events' : events'[i] <= made' /\ owner'[events'[i]] \in Processes
        <3> SUFFICES ASSUME NEW i \in DOMAIN events'
                     PROVE  events'[i] <= made' /\ owner'[events'[i]] \in Processes
            OBVIOUS
        <3>1. CASE events'[i] = c /\ w \in Processes
            BY <1>0, <1>1, <1>2, <1>5, <3>1
        <3>2. CASE i \in DOMAIN events /\ events'[i] = events[i]
            <4>1. events[i] \in Conns /\ events[i] <= made /\ owner[events[i]] \in Processes
                BY <1>3, <3>2, ElementOfSeq, LenProperties DEF XInv, Made, Local
            <4> QED BY <1>0, <1>1, <1>2, <1>5, <3>2, <4>1 DEF Conns
        <3> QED BY <1>6, <3>1, <3>2
    <2>5. \A d \in Conns : lookup'[d].at \in {"insert", "resolve", "cache"} => lookup'[d].pid # None
        BY <1>5 DEF XInv, Made
    <2> QED BY <2>2, <2>3, <2>4, <2>5 DEF Made, Local
<1>10. \A d \in Conns \ {c} : Busy(d)' => Busy(d)
    BY <1>5, <1>6 DEF Busy, Asking, Served, Reported
<1>11. /\ \A d \in OnPort(p) \union {c} : d <= c
       /\ \A d \in Conns : port'[d] = p => d = c \/ d \in OnPort(p)
       /\ c \notin OnPort(p)
    <2>1. \A d \in OnPort(p) : d \in Conns /\ port[d] \in Ports /\ d <= made
        BY DEF XInv, ResolverTypeOK, OnPort
    <2> QED BY <1>0, <1>2, <1>5, <1>7, <2>1 DEF OnPort, Conns
<1>12. \A q \in Ports \ {p} : OnPort(q)' = OnPort(q) /\ c \notin OnPort(q)
    BY <1>5, <1>7 DEF OnPort
<1>13. /\ mixed \subseteq mixed'
       /\ p \notin mixed' => \A d \in OnPort(p) : ~Busy(d) /\ d \notin open
    BY <1>1
<1>14. Alone'
    <2> SUFFICES ASSUME NEW a \in Conns, NEW b \in Conns, a < b,
                        port'[a] = port'[b], port'[a] \in Ports \ mixed'
                 PROVE  ~Busy(a)' /\ a \notin open'
        BY DEF Alone
    <2>1. a # c
        <3>1. CASE port'[b] = p
            BY <1>0, <1>2, <1>11, <3>1 DEF Conns
        <3>2. CASE port'[b] # p
            BY <1>5, <3>2
        <3> QED BY <3>1, <3>2
    <2>2. CASE port'[a] = p
        BY <1>1, <1>10, <1>11, <1>13, <2>1, <2>2
    <2>3. CASE port'[a] # p
        <3>1. b # c /\ port[a] = port[b] /\ port[a] \in Ports \ mixed
            BY <1>5, <1>13, <2>1, <2>3
        <3> QED BY <1>1, <1>10, <2>1, <3>1 DEF XInv, Alone
    <2> QED BY <2>2, <2>3
<1>15. Owned'
    <2>1. name'[c] = None /\ lookup'[c].pid = None /\ handler'[c] = "served"
        BY <1>0, <1>1, <1>2, <1>5 DEF XInv, Made, Conns
    <2>2. \A d \in Conns \ {c} : (Asking(d)' <=> Asking(d)) /\ (Reported(d) => Reported(d)')
        BY <1>5, <1>6 DEF Asking, Reported
    <2> QED BY <1>1, <1>5, <1>13, <2>1, <2>2 DEF XInv, Owned
<1>16. Cleared'
    <2> SUFFICES ASSUME NEW q \in Ports \ mixed'
                 PROVE  /\ \A d \in OnPort(q)' : handler'[d] = "served" =>
                               {pids[q].pid, exes[q].pid} \subseteq {None, owner'[d]}
                        /\ (\A d \in OnPort(q)' : handler'[d] # "served") => pids[q].pid = None
                        /\ (\A d \in OnPort(q)' : ~Served(d)') => exes[q].pid = None
        BY <1>1 DEF Cleared
    <2>1. CASE q = p
        <3>1. \A d \in OnPort(p) : ~Served(d) /\ handler[d] # "served"
            BY <1>13, <2>1 DEF Busy, Served
        <3>2. pids[p].pid = None /\ exes[p].pid = None
            BY <1>13, <2>1, <3>1 DEF XInv, Cleared
        <3>3. c \in OnPort(p)' /\ handler'[c] = "served" /\ Served(c)'
            BY <1>2, <1>5 DEF OnPort, Served
        <3> QED BY <2>1, <3>2, <3>3
    <2>2. CASE q # p
        <3>1. OnPort(q)' = OnPort(q) /\ c \notin OnPort(q) /\ q \in Ports \ mixed
            BY <1>12, <1>13, <2>2
        <3>2. \A d \in OnPort(q) : handler'[d] = handler[d] /\ owner'[d] = owner[d] /\ (Served(d)' <=> Served(d))
            BY <1>5, <3>1 DEF OnPort, Served
        <3> QED BY <3>1, <3>2 DEF XInv, Cleared
    <2> QED BY <2>1, <2>2
<1>17. Sole'
    <2> SUFFICES ASSUME NEW d \in open', owner'[d] \in Processes,
                        NEW e \in Conns, port'[e] = port'[d], owner'[e] \in Processes
                 PROVE  e <= d
        BY DEF Sole, Local, Newest, OnPort
    <2>1. CASE d = c
        BY <1>5, <1>11, <2>1
    <2>2. CASE d # c
        <3>1. d \in open /\ d \in Conns /\ Local(d) /\ port'[d] = port[d]
            BY <1>1, <1>3, <1>5, <2>2 DEF Local
        <3>2. e # c
            BY <1>1, <1>5, <3>1 DEF OnPort
        <3> QED BY <1>5, <3>1, <3>2 DEF XInv, Sole, Newest, OnPort, Local
    <2> QED BY <2>1, <2>2
<1>18. Settled'
    <2> SUFFICES ASSUME NEW q \in healed'
                 PROVE  \E d \in OnPort(q)' :
                            /\ Local(d)' /\ Newest(d)'
                            /\ {pids[q].pid, exes[q].pid} \subseteq {owner'[d], None}
                            /\ \A e \in OnPort(q)' : lookup'[e].at = "insert" => lookup'[e].pid = owner'[d]
        BY <1>1 DEF Settled
    <2>1. q \in healed /\ q \in Ports /\ (q = p => w \notin Processes)
        BY <1>1 DEF XInv, ResolverTypeOK
    <2>2. PICK d \in OnPort(q) :
              /\ Local(d) /\ Newest(d)
              /\ {pids[q].pid, exes[q].pid} \subseteq {owner[d], None}
              /\ \A e \in OnPort(q) : lookup[e].at = "insert" => lookup[e].pid = owner[d]
        BY <2>1 DEF XInv, Settled
    <2>3. d # c /\ d \in Conns /\ port[d] = q
        BY <2>1, <2>2, <1>7 DEF OnPort
    <2>4. d \in OnPort(q)' /\ Local(d)' /\ owner'[d] = owner[d]
        BY <1>5, <2>2, <2>3 DEF OnPort, Local
    <2>5. \A e \in OnPort(q)' : e \in OnPort(q) \/ (e = c /\ q = p)
        BY <1>5 DEF OnPort
    <2>6. \A e \in OnPort(q)' : lookup'[e].at = "insert" => lookup'[e].pid = owner'[d]
        BY <1>5, <2>2, <2>4, <2>5 DEF OnPort
    <2>7. Newest(d)'
        <3> SUFFICES ASSUME NEW e \in OnPort(q)', owner'[e] \in Processes PROVE e <= d
            BY <2>3, <2>4 DEF Newest, Local, OnPort
        <3>1. e # c
            BY <1>5, <2>1 DEF OnPort
        <3> QED BY <1>5, <2>2, <2>3, <2>5, <3>1 DEF Newest, Local, OnPort
    <2> QED BY <2>2, <2>4, <2>6, <2>7
<1> QED BY <1>8, <1>9, <1>14, <1>15, <1>16, <1>17, <1>18 DEF XInv

\* Nothing is new but that less is open, less is cached, or it is older.
LEMMA LosingKeepsInv ==
    ASSUME XInv, open' \subseteq open, UNCHANGED <<made, port, owner, handler, lookup, name, events, history>>,
           pids' \in [Ports -> Entry], exes' \in [Ports -> Entry],
           \A q \in Ports : pids'[q].pid \in {None, pids[q].pid} /\ exes'[q].pid \in {None, exes[q].pid}
    PROVE  XInv'
<1>1. ResolverTypeOK' /\ Made' /\ Alone' /\ Owned'
    BY DEF history, XInv, ResolverTypeOK, Made, Local, Alone, Busy, Asking, Served, Reported, Owned
<1>2. Cleared'
    BY DEF history, XInv, Cleared, OnPort, Served
<1>3. Sole'
    BY DEF history, XInv, Sole, Local, Newest, OnPort
<1>4. Settled'
    <2> SUFFICES ASSUME NEW q \in healed
                 PROVE  \E d \in OnPort(q) :
                            /\ Local(d) /\ Newest(d)
                            /\ {pids'[q].pid, exes'[q].pid} \subseteq {owner[d], None}
                            /\ \A e \in OnPort(q) : lookup[e].at = "insert" => lookup[e].pid = owner[d]
        BY DEF Settled, Local, Newest, OnPort, history
    <2>1. q \in Ports
        BY DEF XInv, ResolverTypeOK
    <2> QED BY <2>1 DEF XInv, Settled
<1> QED BY <1>1, <1>2, <1>3, <1>4 DEF XInv

\* The trace's callback: the event's connection is the one that is being served
\* on its port, or the port is mixed.
LEMMA EventKeepsInv ==
    ASSUME XInv, Event
    PROVE  XInv'
<1>0. PICK c, p, pid : c = Head(events) /\ p = port[c] /\ pid = owner[c]
    OBVIOUS
<1>1. /\ events # <<>> /\ events' = Tail(events)
      /\ pids' = Evicted(With(pids, p, pid)) /\ exes' = Evicted(Without(exes, p))
      /\ healed' = IF Newest(c) /\ ~\E d \in Conns : Overtakes(d, c)
                   THEN healed \union {p} ELSE healed \ {p}
      /\ UNCHANGED <<made, port, owner, open, handler, lookup, name, mixed>>
    BY <1>0 DEF Event, clients
<1>2. events \in Seq(Conns) /\ events' \in Seq(Conns) /\ 1 \in DOMAIN events /\ events[1] = c
    BY <1>0, <1>1, LenProperties, EmptySeq, HeadTailProperties DEF XInv, ResolverTypeOK
<1>3. c \in Conns /\ c <= made /\ Local(c) /\ p \in Ports /\ pid \in Processes
    BY <1>0, <1>2, ElementOfSeq DEF XInv, ResolverTypeOK, Made, Local
<1>4. \A i \in DOMAIN events' : i + 1 \in DOMAIN events /\ events'[i] = events[i + 1]
    BY <1>1, <1>2, LenProperties, HeadTailProperties
<1>5. ~Reported(c) /\ \A d \in Conns : Reported(d) => Reported(d)'
    BY <1>2, <1>4 DEF Reported
<1>6. pids \in [Ports -> Entry] /\ exes \in [Ports -> Entry]
    BY DEF XInv, ResolverTypeOK
<1>7. /\ pids' \in [Ports -> Entry] /\ exes' \in [Ports -> Entry]
      /\ pids'[p].pid \in {None, pid} /\ exes'[p].pid = None
      /\ \A q \in Ports \ {p} : pids'[q].pid \in {None, pids[q].pid} /\ exes'[q].pid \in {None, exes[q].pid}
    <2>1. /\ With(pids, p, pid) \in [Ports -> Entry] /\ With(pids, p, pid)[p].pid = pid
          /\ \A q \in Ports \ {p} : With(pids, p, pid)[q] = pids[q]
        BY <1>3, <1>6 DEF With, Entry
    <2>2. /\ Without(exes, p) \in [Ports -> Entry] /\ Without(exes, p)[p].pid = None
          /\ \A q \in Ports \ {p} : Without(exes, p)[q] = exes[q]
        BY <1>3, <1>6 DEF Without, Entry, Absent
    <2> QED BY <1>1, <1>3, <2>1, <2>2, EvictedFacts DEF Absent
<1>8. ResolverTypeOK'
    BY <1>1, <1>2, <1>3, <1>7 DEF XInv, ResolverTypeOK
<1>9. Made'
    BY <1>1, <1>4 DEF XInv, Made, Local
<1>10. Alone' /\ Owned'
    BY <1>1, <1>5 DEF XInv, Alone, Owned, Busy, Asking, Served
<1>11. Cleared'
    <2> SUFFICES ASSUME NEW q \in Ports \ mixed
                 PROVE  /\ \A d \in OnPort(q) : handler[d] = "served" =>
                               {pids'[q].pid, exes'[q].pid} \subseteq {None, owner[d]}
                        /\ (\A d \in OnPort(q) : handler[d] # "served") => pids'[q].pid = None
                        /\ (\A d \in OnPort(q) : ~Served(d)) => exes'[q].pid = None
        BY <1>1 DEF Cleared, OnPort, Served
    <2>1. CASE q # p
        BY <1>7, <2>1 DEF XInv, Cleared
    <2>2. CASE q = p
        <3>1. c \in OnPort(p) /\ handler[c] = "served"
            BY <1>0, <1>3, <1>5, <2>2 DEF XInv, Owned, Made, ResolverTypeOK, OnPort, Conns
        <3>2. \A d \in OnPort(p) : handler[d] = "served" => d = c
            BY <1>0, <1>3, <1>5, <2>2, <3>1 DEF XInv, Alone, Busy, Served, OnPort, Conns
        <3> QED BY <1>0, <1>7, <2>2, <3>1, <3>2
    <2> QED BY <2>1, <2>2
<1>12. Sole'
    BY <1>1 DEF XInv, Sole, Local, Newest, OnPort
<1>13. Settled'
    <2> SUFFICES ASSUME NEW q \in healed'
                 PROVE  \E d \in OnPort(q) :
                            /\ Local(d) /\ Newest(d)
                            /\ {pids'[q].pid, exes'[q].pid} \subseteq {owner[d], None}
                            /\ \A e \in OnPort(q) : lookup[e].at = "insert" => lookup[e].pid = owner[d]
        BY <1>1 DEF Settled, Local, Newest, OnPort
    <2>1. CASE q # p
        <3>1. q \in healed /\ q \in Ports
            BY <1>1, <2>1 DEF XInv, ResolverTypeOK
        <3> QED BY <1>7, <2>1, <3>1 DEF XInv, Settled
    <2>2. CASE q = p
        <3>1. Newest(c) /\ ~\E d \in Conns : Overtakes(d, c)
            BY <1>1, <2>2
        <3>2. c \in OnPort(q) /\ {pids'[q].pid, exes'[q].pid} \subseteq {owner[c], None}
            BY <1>0, <1>3, <1>7, <2>2 DEF OnPort
        <3>3. \A e \in OnPort(q) : lookup[e].at = "insert" => lookup[e].pid = owner[c]
            BY <1>0, <2>2, <3>1 DEF Overtakes, OnPort
        <3> QED BY <1>3, <3>1, <3>2, <3>3
    <2> QED BY <2>1, <2>2
<1> QED BY <1>8, <1>9, <1>10, <1>11, <1>12, <1>13 DEF XInv

\* The first lock of remove.
LEMMA RemovePidKeepsInv ==
    ASSUME XInv, NEW c \in Conns, RemovePid(c)
    PROVE  XInv'
<1>0. PICK p : p = port[c]
    OBVIOUS
<1>1. /\ handler[c] = "served" /\ handler' = [handler EXCEPT ![c] = "removing"]
      /\ pids' = Without(pids, p)
      /\ mixed' = IF Asking(c) \/ ~Reported(c) THEN mixed \union {p} ELSE mixed
      /\ UNCHANGED <<made, port, owner, open, lookup, name, exes, events, healed>>
    BY <1>0 DEF RemovePid, clients
<1>2. handler \in [Conns -> {"none", "served", "removing", "ended"}] /\ pids \in [Ports -> Entry]
    BY DEF XInv, ResolverTypeOK
<1>3. p \in Ports
    BY <1>0, <1>1 DEF XInv, ResolverTypeOK, Made, Conns
<1>4. handler'[c] = "removing" /\ \A d \in Conns \ {c} : handler'[d] = handler[d]
    BY <1>1, <1>2
<1>5. /\ pids' \in [Ports -> Entry] /\ pids'[p].pid = None
      /\ \A q \in Ports \ {p} : pids'[q] = pids[q]
    BY <1>1, <1>2, <1>3 DEF Without, Entry, Absent
<1>6. ResolverTypeOK'
    BY <1>1, <1>2, <1>3, <1>5 DEF XInv, ResolverTypeOK
<1>7. Made'
    BY <1>1, <1>4 DEF XInv, Made, Local
<1>8. mixed \subseteq mixed' /\ \A d \in Conns : Served(d)' <=> Served(d)
    BY <1>1, <1>4 DEF Served
<1>9. Alone'
    BY <1>1, <1>8 DEF XInv, Alone, Busy, Asking, Reported
<1>10. Owned'
    BY <1>0, <1>1, <1>3, <1>4, <1>8 DEF XInv, Owned, Asking, Reported
<1>11. Cleared'
    <2> SUFFICES ASSUME NEW q \in Ports \ mixed'
                 PROVE  /\ \A d \in OnPort(q) : handler'[d] = "served" =>
                               {pids'[q].pid, exes[q].pid} \subseteq {None, owner[d]}
                        /\ (\A d \in OnPort(q) : handler'[d] # "served") => pids'[q].pid = None
                        /\ (\A d \in OnPort(q) : ~Served(d)) => exes[q].pid = None
        BY <1>1, <1>8 DEF Cleared, OnPort
    <2>1. CASE q = p
        BY <1>4, <1>5, <1>8, <2>1 DEF XInv, Cleared, OnPort
    <2>2. CASE q # p
        BY <1>0, <1>4, <1>5, <1>8, <2>2 DEF XInv, Cleared, OnPort
    <2> QED BY <2>1, <2>2
<1>12. Sole'
    BY <1>1 DEF XInv, Sole, Local, Newest, OnPort
<1>13. Settled'
    <2> SUFFICES ASSUME NEW q \in healed
                 PROVE  \E d \in OnPort(q) :
                            /\ Local(d) /\ Newest(d)
                            /\ {pids'[q].pid, exes[q].pid} \subseteq {owner[d], None}
                            /\ \A e \in OnPort(q) : lookup[e].at = "insert" => lookup[e].pid = owner[d]
        BY <1>1 DEF Settled, Local, Newest, OnPort
    <2>1. q \in Ports /\ pids'[q].pid \in {None, pids[q].pid}
        BY <1>5 DEF XInv, ResolverTypeOK
    <2> QED BY <2>1 DEF XInv, Settled
<1> QED BY <1>6, <1>7, <1>9, <1>10, <1>11, <1>12, <1>13 DEF XInv

\* The second.
LEMMA RemoveExeKeepsInv ==
    ASSUME XInv, NEW c \in Conns, RemoveExe(c)
    PROVE  XInv'
<1>0. PICK p : p = port[c]
    OBVIOUS
<1>1. /\ handler[c] = "removing" /\ handler' = [handler EXCEPT ![c] = "ended"]
      /\ exes' = Without(exes, p)
      /\ UNCHANGED <<made, port, owner, open, lookup, name, pids, events, mixed, healed>>
    BY <1>0 DEF RemoveExe, clients, history
<1>2. handler \in [Conns -> {"none", "served", "removing", "ended"}] /\ exes \in [Ports -> Entry]
    BY DEF XInv, ResolverTypeOK
<1>3. p \in Ports
    BY <1>0, <1>1 DEF XInv, ResolverTypeOK, Made, Conns
<1>4. handler'[c] = "ended" /\ \A d \in Conns \ {c} : handler'[d] = handler[d]
    BY <1>1, <1>2
<1>5. /\ exes' \in [Ports -> Entry] /\ exes'[p].pid = None
      /\ \A q \in Ports \ {p} : exes'[q] = exes[q]
    BY <1>1, <1>2, <1>3 DEF Without, Entry, Absent
<1>6. ResolverTypeOK'
    BY <1>1, <1>2, <1>5 DEF XInv, ResolverTypeOK
<1>7. Made'
    BY <1>1, <1>4 DEF XInv, Made, Local
<1>8. \A d \in Conns : /\ handler'[d] = "served" <=> handler[d] = "served"
                       /\ Served(d)' => Served(d)
                       /\ port[d] # p => (Served(d)' <=> Served(d))
    BY <1>0, <1>1, <1>4 DEF Served
<1>9. Alone'
    BY <1>1, <1>8 DEF XInv, Alone, Busy, Asking, Reported
<1>10. Owned'
    BY <1>1, <1>4 DEF XInv, Owned, Asking, Reported
<1>11. Cleared'
    <2> SUFFICES ASSUME NEW q \in Ports \ mixed
                 PROVE  /\ \A d \in OnPort(q) : handler[d] = "served" =>
                               {pids[q].pid, exes'[q].pid} \subseteq {None, owner[d]}
                        /\ (\A d \in OnPort(q) : handler[d] # "served") => pids[q].pid = None
                        /\ (\A d \in OnPort(q) : ~Served(d)') => exes'[q].pid = None
        BY <1>1, <1>8 DEF Cleared, OnPort
    <2>1. CASE q = p
        BY <1>5, <2>1 DEF XInv, Cleared, OnPort
    <2>2. CASE q # p
        BY <1>5, <1>8, <2>2 DEF XInv, Cleared, OnPort
    <2> QED BY <2>1, <2>2
<1>12. Sole'
    BY <1>1 DEF XInv, Sole, Local, Newest, OnPort
<1>13. Settled'
    <2> SUFFICES ASSUME NEW q \in healed
                 PROVE  \E d \in OnPort(q) :
                            /\ Local(d) /\ Newest(d)
                            /\ {pids[q].pid, exes'[q].pid} \subseteq {owner[d], None}
                            /\ \A e \in OnPort(q) : lookup[e].at = "insert" => lookup[e].pid = owner[d]
        BY <1>1 DEF Settled, Local, Newest, OnPort
    <2>1. q \in Ports /\ exes'[q].pid \in {None, exes[q].pid}
        BY <1>5 DEF XInv, ResolverTypeOK
    <2> QED BY <2>1 DEF XInv, Settled
<1> QED BY <1>6, <1>7, <1>9, <1>10, <1>11, <1>12, <1>13 DEF XInv

LEMMA ResolverInit == Init => XInv
<1> SUFFICES ASSUME Init PROVE XInv
    OBVIOUS
<1>1. Absent \in Entry /\ Idle \in Seeking /\ Idle.at = "none" /\ Idle.pid = None
    BY DEF Absent, Entry, Idle, Seeking, Ats
<1>2. events = <<>> /\ events \in Seq(Conns) /\ DOMAIN events = {}
    BY DEF Init
<1>3. \A c \in Conns : port[c] \notin Ports /\ c > made /\ made \in 0..NConns
    BY ResolverAssumption DEF Init, Conns
<1>4. ResolverTypeOK
    BY <1>1, <1>2, <1>3, ResolverAssumption DEF Init, ResolverTypeOK, Seeking, Conns
<1>5. Made
    BY <1>1, <1>2 DEF Init, Made
<1>6. Alone /\ Owned
    BY <1>3 DEF Alone, Owned
<1>7. Cleared
    BY <1>1, <1>3 DEF Init, Cleared, OnPort, Absent
<1>8. Sole /\ Settled
    BY DEF Init, Sole, Settled
<1> QED BY <1>4, <1>5, <1>6, <1>7, <1>8 DEF XInv

LEMMA ResolverStep == XInv /\ [Next]_vars => XInv'
<1> SUFFICES ASSUME XInv, [Next]_vars PROVE XInv'
    OBVIOUS
<1>1. pids \in [Ports -> Entry] /\ exes \in [Ports -> Entry]
    BY DEF XInv, ResolverTypeOK
<1>2. CASE \E p \in Ports, w \in Processes \union {Elsewhere} : Connect(p, w)
    BY <1>2, ConnectKeepsInv
<1>3. CASE \E c \in Conns : Close(c)
    BY <1>1, <1>3, LosingKeepsInv DEF Close, caches
<1>4. CASE \E c \in Conns : Lookup(c)
    BY <1>4, LookingKeepsInv, CachingKeepsInv DEF Lookup
<1>5. CASE \E c \in Conns : RemovePid(c) \/ RemoveExe(c)
    BY <1>5, RemovePidKeepsInv, RemoveExeKeepsInv
<1>6. CASE Event
    BY <1>6, EventKeepsInv
<1>7. CASE Tick
    BY <1>1, <1>7, AgedFacts, LosingKeepsInv DEF Tick, clients
<1>8. CASE UNCHANGED vars
    BY <1>1, <1>8, LosingKeepsInv DEF vars, clients, caches
<1> QED BY <1>2, <1>3, <1>4, <1>5, <1>6, <1>7, <1>8 DEF Next

-----------------------------------------------------------------------------
(* Theorems.                                                               *)

\* What the caches, the lookups and the trace's events have to do with the
\* connections, whatever their order.
THEOREM ResolverInvariant == Spec => []XInv
<1> QED BY ResolverInit, ResolverStep, PTL DEF Spec

\* set_exe_name is given the connection's own process wherever the work for
\* two connections never met on a port.
THEOREM NamesAreRight == Spec => []NamedRight
<1>1. XInv => NamedRight
    <2> SUFFICES ASSUME XInv, NEW c \in Conns, name[c] # None, port[c] \notin mixed
                 PROVE  name[c] = owner[c]
        BY DEF NamedRight
    <2>1. port[c] \in Ports
        BY DEF XInv, ResolverTypeOK, Made, Conns
    <2> QED BY <2>1 DEF XInv, Owned
<1> QED BY <1>1, ResolverInvariant, PTL

\* remove leaves nothing of such a connection in port_to_pid or port_to_exe.
THEOREM NothingIsLeft == Spec => []NothingLeft
<1>1. XInv => NothingLeft
    BY DEF XInv, Cleared, NothingLeft, Busy, Served
<1> QED BY <1>1, ResolverInvariant, PTL

\* After the callback for a port's newest local connection, with no scan just
\* finished, no lookup under way brings another process into either cache.
THEOREM EventsHeal == Spec => []EventHeals
<1>1. XInv => EventHeals
    BY DEF XInv, Settled, EventHeals
<1> QED BY <1>1, ResolverInvariant, PTL

\* An insertion that overflows a cache leaves fresh entries only.
LEMMA InsertionIsFresh ==
    ASSUME NEW cache \in [Ports -> Entry], NEW with \in [Ports -> Entry]
    PROVE  Cardinality(Cached(Evicted(with))) > Capacity =>
               \A p \in Cached(Evicted(with)) : Evicted(with)[p].age < TTL
<1>1. Cached(Evicted(with)) = {p \in Ports : Evicted(with)[p].pid # None}
    BY EvictedFacts DEF Cached
<1>2. CASE Cardinality(Cached(with)) > Capacity
    BY <1>1, <1>2, ResolverAssumption DEF Evicted, Absent, Entry
<1>3. CASE ~(Cardinality(Cached(with)) > Capacity)
    BY <1>3 DEF Evicted
<1> QED BY <1>2, <1>3

LEMMA EvictionStep ==
    ASSUME XInv, Next
    PROVE  /\ OverflowIsFresh(pids, pids') /\ OverflowIsFresh(exes, exes')
           /\ \A p \in Ports : pids[p].pid # None /\ pids'[p].pid = None =>
                  \/ pids[p].age >= TTL
                  \/ \E c \in OnPort(p) : handler[c] = "served" /\ handler'[c] = "removing"
<1>1. pids \in [Ports -> Entry] /\ exes \in [Ports -> Entry]
    BY DEF XInv, ResolverTypeOK
<1>2. \A cache : OverflowIsFresh(cache, cache)
    BY DEF OverflowIsFresh, Grows
<1>3. ASSUME NEW cache \in [Ports -> Entry], NEW q \in Ports
      PROVE  OverflowIsFresh(cache, Without(cache, q))
    <2>1. /\ Without(cache, q)[q] = Absent /\ Absent.pid = None
          /\ \A p \in Ports : p # q => Without(cache, q)[p] = cache[p]
        BY <1>3 DEF Without, Absent
    <2>2. ~Grows(cache, Without(cache, q))
        BY <2>1 DEF Grows
    <2> QED BY <2>2 DEF OverflowIsFresh
<1>4. ASSUME NEW cache \in [Ports -> Entry]
      PROVE  OverflowIsFresh(cache, Aged(cache))
    BY <1>4, AgedFacts DEF OverflowIsFresh, Grows
<1>5. ASSUME NEW cache, NEW with \in [Ports -> Entry]
      PROVE  OverflowIsFresh(cache, Evicted(with))
    BY <1>5, InsertionIsFresh DEF OverflowIsFresh
<1>6. ASSUME NEW q \in Ports, NEW pid \in Processes, pids' = Evicted(With(pids, q, pid))
      PROVE  \A p \in Ports : pids[p].pid # None /\ pids'[p].pid = None => pids[p].age >= TTL
    <2>1. With(pids, q, pid) \in [Ports -> Entry] /\ With(pids, q, pid)[q] = [pid |-> pid, age |-> 0]
          /\ \A p \in Ports : p # q => With(pids, q, pid)[p] = pids[p]
        BY <1>1 DEF With, Entry
    <2>2. pid # None /\ TTL \in Nat
        BY ResolverAssumption
    <2> QED BY <1>1, <1>6, <2>1, <2>2, EvictedFacts DEF Entry
<1>7. CASE \E p \in Ports, w \in Processes \union {Elsewhere} : Connect(p, w)
    BY <1>2, <1>7 DEF Connect, caches
<1>8. CASE \E c \in Conns : Close(c) \/ LookAtExes(c) \/ LookAtPids(c) \/ Netstat(c) \/ Resolve(c) \/ Retry(c)
    BY <1>2, <1>8 DEF Close, LookAtExes, LookAtPids, Netstat, Resolve, Retry, caches
<1>9. CASE \E c \in Conns : InsertPid(c)
    <2>1. PICK c \in Conns : InsertPid(c)
        BY <1>9
    <2>2. /\ Asking(c) /\ lookup[c].pid \in Processes /\ port[c] \in Ports
        BY <2>1 DEF InsertPid, Asking, XInv, ResolverTypeOK, Made, Conns
    <2>3. /\ With(pids, port[c], lookup[c].pid) \in [Ports -> Entry]
          /\ pids' = Evicted(With(pids, port[c], lookup[c].pid)) /\ exes' = exes
        BY <1>1, <2>1, <2>2, CacheFacts DEF InsertPid
    <2> QED BY <1>2, <1>5, <1>6, <2>2, <2>3
<1>10. CASE \E c \in Conns : CacheExe(c)
    <2>1. PICK c \in Conns : CacheExe(c)
        BY <1>10
    <2>2. lookup[c].pid \in Processes /\ port[c] \in Ports
        BY <2>1 DEF CacheExe, XInv, ResolverTypeOK, Made, Conns
    <2>3. /\ With(exes, port[c], lookup[c].pid) \in [Ports -> Entry]
          /\ exes' = Evicted(With(exes, port[c], lookup[c].pid)) \/ exes' = exes
          /\ pids' = pids
        BY <1>1, <2>1, <2>2, CacheFacts DEF CacheExe
    <2> QED BY <1>2, <1>5, <2>3
<1>11. CASE Event
    <2>0. PICK c : c = Head(events)
        OBVIOUS
    <2>1. c \in Conns /\ c <= made /\ Local(c)
        BY <1>11, <2>0 DEF Event, XInv, ResolverTypeOK, Made
    <2>2. port[c] \in Ports /\ owner[c] \in Processes
        BY <2>1 DEF XInv, ResolverTypeOK, Local
    <2>3. /\ With(pids, port[c], owner[c]) \in [Ports -> Entry] /\ Without(exes, port[c]) \in [Ports -> Entry]
          /\ pids' = Evicted(With(pids, port[c], owner[c])) /\ exes' = Evicted(Without(exes, port[c]))
        BY <1>1, <1>11, <2>0, <2>2, CacheFacts DEF Event
    <2> QED BY <1>5, <1>6, <2>2, <2>3
<1>12. CASE \E c \in Conns : RemovePid(c)
    <2>1. PICK c \in Conns : RemovePid(c)
        BY <1>12
    <2>2. /\ handler[c] = "served" /\ handler'[c] = "removing" /\ port[c] \in Ports
          /\ pids' = Without(pids, port[c]) /\ exes' = exes
        BY <2>1 DEF RemovePid, XInv, ResolverTypeOK, Made, Conns
    <2>3. \A p \in Ports : p # port[c] => pids'[p] = pids[p]
        BY <1>1, <2>2 DEF Without
    <2> QED BY <1>1, <1>2, <1>3, <2>2, <2>3 DEF OnPort
<1>13. CASE \E c \in Conns : RemoveExe(c)
    <2>1. PICK c \in Conns : RemoveExe(c)
        BY <1>13
    <2>2. port[c] \in Ports /\ exes' = Without(exes, port[c]) /\ pids' = pids
        BY <2>1 DEF RemoveExe, XInv, ResolverTypeOK, Made, Conns
    <2> QED BY <1>1, <1>2, <1>3, <2>2
<1>14. CASE Tick
    BY <1>1, <1>4, <1>14, AgedFacts DEF Tick
<1> QED BY <1>7, <1>8, <1>9, <1>10, <1>11, <1>12, <1>13, <1>14 DEF Next, Lookup

\* Whoever inserts makes room by age alone, in every step from a state the
\* invariant allows, and only remove forgets a port's process earlier.
THEOREM EvictionGoesByAge == Spec => EvictionIsByAge
<1> DEFINE ByAge ==
        /\ OverflowIsFresh(pids, pids') /\ OverflowIsFresh(exes, exes')
        /\ \A p \in Ports : pids[p].pid # None /\ pids'[p].pid = None =>
               \/ pids[p].age >= TTL
               \/ \E c \in OnPort(p) : handler[c] = "served" /\ handler'[c] = "removing"
<1>1. XInv /\ [Next]_vars => [ByAge]_vars
    BY EvictionStep
<1> QED BY <1>1, ResolverInvariant, PTL DEF Spec, EvictionIsByAge
=============================================================================
