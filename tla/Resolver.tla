------------------------------ MODULE Resolver ------------------------------
(***************************************************************************)
(* The asynchronous DNS resolver (pjlib-util/resolver.c).                  *)
(*                                                                         *)
(* A query node (pj_dns_async_query) is an element of Nodes and q[n] its   *)
(* members; byId and byRes are the two hash tables of pending queries,     *)
(* free the list of recycled nodes, fresh what the pool has not given out  *)
(* yet, timers the nodes whose timer is in the heap.  A node that finds a  *)
(* pending one with its key becomes a child of it.  cache maps a key to an *)
(* entry of Entries and ref counts the users of an entry.  The callback of *)
(* a node is the start_query call it was made by, an element of Queries.   *)
(*                                                                         *)
(* Everything done under the group lock is one step.  The callbacks of the *)
(* application run with the lock released: there a worker goes from node   *)
(* to node, loading cb in one step and calling it in the next.  With a     *)
(* heap of its own the resolver polls it under the group lock, which its   *)
(* worker then holds across those steps too (held); if timer heap and      *)
(* ioqueue are the application's, they are polled without.  The steps of   *)
(* the application stand for those of its threads and of its callbacks.    *)
(*                                                                         *)
(* Time is a choice: a timer may elapse at any time, an entry of the cache *)
(* or the state of a name server may have expired whenever it is examined. *)
(* Of the name servers rt_delay is left out: any active one may be best.   *)
(*                                                                         *)
(* The application is history: handle[t] is the node start_query gave out, *)
(* until its callback has run or it was cancelled, call[t] how often the   *)
(* callback ran, cancel[t] how it was cancelled.  using[t] is the entry a  *)
(* callback reads and torn has the callbacks whose entry was written to.   *)
(***************************************************************************)
EXTENDS Naturals, FiniteSets, SequencesExt

CONSTANTS Queries,         \* calls of start_query
          Keys,            \* resources, a name and a type each
          Nodes, Entries,  \* memory of the query nodes and of the cache entries
          Servers,         \* name servers
          Workers,         \* threads that poll the resolver
          RetrCount,       \* settings.qretr_count
          MaxId,           \* bound: the transaction ids handed out
          None

ASSUME ResolverAssumption ==
  /\ RetrCount \in Nat /\ MaxId \in Nat /\ Nodes \subseteq Nat /\ Entries \subseteq Nat
  /\ None \notin Nodes \cup Entries \cup Queries \cup Keys \cup Workers
  /\ IsFiniteSet(Queries) /\ IsFiniteSet(Keys) /\ IsFiniteSet(Nodes) /\ IsFiniteSet(Entries)
  /\ Cardinality(Nodes) >= Cardinality(Queries)
  /\ Cardinality(Entries) >= Cardinality(Keys) + Cardinality(Queries)

VARIABLES own_timer, alive, held, ns, last_id,
          q, byId, byRes, free, fresh, timers, net, work,
          cache, ref,
          handle, call, cancel, late, using, torn
table   == <<byId, byRes, free, fresh>>
caching == <<cache, ref, using, torn>>
client  == <<handle, call, cancel, late>>
vars == <<own_timer, alive, held, ns, last_id, q, timers, net, work, table, caching, client>>

NoNode == [cb |-> None, id |-> 0, cnt |-> 0, key |-> None, timer |-> 0, child |-> <<>>]
Idle   == [pc |-> "idle", node |-> None, of |-> None, todo |-> <<>>, cb |-> None,
           status |-> "none"]

Init ==
  /\ own_timer \in BOOLEAN /\ alive = TRUE /\ held = None
  /\ ns = <<>> /\ last_id = 1
  /\ q = [n \in Nodes |-> NoNode]
  /\ byId = <<>> /\ byRes = <<>> /\ free = <<>> /\ fresh = Nodes /\ timers = {}
  /\ net = {} /\ work = [w \in Workers |-> Idle]
  /\ cache = <<>> /\ ref = [e \in Entries |-> 0] /\ torn = {}
  /\ handle = [t \in Queries |-> None] /\ call = [t \in Queries |-> 0]
  /\ cancel = [t \in Queries |-> "no"] /\ late = {} /\ using = <<>>

Least(S) == CHOOSE x \in S : \A y \in S : x <= y
Without(f, S) == [x \in DOMAIN f \ S |-> f[x]]
With(f, x, y) == [z \in DOMAIN f \cup {x} |-> IF z = x THEN y ELSE f[z]]

-----------------------------------------------------------------------------
(* pj_dns_resolver_set_ns.                                                 *)
SetNs(S) == /\ alive /\ S # {}
            /\ ns' = [s \in S |-> "ACTIVE"]
            /\ UNCHANGED <<own_timer, alive, held, last_id, q, timers, net, work, table,
                           caching, client>>

(* select_nameservers with set_nameserver_state, the states of the servers *)
(* in expired having run out: the best active one and those to be probed.  *)
Probed(expired) == {s \in DOMAIN ns : s \in expired <=> ns[s] # "PROBING"}
Best == {s \in DOMAIN ns : ns[s] = "ACTIVE"}
Selections(expired) == IF Best = {} THEN {Probed(expired)}
                                    ELSE {Probed(expired) \cup {s} : s \in Best}
NsAfter(expired) ==
  [s \in DOMAIN ns |-> IF s \notin expired THEN ns[s]
                       ELSE IF ns[s] = "PROBING" THEN "BAD" ELSE "PROBING"]

(* What transmit_query may come to for node n: with the timer running the  *)
(* packet goes to those of the selected servers whose sendto succeeds, or  *)
(* to nobody while the socket is busy with an earlier packet.              *)
Outcome(ok, expired, tm, id, sent) ==
  [ok |-> ok, ns |-> NsAfter(expired), timers |-> tm, timer |-> id, sent |-> sent]
(* (Fault: a retransmission leaves its timer to the first transmission.)   *)
ArmedOnce(n) == IF q[n].cnt = 0 THEN timers \cup {n} ELSE timers
Armed(n) == timers \cup {n}
Transmissions(n) == UNION UNION
  {{ IF servers = {} THEN {Outcome(FALSE, x, timers, 0, {})}
     ELSE IF n \in timers THEN {Outcome(FALSE, x, timers, 1, {})}
     ELSE {Outcome(FALSE, x, timers, 1, {})} \cup
          {Outcome(TRUE, x, Armed(n), 1, sent) :
             sent \in IF alive THEN SUBSET servers ELSE {{}}}
     : servers \in Selections(x)} : x \in SUBSET DOMAIN ns}

Requests(id, servers) == {[id |-> id, from |-> s] : s \in servers}

-----------------------------------------------------------------------------
(* The cache.  Released(k) are the counts once key k has lost its entry,   *)
(* an entry without a user being freed.                                    *)
Released(k) == IF k \in DOMAIN cache THEN [ref EXCEPT ![cache[k]] = @ - 1] ELSE ref

InPlace(k) == k \in DOMAIN cache /\ ref[cache[k]] = 1

(* update_res_cache: ok is the status, zero a time to live of zero, which  *)
(* the answer may have, PJ_DNS_RESOLVER_INVALID_TTL for a failed one or    *)
(* cache_max_ttl for any.  A failed answer clears the entry first.  An     *)
(* entry that a callback is using is left to it and replaced.              *)
Readers(e) == {t \in DOMAIN using : using[t] = e}
UpdateResCache(k, ok, zero) ==
  IF zero
  THEN /\ cache' = Without(cache, {k}) /\ ref' = Released(k)
       /\ UNCHANGED torn
  ELSE IF ok /\ InPlace(k)
  THEN /\ torn' = torn \cup Readers(cache[k])
       /\ UNCHANGED <<cache, ref>>
  ELSE LET e == Least({x \in Entries : Released(k)[x] = 0})
       IN  /\ cache' = With(cache, k, e)
           /\ ref' = [Released(k) EXCEPT ![e] = 1]
           /\ torn' = torn \cup Readers(e)

(* pj_dns_resolver_add_entry.                                              *)
AddEntry(k, zero) ==
  /\ alive
  /\ UpdateResCache(k, TRUE, zero)
  /\ UNCHANGED <<own_timer, alive, held, ns, last_id, q, timers, net, work, table, using, client>>

-----------------------------------------------------------------------------
(* alloc_qnode: the node, and what is left of the two sources of nodes.    *)
AllocQNode == IF free # <<>> THEN [node |-> Head(free), free |-> Tail(free), fresh |-> fresh]
              ELSE [node |-> Least(fresh), free |-> free, fresh |-> fresh \ {Least(fresh)}]

(* A bound of the model, not a guard of the code: alloc_qnode zeroes the   *)
(* node, and the model does not go on where its timer entry is in the heap *)
(* at that moment, which leaves the heap without meaning.  With a heap of  *)
(* its own the resolver never gets there (NodesSound: only pending queries *)
(* have a timer).  With a shared one a timeout taken for that of a later   *)
(* query of the same node (see TimeoutIsOwn) can end that query and have   *)
(* its node recycled with the timer running.                               *)
Intact(n) == n \notin timers

Accept(t, n) == handle' = [handle EXCEPT ![t] = n]

(* (Fault: the entry is given to the callback without a reference.)        *)
LentUncounted(e) == ref
Lent(e) == [ref EXCEPT ![e] = @ + 1]

(* pj_dns_resolver_start_query: the resource is in the cache and has not   *)
(* expired.  The callback runs, the lock released, until CachedDone.       *)
StartCached(t, k) ==
  /\ alive /\ handle[t] = None /\ call[t] = 0 /\ cancel[t] = "no"
  /\ k \in DOMAIN cache
  /\ ref' = Lent(cache[k])
  /\ using' = With(using, t, cache[k])
  /\ call' = [call EXCEPT ![t] = @ + 1]
  /\ UNCHANGED <<own_timer, alive, held, ns, last_id, q, timers, net, work, table,
                 cache, torn, handle, cancel, late>>

CachedDone(t) ==
  /\ t \in DOMAIN using
  /\ ref' = [ref EXCEPT ![using[t]] = @ - 1]
  /\ using' = Without(using, {t})
  /\ UNCHANGED <<own_timer, alive, held, ns, last_id, q, timers, net, work, table,
                 cache, torn, client>>

(* It is not, or it has expired: then the table gives it up and the call   *)
(* goes on with a query, a child of the pending one with its key or one of *)
(* its own, which is in the tables only if it was transmitted.             *)
StartMissed(t, k) ==
  /\ alive /\ handle[t] = None /\ call[t] = 0 /\ cancel[t] = "no"
  /\ cache' = Without(cache, {k}) /\ ref' = Released(k)
  /\ UNCHANGED <<own_timer, alive, held, work, using, torn, call, cancel, late>>

StartChild(t, k) ==
  /\ k \in DOMAIN byRes
  /\ StartMissed(t, k)
  /\ LET a == AllocQNode
     IN  /\ Intact(a.node)
         /\ q' = [q EXCEPT ![a.node] = [NoNode EXCEPT !.cb = t],
                           ![byRes[k]].child = Append(@, a.node)]
         /\ free' = a.free /\ fresh' = a.fresh
         /\ Accept(t, a.node)
  /\ UNCHANGED <<ns, last_id, timers, net, byId, byRes>>

StartRoot(t, k) ==
  /\ k \notin DOMAIN byRes /\ last_id <= MaxId
  /\ StartMissed(t, k)
  /\ last_id' = last_id + 1
  /\ LET a == AllocQNode
     IN  \E o \in Transmissions(a.node) :
           /\ Intact(a.node)
           /\ ns' = o.ns /\ timers' = o.timers /\ fresh' = a.fresh
           /\ net' = net \cup Requests(last_id, o.sent)
           /\ IF o.ok THEN /\ byId' = With(byId, last_id, a.node)
                           /\ byRes' = With(byRes, k, a.node)
                           /\ q' = [q EXCEPT ![a.node] =
                                     [cb |-> t, id |-> last_id, cnt |-> 1, key |-> k,
                                      timer |-> o.timer, child |-> <<>>]]
                           /\ free' = a.free
                           /\ Accept(t, a.node)
                      ELSE /\ free' = Append(a.free, a.node)
                           /\ UNCHANGED <<q, byId, byRes, handle>>

(* (Fault: the callback member survives the cancellation.)                 *)
CancelKeepsCb(t, notify) ==
  /\ alive /\ handle[t] # None
  /\ timers' = timers \ {handle[t]}
  /\ q' = [q EXCEPT ![handle[t]].timer = 0]
  /\ call' = IF notify THEN [call EXCEPT ![t] = @ + 1] ELSE call
  /\ handle' = [handle EXCEPT ![t] = None]
  /\ cancel' = [cancel EXCEPT ![t] = IF notify THEN "notified" ELSE "silent"]
  /\ UNCHANGED <<own_timer, alive, held, ns, last_id, net, work, table, caching, late>>

(* pj_dns_resolver_cancel_query, of a query whose callback the application *)
(* has not seen.  A cancelled timer is not scheduled again.  late are the  *)
(* calls whose callback a worker has already loaded.                       *)
CancelQuery(t, notify) ==
  /\ alive /\ handle[t] # None
  /\ LET n == handle[t]
     IN  /\ timers' = IF q[n].timer = 1 THEN timers \ {n} ELSE timers
         /\ q' = [q EXCEPT ![n].timer = 0, ![n].cb = None]
  /\ call' = IF notify THEN [call EXCEPT ![t] = @ + 1] ELSE call
  /\ handle' = [handle EXCEPT ![t] = None]
  /\ cancel' = [cancel EXCEPT ![t] = IF notify THEN "notified" ELSE "silent"]
  /\ late' = IF \E w \in Workers : work[w].cb = t THEN late \cup {t} ELSE late
  /\ UNCHANGED <<own_timer, alive, held, ns, last_id, net, work, table, caching>>

-----------------------------------------------------------------------------
(* The workers.  CanLock: the group lock is free for w, which also holds   *)
(* in the callbacks that run under it.                                     *)
(* (Fault: the resolver polls its heap without the group lock.)            *)
CanLockAlways(w) == TRUE
CanLock(w) == held \in {None, w}
Pending(n) == q[n].id \in DOMAIN byId
Family(n) == <<n>> \o q[n].child

(* The query leaves both tables, found there by the members of its node.   *)
Forget(n) == /\ byId' = Without(byId, {q[n].id})
             /\ byRes' = Without(byRes, {q[n].key})

Notify(w, n, status) ==
  work' = [work EXCEPT ![w] = [pc |-> "notify", node |-> n, of |-> None, todo |-> Family(n),
                               cb |-> None, status |-> status]]
(* pj_timer_heap_poll, under the group lock if the heap is the resolver's, *)
(* up to the call of on_timeout.  of is history: the pending query whose   *)
(* timer it was.                                                           *)
Elapse(w, n) ==
  /\ work[w].pc = "idle" /\ n \in timers
  /\ IF own_timer THEN alive /\ CanLock(w) /\ held' = w
                  ELSE UNCHANGED held
  /\ timers' = timers \ {n}
  /\ work' = [work EXCEPT ![w] = [Idle EXCEPT !.pc = "elapsed", !.node = n, !.of = q[n].id]]
  /\ UNCHANGED <<own_timer, alive, ns, last_id, q, net, table, caching, client>>

Resume(w) == /\ work' = [work EXCEPT ![w] = Idle]
             /\ held' = IF held = w THEN None ELSE held

(* on_timeout once it has the lock: the query is done, it is transmitted   *)
(* again, or it has failed.                                                *)
TimeoutStale(w) ==
  /\ work[w].pc = "elapsed" /\ CanLock(w) /\ ~Pending(work[w].node)
  /\ Resume(w)
  /\ UNCHANGED <<own_timer, alive, ns, last_id, q, timers, net, table, caching, client>>

Retransmit(w) ==
  LET n == work[w].node
  IN  /\ work[w].pc = "elapsed" /\ CanLock(w) /\ Pending(n)
      /\ q[n].cnt < RetrCount
      /\ Resume(w)
      /\ \E o \in Transmissions(n) :
           /\ o.ok
           /\ ns' = o.ns /\ timers' = o.timers /\ net' = net \cup Requests(q[n].id, o.sent)
           /\ q' = [q EXCEPT ![n].timer = 1, ![n].cnt = @ + 1]
      /\ UNCHANGED <<own_timer, alive, last_id, table, caching, client>>

TimeOut(w) ==
  LET n == work[w].node
  IN  /\ work[w].pc = "elapsed" /\ CanLock(w) /\ Pending(n)
      /\ Forget(n)
      /\ Notify(w, n, "timeout")
      /\ \/ /\ q[n].cnt >= RetrCount
            /\ q' = [q EXCEPT ![n].timer = 0]
            /\ UNCHANGED <<ns, timers>>
         \/ /\ q[n].cnt < RetrCount
            /\ \E o \in Transmissions(n) :
                 /\ ~o.ok
                 /\ ns' = o.ns /\ timers' = o.timers
                 /\ q' = [q EXCEPT ![n].timer = o.timer]
      /\ UNCHANGED <<own_timer, alive, held, last_id, net, free, fresh, caching, client>>

(* A worker loads the callback of the next node, and calls what it loaded. *)
LoadCb(w) ==
  /\ work[w].pc = "notify" /\ work[w].todo # <<>> /\ work[w].cb = None
  /\ work' = [work EXCEPT ![w].cb = q[Head(work[w].todo)].cb,
                          ![w].todo = IF q[Head(@)].cb = None THEN Tail(@) ELSE @]
  /\ UNCHANGED <<own_timer, alive, held, ns, last_id, q, timers, net, table, caching, client>>

CallCb(w) ==
  /\ work[w].cb # None
  /\ call' = [call EXCEPT ![work[w].cb] = @ + 1]
  /\ handle' = [handle EXCEPT ![work[w].cb] = None]
  /\ work' = [work EXCEPT ![w].cb = None, ![w].todo = Tail(@)]
  /\ UNCHANGED <<own_timer, alive, held, ns, last_id, q, timers, net, table, caching,
                 cancel, late>>

(* The nodes are recycled, the children first.  What alloc_qnode zeroes    *)
(* when it gives a node out again is zeroed here.                          *)
Zeroed(S) == [n \in Nodes |-> IF n \in S THEN NoNode ELSE q[n]]
(* (Fault: the node is recycled once more.)                                *)
RecycledTwice(n) == free \o Family(n) \o <<n>>
Recycled(n) == free \o q[n].child \o <<n>>

Recycle(w) == LET n == work[w].node
              IN  /\ free' = Recycled(n)
                  /\ q' = Zeroed(ToSet(Family(n)))

Told(w) == work[w].pc = "notify" /\ work[w].todo = <<>> /\ CanLock(w)

TimeoutDone(w) ==
  /\ Told(w) /\ work[w].status = "timeout"
  /\ Recycle(w) /\ Resume(w)
  /\ UNCHANGED <<own_timer, alive, ns, last_id, timers, net, byId, byRes, fresh, caching, client>>

-----------------------------------------------------------------------------
(* report_nameserver_status: an unparseable or a refusing answer makes the *)
(* server bad, every other one makes it active.                            *)
Reported(from, rcode) ==
  IF from \notin DOMAIN ns THEN ns
  ELSE [ns EXCEPT ![from] = IF rcode \in {"garbage", "refused"} THEN "BAD" ELSE "ACTIVE"]

(* on_read_complete.  The next packet is read once this one is done with.  *)
(* net keeps what was ever sent: the network answers it late, several      *)
(* times or not at all.  pj_assert(q->timer_entry.id != 0) at :1757 is not *)
(* a guard: it fails for a query that was cancelled, whose id :1034 has    *)
(* set to 0, and a build without assertions goes on as here.               *)
Reading(w) == work[w].pc = "notify" /\ work[w].status # "timeout"

Receive(w, m, rcode) ==
  /\ alive /\ work[w].pc = "idle" /\ CanLock(w) /\ m \in net
  /\ \A v \in Workers : ~Reading(v)
  /\ ns' = Reported(m.from, rcode)
  /\ IF rcode = "garbage" \/ m.id \notin DOMAIN byId
     THEN UNCHANGED <<q, timers, byId, byRes, work>>
     ELSE LET n == byId[m.id]
          IN  /\ timers' = timers \ {n}
              /\ q' = [q EXCEPT ![n].timer = 0]
              /\ Forget(n)
              /\ Notify(w, n, IF rcode = "ok" THEN "ok" ELSE "failed")
  /\ UNCHANGED <<own_timer, alive, held, last_id, net, free, fresh, caching, client>>

ReadDone(w, zero) ==
  /\ Told(w) /\ Reading(w)
  /\ Recycle(w) /\ Resume(w)
  /\ UpdateResCache(q[work[w].node].key, work[w].status = "ok", zero)
  /\ UNCHANGED <<own_timer, alive, ns, last_id, timers, net, byId, byRes, fresh, using, client>>

-----------------------------------------------------------------------------
(* pj_dns_resolver_destroy, by an application that has nothing of the      *)
(* resolver under way.  The timers of a shared heap are left to it.        *)
Kin == UNION {ToSet(Family(byId[i])) : i \in DOMAIN byId}
Destroy(notify) ==
  /\ alive /\ using = <<>> /\ \A w \in Workers : work[w].pc = "idle"
  /\ alive' = FALSE
  /\ LET told == IF notify THEN {q[n].cb : n \in Kin} ELSE {}
     IN  /\ call' = [t \in Queries |-> IF t \in told THEN call[t] + 1 ELSE call[t]]
         /\ handle' = [t \in Queries |-> IF t \in told THEN None ELSE handle[t]]
  /\ cache' = <<>>
  /\ ref' = [e \in Entries |-> 0]
  /\ timers' = IF own_timer THEN {} ELSE timers
  /\ UNCHANGED <<own_timer, held, ns, last_id, q, net, work, table, using, torn,
                 cancel, late>>

-----------------------------------------------------------------------------
Application(t) == \/ \E k \in Keys : StartCached(t, k) \/ StartChild(t, k) \/ StartRoot(t, k)
                  \/ \E notify \in BOOLEAN : CancelQuery(t, notify)
OnTimeout(w) == TimeoutStale(w) \/ Retransmit(w) \/ TimeOut(w) \/ TimeoutDone(w)
OnRead(w) == \/ \E m \in net, rcode \in {"ok", "error", "refused", "garbage"} :
                  Receive(w, m, rcode)
             \/ \E zero \in BOOLEAN : ReadDone(w, zero)
Next == \/ \E t \in Queries : Application(t) \/ CachedDone(t)
        \/ \E k \in Keys, zero \in BOOLEAN : AddEntry(k, zero)
        \/ \E S \in SUBSET Servers : SetNs(S)
        \/ \E w \in Workers : OnTimeout(w) \/ OnRead(w) \/ LoadCb(w) \/ CallCb(w)
        \/ \E w \in Workers, n \in Nodes : Elapse(w, n)
        \/ \E notify \in BOOLEAN : Destroy(notify)

Spec == Init /\ [][Next]_vars

(* Timers elapse and a worker that has begun goes on; nothing is assumed   *)
(* of the network.                                                         *)
Fairness == /\ \A n \in Nodes : WF_vars(\E w \in Workers : Elapse(w, n))
            /\ \A w \in Workers : WF_vars(OnTimeout(w) \/ LoadCb(w) \/ CallCb(w)
                                           \/ \E zero \in BOOLEAN : ReadDone(w, zero))
FairSpec == Spec /\ Fairness

-----------------------------------------------------------------------------
Roots == {byId[i] : i \in DOMAIN byId}
BeingTold == {work[w].node : w \in {v \in Workers : work[v].pc = "notify"}}

(* Every query node is in one place: not given out yet, recycled once,     *)
(* pending, told about, or the child of one of these two; in a heap of the *)
(* resolver only a pending query has a timer running.  The nodes move      *)
(* between the lists under the lock and are walked through without it.     *)
NodesPlacedOnce ==
  LET heads == Roots \cup BeingTold
      place(n) == Cardinality({i \in DOMAIN free : free[i] = n})
                  + (IF n \in fresh THEN 1 ELSE 0)
                  + Cardinality({p \in heads \X (1..Cardinality(Nodes)) :
                                   /\ p[2] \in DOMAIN Family(p[1])
                                   /\ Family(p[1])[p[2]] = n})
  IN  /\ \A n \in Nodes : place(n) = 1
      /\ own_timer => timers \subseteq Roots

(* The two tables of pending queries hold the same nodes, each under its   *)
(* own id and key, so that a resource is never asked for twice at a time   *)
(* and an answer is told to the queries for its resource.                  *)
TablesAgree ==
  /\ \A i \in DOMAIN byId : q[byId[i]].id = i /\ q[byId[i]].key \in DOMAIN byRes
                            /\ byRes[q[byId[i]].key] = byId[i]
  /\ \A k \in DOMAIN byRes : byRes[k] \in Roots /\ q[byRes[k]].key = k

(* The lists and tables through which a node passes, from start_query to   *)
(* its recycling by whichever worker ends it.                              *)
NodesSound == NodesPlacedOnce /\ TablesAgree

(* The callback of a query runs at most once, and not at all when the      *)
(* query was cancelled silently.  Left out are the queries cancelled after *)
(* a worker had loaded their callback, and those that destroy left behind  *)
(* in a shared timer heap.                                                 *)
ToldOnce ==
  \A t \in Queries \ late :
    (alive \/ own_timer) => call[t] <= IF cancel[t] = "silent" THEN 0 ELSE 1

(* The count of a cache entry is the number of its users, the table and    *)
(* the callbacks it was lent to: it is freed neither early nor never.      *)
CacheCounted ==
  alive => \A e \in Entries :
    ref[e] = Cardinality({k \in DOMAIN cache : cache[k] = e})
             + Cardinality({t \in DOMAIN using : using[t] = e})

(* The packet that a callback is reading, with the lock released, is not   *)
(* overwritten under it, nor freed and given to another answer.            *)
LentUntouched == torn = {}

(* What the cache lends to callbacks that run with the lock released.      *)
CacheSound == CacheCounted /\ LentUntouched

(* A timeout that passes the recheck of on_timeout is the timeout of the   *)
(* query it then acts on.  A heap of the resolver's own is polled under    *)
(* the group lock, so that no answer comes in between.  It need not be so  *)
(* with a shared heap, in spite of the recheck at resolver.c:1575: the     *)
(* answer ends the query, another query takes the node, and the id that    *)
(* the node then has is found pending.                                     *)
OwnTimeout(w) == LET n == work[w].node
                 IN  work[w].pc = "elapsed" /\ Pending(n) => q[n].id = work[w].of
TimeoutIsOwn == own_timer => \A w \in Workers : OwnTimeout(w)

(* Every query that was taken is called back or cancelled, whatever        *)
(* becomes of the packets: none stays unsettled for ever.                  *)
Unsettled(t) == handle[t] # None /\ call[t] = 0 /\ cancel[t] = "no" /\ alive
EveryQueryAnswered == \A t \in Queries : []<>~Unsettled(t)

(* So is it with the children too, unless the pending query they joined    *)
(* has been cancelled.                                                     *)
Orphaned(t) == \E n \in Roots : handle[t] \in ToSet(q[n].child) /\ q[n].cb = None
AnsweredUnlessOrphaned == \A t \in Queries : []<>(~Unsettled(t) \/ Orphaned(t))
=============================================================================
