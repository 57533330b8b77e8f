--------------------------- MODULE ResolverProofs ---------------------------
(***************************************************************************)
(* Theorems about the DNS resolver.                                        *)
(*                                                                         *)
(* IInv is inductive.  It says of the nodes that free, fresh and the       *)
(* families of the pending queries and of those whose callbacks are being  *)
(* made are a partition of them (Placed); that no two workers have the     *)
(* same family (Shared); that the ids given out are below last_id, one to  *)
(* each head, and zero elsewhere (Numbered), which makes the table of ids  *)
(* an honest test of whether a node is pending; and that there are no more *)
(* nodes in use than calls of start_query were made (Enough), so that      *)
(* alloc_qnode finds one.  Of the cache it says that the count of an entry *)
(* is the number of its users: since there are more entries than possible  *)
(* users one of them is unused whenever update_res_cache looks for one.    *)
(*                                                                         *)
(* TimersSound and ToldInv are inductive relative to it.  TimersSound is   *)
(* about the timers in a heap of the resolver and the timeouts that        *)
(* workers have taken out of it; of a shared heap it says nothing.         *)
(* ToldInv says that the handle of the application and the callback in a   *)
(* node name each other from start_query on to the callback or the         *)
(* cancellation, whatever list the node is in meanwhile.                   *)
(***************************************************************************)
EXTENDS Resolver, Integers, SequenceTheorems, FiniteSetTheorems, WellFoundedInduction, TLAPS

-----------------------------------------------------------------------------
(* The inductive invariant.                                                *)
QueryNodes == [cb : Queries \cup {None}, id : Nat, cnt : Nat, key : Keys \cup {None},
               timer : {0, 1}, child : Seq(Nodes)]
Working == [pc : {"idle", "elapsed", "notify"}, node : Nodes \cup {None},
            of : Nat \cup {None}, todo : Seq(Nodes), cb : Queries \cup {None},
            status : {"none", "timeout", "ok", "failed"}]
NodeTypes == q \in [Nodes -> QueryNodes]
WorkTypes == /\ work \in [Workers -> Working]
             /\ \A w \in Workers :
                  /\ work[w].pc # "idle" => work[w].node \in Nodes
                  /\ work[w].cb # None => work[w].pc = "notify" /\ work[w].todo # <<>>
TableTypes == /\ last_id \in Nat \ {0} /\ timers \subseteq Nodes
              /\ byId \in [DOMAIN byId -> Nodes] /\ DOMAIN byId \subseteq 1 .. last_id - 1
              /\ byRes \in [DOMAIN byRes -> Nodes] /\ DOMAIN byRes \subseteq Keys
FreeTypes == free \in Seq(Nodes) /\ fresh \subseteq Nodes
ClientTypes == /\ handle \in [Queries -> Nodes \cup {None}] /\ call \in [Queries -> Nat]
               /\ cancel \in [Queries -> {"no", "silent", "notified"}]
CacheTypes == /\ cache \in [DOMAIN cache -> Entries] /\ DOMAIN cache \subseteq Keys
              /\ using \in [DOMAIN using -> Entries] /\ DOMAIN using \subseteq Queries
              /\ ref \in [Entries -> Nat]
LockTypes == own_timer \in BOOLEAN /\ alive \in BOOLEAN /\ held \in Workers \cup {None}

(* A sequence without repetition, and the nodes that are the first of a    *)
(* family.                                                                 *)
Distinct(s) == \A i, j \in DOMAIN s : s[i] = s[j] => i = j
Heads == Roots \cup BeingTold
Children(h) == ToSet(q[h].child)
Unused == ToSet(free) \cup fresh

Placed ==
  /\ Distinct(free) /\ ToSet(free) \cap fresh = {}
  /\ Heads \cap Unused = {}
  /\ \A h \in Heads : Distinct(q[h].child) /\ Children(h) \cap (Heads \cup Unused) = {}
  /\ \A g, h \in Heads : g # h => Children(g) \cap Children(h) = {}
  /\ Nodes \subseteq Heads \cup Unused \cup UNION {Children(h) : h \in Heads}

(* Who works on which node, and what the head of a family has.             *)
Shared ==
  /\ Roots \cap BeingTold = {}
  /\ \A v, w \in Workers : work[v].pc = "notify" /\ work[w].pc = "notify"
                           /\ work[v].node = work[w].node => v = w
Numbered ==
  /\ \A h \in Heads : q[h].id \in 1 .. last_id - 1 /\ q[h].key \in Keys
  /\ \A g, h \in Heads : q[g].id = q[h].id => g = h
  /\ \A n \in Nodes \ Heads : q[n].id = 0

(* No more nodes are in use than calls of start_query were accepted.       *)
Begun == {t \in Queries : handle[t] # None \/ call[t] # 0 \/ cancel[t] # "no"}
Enough == Cardinality(Nodes \ Unused) <= Cardinality(Begun)

Ended == ~alive => using = <<>> /\ \A w \in Workers : ~Reading(w) /\ (own_timer => work[w].pc = "idle")

(* The timers, in a heap of the resolver.                                  *)
TimersOwn ==
  /\ timers \subseteq Roots
  /\ \A w \in Workers : work[w].pc = "elapsed" =>
       /\ work[w].node \notin timers
       /\ work[w].node \in Roots => q[work[w].node].id = work[w].of
       /\ own_timer => held = w /\ work[w].node \in Roots
  /\ \A v, w \in Workers : work[v].pc = "elapsed" /\ work[w].pc = "elapsed"
                           /\ work[v].node = work[w].node => v = w
TimersSound == own_timer => TimersOwn
Types == NodeTypes /\ WorkTypes /\ TableTypes /\ FreeTypes /\ ClientTypes /\ CacheTypes /\ LockTypes

-----------------------------------------------------------------------------
(* Constants.                                                              *)
LEMMA Parameters ==
  /\ Nodes \in SUBSET Nat /\ Entries \in SUBSET Nat /\ RetrCount \in Nat /\ MaxId \in Nat
  /\ None \notin Nodes /\ None \notin Entries /\ None \notin Queries /\ None \notin Keys
  /\ None \notin Workers
  /\ IsFiniteSet(Queries) /\ IsFiniteSet(Keys) /\ IsFiniteSet(Nodes) /\ IsFiniteSet(Entries)
  /\ Cardinality(Queries) \in Nat /\ Cardinality(Keys) \in Nat
  /\ Cardinality(Nodes) \in Nat /\ Cardinality(Entries) \in Nat
  /\ Cardinality(Nodes) >= Cardinality(Queries)
  /\ Cardinality(Entries) >= Cardinality(Keys) + Cardinality(Queries)
  BY ResolverAssumption, FS_CardinalityType

(* The least element of a set of numbers.                                  *)
LEMMA LeastNumber ==
  ASSUME NEW S \in SUBSET Nat, S # {}
  PROVE  Least(S) \in S /\ \A x \in S : Least(S) <= x
<1>1. \E m \in S : \A x \in S : m <= x
  <2> DEFINE T == {1 .. n : n \in S}
             R == StrictSubsetOrdering(Nat)
             F == FiniteSubsetsOf(Nat)
  <2>1. T # {}
    OBVIOUS
  <2>2. T \subseteq F
    <3> SUFFICES ASSUME NEW n \in S PROVE 1 .. n \in F
      OBVIOUS
    <3>1. n \in Int
      OBVIOUS
    <3>2. IsFiniteSet(1 .. n)
      BY <3>1, FS_Interval
    <3>3. 1 .. n \in SUBSET Nat
      OBVIOUS
    <3> QED
      BY <3>2, <3>3 DEF FiniteSubsetsOf
  <2>3. IsWellFoundedOn(R, F)
    BY FS_StrictSubsetOrderingWellFounded
  <2>4. \E U \in T : \A V \in T : <<V, U>> \notin R
    <3> HIDE DEF T, R, F
    <3> QED
      BY <2>1, <2>2, <2>3, WFMin
  <2>5. PICK m \in S : \A n \in S : <<1 .. n, 1 .. m>> \notin R
    BY <2>4
  <2>6. ASSUME NEW n \in S, n < m PROVE FALSE
    <3>1. m \in 1 .. m /\ m \notin 1 .. n /\ 1 .. n \subseteq 1 .. m
      BY <2>6
    <3>2. 1 .. n \in SUBSET Nat /\ 1 .. m \in SUBSET Nat /\ 1 .. n # 1 .. m
      BY <3>1
    <3> QED
      BY <2>5, <3>1, <3>2 DEF StrictSubsetOrdering
  <2> QED
    BY <2>6
<1> QED
  BY <1>1 DEF Least

(* The functions that tables are.                                          *)
LEMMA WithType ==
  ASSUME NEW S, NEW f, f \in [DOMAIN f -> S], NEW x, NEW y \in S
  PROVE  /\ With(f, x, y) \in [DOMAIN f \cup {x} -> S]
         /\ DOMAIN With(f, x, y) = DOMAIN f \cup {x}
         /\ With(f, x, y)[x] = y
         /\ \A z \in DOMAIN f : z # x => With(f, x, y)[z] = f[z]
  BY DEF With

(* A table that loses a key.                                               *)
LEMMA WithoutType ==
  ASSUME NEW S, NEW f, f \in [DOMAIN f -> S], NEW X
  PROVE  /\ Without(f, X) \in [DOMAIN f \ X -> S]
         /\ DOMAIN Without(f, X) = DOMAIN f \ X
         /\ \A z \in DOMAIN f \ X : Without(f, X)[z] = f[z]
  BY DEF Without

(* The empty sequence is the empty function.                               *)
LEMMA NoTable ==
  /\ DOMAIN <<>> = {} /\ \A S : <<>> \in [{} -> S]
  OBVIOUS

(* A sequence that is one longer, one shorter or longer by another one.    *)
LEMMA AppendSeq ==
  ASSUME NEW S, NEW s \in Seq(S), NEW x \in S
  PROVE  /\ Append(s, x) \in Seq(S) /\ ToSet(Append(s, x)) = ToSet(s) \cup {x}
         /\ Distinct(s) /\ x \notin ToSet(s) => Distinct(Append(s, x))
<1>1. /\ Append(s, x) \in Seq(S) /\ Len(Append(s, x)) = Len(s) + 1
      /\ \A i \in 1 .. Len(s) : Append(s, x)[i] = s[i]
      /\ Append(s, x)[Len(s) + 1] = x
      /\ DOMAIN s = 1 .. Len(s) /\ DOMAIN Append(s, x) = 1 .. Len(s) + 1 /\ Len(s) \in Nat
  BY AppendProperties, LenProperties
<1> DEFINE a == Append(s, x)
<1> HIDE DEF a
<1>2. ToSet(a) = ToSet(s) \cup {x}
  <2>1. ASSUME NEW i \in DOMAIN a PROVE a[i] \in ToSet(s) \cup {x}
    BY <1>1 DEF ToSet, a
  <2>2. ASSUME NEW i \in DOMAIN s PROVE s[i] \in ToSet(a)
    BY <1>1 DEF ToSet, a
  <2>3. x \in ToSet(a)
    BY <1>1 DEF ToSet, a
  <2> QED
    BY <2>1, <2>2, <2>3 DEF ToSet
<1>3. ASSUME Distinct(s), x \notin ToSet(s) PROVE Distinct(a)
  <2> SUFFICES ASSUME NEW i \in DOMAIN a, NEW j \in DOMAIN a, a[i] = a[j], i < j PROVE FALSE
    BY <1>1 DEF Distinct, a
  <2>1. i \in 1 .. Len(s) /\ a[i] = s[i] /\ a[i] \in ToSet(s)
    BY <1>1 DEF a, ToSet
  <2>2. CASE j = Len(s) + 1
    BY <1>1, <1>3, <2>1, <2>2 DEF a
  <2>3. CASE j \in 1 .. Len(s)
    <3>1. a[j] = s[j] /\ i \in DOMAIN s /\ j \in DOMAIN s
      BY <1>1, <2>1, <2>3 DEF a
    <3>2. i = j
      BY <1>3, <2>1, <3>1 DEF Distinct
    <3> QED
      BY <1>1, <2>1, <3>2
  <2> QED
    BY <1>1, <2>2, <2>3 DEF a
<1> QED
  BY <1>1, <1>2, <1>3 DEF a

(* A sequence without its first element.                                   *)
LEMMA TailSeq ==
  ASSUME NEW S, NEW s \in Seq(S), s # <<>>
  PROVE  /\ Head(s) \in S /\ Tail(s) \in Seq(S)
         /\ ToSet(s) = ToSet(Tail(s)) \cup {Head(s)}
         /\ Distinct(s) => Distinct(Tail(s)) /\ Head(s) \notin ToSet(Tail(s))
<1>1. /\ Head(s) \in S /\ Tail(s) \in Seq(S) /\ Len(Tail(s)) = Len(s) - 1 /\ Len(s) \in Nat \ {0}
      /\ \A i \in 1 .. Len(Tail(s)) : Tail(s)[i] = s[i + 1]
      /\ DOMAIN s = 1 .. Len(s) /\ DOMAIN Tail(s) = 1 .. Len(s) - 1 /\ Head(s) = s[1]
  BY HeadTailProperties, LenProperties, EmptySeq
<1> DEFINE r == Tail(s)
<1> HIDE DEF r
<1>2. ASSUME NEW i \in DOMAIN r PROVE i + 1 \in DOMAIN s /\ r[i] = s[i + 1]
  BY <1>1 DEF r
<1>3. ASSUME NEW i \in DOMAIN s, i # 1 PROVE i - 1 \in DOMAIN r /\ r[i - 1] = s[i]
  <2>1. i - 1 \in 1 .. Len(s) - 1 /\ (i - 1) + 1 = i
    BY <1>1, <1>3
  <2> QED
    BY <1>1, <2>1 DEF r
<1>4. ToSet(s) = ToSet(r) \cup {s[1]}
  BY <1>1, <1>2, <1>3 DEF ToSet
<1>5. ASSUME Distinct(s) PROVE Distinct(r) /\ s[1] \notin ToSet(r)
  <2>1. ASSUME NEW i \in DOMAIN r, NEW j \in DOMAIN r, r[i] = r[j] PROVE i = j
    BY <1>1, <1>2, <1>5, <2>1 DEF Distinct, r
  <2>2. ASSUME NEW i \in DOMAIN r, r[i] = s[1] PROVE FALSE
    BY <1>1, <1>2, <1>5, <2>2 DEF Distinct, r
  <2> QED
    BY <2>1, <2>2 DEF Distinct, ToSet
<1> QED
  BY <1>1, <1>4, <1>5 DEF r

(* A sequence after another one.                                           *)
LEMMA ConcatSeq ==
  ASSUME NEW S, NEW s \in Seq(S), NEW r \in Seq(S)
  PROVE  /\ s \o r \in Seq(S) /\ ToSet(s \o r) = ToSet(s) \cup ToSet(r)
         /\ Distinct(s) /\ Distinct(r) /\ ToSet(s) \cap ToSet(r) = {} => Distinct(s \o r)
<1> DEFINE c == s \o r
<1>1. /\ c \in Seq(S) /\ Len(c) = Len(s) + Len(r) /\ Len(s) \in Nat /\ Len(r) \in Nat
      /\ DOMAIN s = 1 .. Len(s) /\ DOMAIN r = 1 .. Len(r) /\ DOMAIN c = 1 .. Len(s) + Len(r)
      /\ \A i \in 1 .. Len(s) + Len(r) : c[i] = IF i <= Len(s) THEN s[i] ELSE r[i - Len(s)]
  BY ConcatProperties, LenProperties
<1> HIDE DEF c
<1>2. ASSUME NEW i \in DOMAIN c
      PROVE  \/ i \in DOMAIN s /\ c[i] = s[i]
             \/ i - Len(s) \in DOMAIN r /\ c[i] = r[i - Len(s)]
  BY <1>1
<1>3. ASSUME NEW i \in DOMAIN s PROVE i \in DOMAIN c /\ c[i] = s[i]
  BY <1>1
<1>4. ASSUME NEW i \in DOMAIN r PROVE i + Len(s) \in DOMAIN c /\ c[i + Len(s)] = r[i]
  <2>1. i + Len(s) \in 1 .. Len(s) + Len(r) /\ ~(i + Len(s) <= Len(s)) /\ i + Len(s) - Len(s) = i
    BY <1>1
  <2> QED
    BY <1>1, <2>1
<1>5. ToSet(c) = ToSet(s) \cup ToSet(r)
  <2>1. ToSet(c) \subseteq ToSet(s) \cup ToSet(r)
    BY <1>2 DEF ToSet
  <2>2. ToSet(s) \subseteq ToSet(c)
    BY <1>3 DEF ToSet
  <2>3. ToSet(r) \subseteq ToSet(c)
    BY <1>4 DEF ToSet
  <2> QED
    BY <2>1, <2>2, <2>3
<1>6. ASSUME Distinct(s), Distinct(r), ToSet(s) \cap ToSet(r) = {} PROVE Distinct(c)
  <2> SUFFICES ASSUME NEW i \in DOMAIN c, NEW j \in DOMAIN c, c[i] = c[j] PROVE i = j
    BY DEF Distinct
  <2>1. CASE i \in DOMAIN s /\ c[i] = s[i] /\ j \in DOMAIN s /\ c[j] = s[j]
    BY <1>6, <2>1 DEF Distinct
  <2>2. CASE i - Len(s) \in DOMAIN r /\ c[i] = r[i - Len(s)]
             /\ j - Len(s) \in DOMAIN r /\ c[j] = r[j - Len(s)]
    <3>1. i - Len(s) = j - Len(s)
      BY <1>6, <2>2 DEF Distinct
    <3> QED
      BY <1>1, <3>1
  <2>3. CASE i \in DOMAIN s /\ c[i] = s[i] /\ j - Len(s) \in DOMAIN r /\ c[j] = r[j - Len(s)]
    BY <1>6, <2>3 DEF ToSet
  <2>4. CASE i - Len(s) \in DOMAIN r /\ c[i] = r[i - Len(s)] /\ j \in DOMAIN s /\ c[j] = s[j]
    BY <1>6, <2>4 DEF ToSet
  <2> QED
    BY <1>2, <2>1, <2>2, <2>3, <2>4
<1> QED
  BY <1>1, <1>5, <1>6 DEF c

-----------------------------------------------------------------------------
(* Types.                                                                  *)

(* A node that is written to, a worker that moves.                         *)
LEMMA NodeWritten ==
  ASSUME NodeTypes, NEW n \in Nodes, NEW r \in QueryNodes, q' = [q EXCEPT ![n] = r]
  PROVE  NodeTypes' /\ q'[n] = r /\ \A m \in Nodes \ {n} : q'[m] = q[m]
  BY DEF NodeTypes

(* A worker that moves.                                                    *)
LEMMA WorkerMoved ==
  ASSUME WorkTypes, NEW w \in Workers, NEW r \in Working, work' = [work EXCEPT ![w] = r],
         r.pc # "idle" => r.node \in Nodes, r.cb # None => r.pc = "notify" /\ r.todo # <<>>
  PROVE  WorkTypes' /\ work'[w] = r /\ \A v \in Workers \ {w} : work'[v] = work[v]
  BY DEF WorkTypes

(* A worker that returns to its poll.                                      *)
LEMMA ResumeType ==
  ASSUME WorkTypes, LockTypes, NEW w \in Workers, Resume(w), UNCHANGED <<own_timer, alive>>
  PROVE  /\ WorkTypes' /\ LockTypes' /\ work'[w] = Idle
         /\ \A v \in Workers \ {w} : work'[v] = work[v]
<1>1. Idle \in Working
  BY EmptySeq DEF Idle, Working
<1>2. work' = [work EXCEPT ![w] = Idle] /\ Idle.pc = "idle" /\ Idle.cb = None
  BY DEF Resume, Idle
<1>3. /\ WorkTypes' /\ work'[w] = Idle /\ \A v \in Workers \ {w} : work'[v] = work[v]
  BY <1>1, <1>2, WorkerMoved
<1> QED
  BY <1>3 DEF Resume, LockTypes

(* The members of a node.                                                  *)
LEMMA NodeFields ==
  ASSUME NodeTypes, NEW n \in Nodes
  PROVE  /\ q[n] \in QueryNodes /\ q[n].id \in Nat /\ q[n].cnt \in Nat /\ q[n].child \in Seq(Nodes)
         /\ q[n].cb \in Queries \cup {None} /\ q[n].key \in Keys \cup {None}
         /\ q[n].timer \in {0, 1}
         /\ NoNode \in QueryNodes
  BY EmptySeq DEF NodeTypes, QueryNodes, NoNode

(* A family is its head and the children of the head.                      *)
LEMMA FamilyType ==
  ASSUME NodeTypes, NEW n \in Nodes
  PROVE  /\ Family(n) \in Seq(Nodes) /\ ToSet(Family(n)) = {n} \cup Children(n)
         /\ Family(n) # <<>>
<1>1. <<n>> \in Seq(Nodes) /\ q[n].child \in Seq(Nodes) /\ ToSet(<<n>>) = {n} /\ Len(<<n>>) = 1
  BY NodeFields DEF ToSet
<1>2. Family(n) \in Seq(Nodes) /\ ToSet(Family(n)) = {n} \cup Children(n)
  <2> DEFINE one == <<n>>  two == q[n].child
  <2>1. one \in Seq(Nodes) /\ two \in Seq(Nodes) /\ ToSet(one) = {n}
    BY <1>1
  <2> HIDE DEF one, two
  <2>2. one \o two \in Seq(Nodes) /\ ToSet(one \o two) = ToSet(one) \cup ToSet(two)
    BY <2>1, ConcatSeq
  <2> QED
    BY <2>1, <2>2 DEF Family, Children, one, two
<1> QED
  BY <1>1, <1>2, ConcatProperties, LenProperties, EmptySeq DEF Family

(* A worker that is going to tell a family.                                *)
LEMMA NotifyType ==
  ASSUME NodeTypes, WorkTypes, NEW w \in Workers, NEW n \in Nodes,
         NEW status \in {"timeout", "ok", "failed"}, Notify(w, n, status)
  PROVE  /\ WorkTypes' /\ work'[w].pc = "notify" /\ work'[w].node = n
         /\ work'[w].status = status /\ work'[w].todo = Family(n) /\ work'[w].cb = None
         /\ \A v \in Workers \ {w} : work'[v] = work[v]
<1> DEFINE r == [pc |-> "notify", node |-> n, of |-> None, todo |-> Family(n),
                 cb |-> None, status |-> status]
<1>1. r \in Working
  BY FamilyType DEF Working
<1>2. work' = [work EXCEPT ![w] = r]
  BY DEF Notify
<1>3. r.pc = "notify" /\ r.node = n /\ r.cb = None /\ r.status = status /\ r.todo = Family(n)
  OBVIOUS
<1> HIDE DEF r
<1> QED
  BY <1>1, <1>2, <1>3, WorkerMoved

(* What transmit_query may come to.                                        *)
LEMMA OutcomeIs ==
  ASSUME NEW n, NEW o \in Transmissions(n)
  PROVE  /\ o.ok \in BOOLEAN /\ o.timer \in {0, 1}
         /\ o.ok => o.timers = timers \cup {n} /\ o.timer = 1 /\ n \notin timers
         /\ ~o.ok => o.timers = timers
<1> DEFINE at(x, servers) ==
      IF servers = {} THEN {Outcome(FALSE, x, timers, 0, {})}
      ELSE IF n \in timers THEN {Outcome(FALSE, x, timers, 1, {})}
      ELSE {Outcome(FALSE, x, timers, 1, {})} \cup
           {Outcome(TRUE, x, Armed(n), 1, sent) :
              sent \in IF alive THEN SUBSET servers ELSE {{}}}
<1>1. Transmissions(n) =
        UNION UNION {{at(x, servers) : servers \in Selections(x)} : x \in SUBSET DOMAIN ns}
  BY Zenon DEF Transmissions
<1> HIDE DEF at
<1>2. PICK x, servers : o \in at(x, servers)
  BY <1>1
<1>3. \/ o = Outcome(FALSE, x, timers, 0, {}) \/ o = Outcome(FALSE, x, timers, 1, {})
      \/ n \notin timers /\ \E sent : o = Outcome(TRUE, x, Armed(n), 1, sent)
  BY <1>2 DEF at
<1>4. CASE o = Outcome(FALSE, x, timers, 0, {}) \/ o = Outcome(FALSE, x, timers, 1, {})
  <2>1. ~o.ok /\ o.timers = timers /\ o.ok \in BOOLEAN /\ o.timer \in {0, 1}
    <3>1. CASE o = Outcome(FALSE, x, timers, 0, {})
      BY <3>1 DEF Outcome
    <3>2. CASE o = Outcome(FALSE, x, timers, 1, {})
      BY <3>2 DEF Outcome
    <3> QED
      BY <1>4, <3>1, <3>2
  <2> QED
    BY <2>1
<1>5. CASE n \notin timers /\ \E sent : o = Outcome(TRUE, x, Armed(n), 1, sent)
  <2>1. o.ok /\ o.timers = timers \cup {n} /\ o.timer = 1 /\ o.ok \in BOOLEAN
    BY <1>5 DEF Outcome, Armed
  <2> QED
    BY <1>5, <2>1
<1> QED
  BY <1>3, <1>4, <1>5

-----------------------------------------------------------------------------
(* The places of the nodes.                                                *)
LEMMA HeadsType ==
  ASSUME WorkTypes, TableTypes
  PROVE  Roots \subseteq Nodes /\ BeingTold \subseteq Nodes /\ Heads \subseteq Nodes
<1>1. Roots \subseteq Nodes
  BY DEF TableTypes, Roots
<1>2. BeingTold \subseteq Nodes
  BY DEF WorkTypes, BeingTold
<1> QED
  BY <1>1, <1>2 DEF Heads

(* The test of on_timeout: the id of a node is in the table exactly when   *)
(* the node is.                                                            *)
LEMMA PendingRoot ==
  ASSUME Types, Placed, Shared, Numbered, TablesAgree, NEW n \in Nodes
  PROVE  /\ Pending(n) <=> n \in Roots
         /\ Pending(n) => byId[q[n].id] = n /\ q[n].key \in Keys /\ q[n].key \in DOMAIN byRes
                          /\ byRes[q[n].key] = n
<1>1. ASSUME n \in Roots
      PROVE  Pending(n) /\ byId[q[n].id] = n /\ q[n].key \in DOMAIN byRes /\ byRes[q[n].key] = n
  BY <1>1 DEF Roots, TablesAgree, Pending
<1>2. ASSUME Pending(n) PROVE n \in Roots
  <2>1. q[n].id \in DOMAIN byId /\ q[n].id # 0 /\ n \in Heads
    BY <1>2 DEF Pending, Types, TableTypes, Numbered
  <2>2. q[byId[q[n].id]].id = q[n].id /\ byId[q[n].id] \in Roots
    BY <2>1 DEF TablesAgree, Roots
  <2>3. byId[q[n].id] = n
    BY <2>1, <2>2 DEF Numbered, Heads
  <2> QED
    BY <2>2, <2>3
<1>3. ASSUME n \in Roots PROVE q[n].key \in Keys
  BY <1>3 DEF Numbered, Heads
<1> QED
  BY <1>1, <1>2, <1>3

(* alloc_qnode takes a node out of what is unused.                         *)
LEMMA AllocStep ==
  ASSUME FreeTypes, Distinct(free), ToSet(free) \cap fresh = {}, Unused # {}
  PROVE  LET a == AllocQNode
         IN  /\ a.node \in Unused /\ a.node \in Nodes
             /\ a.free \in Seq(Nodes) /\ a.fresh \in SUBSET Nodes
             /\ Distinct(a.free) /\ ToSet(a.free) \cap a.fresh = {}
             /\ ToSet(a.free) \cup a.fresh = Unused \ {a.node}
<1> DEFINE a == AllocQNode
<1>1. CASE free # <<>>
  <2>1. a.node = Head(free) /\ a.free = Tail(free) /\ a.fresh = fresh
    BY <1>1 DEF AllocQNode
  <2> HIDE DEF a
  <2>2. /\ Head(free) \in Nodes /\ Tail(free) \in Seq(Nodes) /\ Distinct(Tail(free))
        /\ ToSet(free) = ToSet(Tail(free)) \cup {Head(free)} /\ Head(free) \notin ToSet(Tail(free))
    BY <1>1, TailSeq DEF FreeTypes
  <2>3. QED
    BY <2>1, <2>2 DEF Unused, FreeTypes, a
<1>2. CASE free = <<>>
  <2>1. ToSet(free) = {}
    BY <1>2 DEF ToSet
  <2>2. a.node = Least(fresh) /\ a.free = free /\ a.fresh = fresh \ {Least(fresh)}
    BY <1>2 DEF AllocQNode
  <2>3. Least(fresh) \in fresh
    BY <2>1, Parameters, LeastNumber DEF Unused, FreeTypes
  <2> HIDE DEF a
  <2> QED
    BY <2>1, <2>2, <2>3 DEF Unused, FreeTypes, a
<1> QED
  BY <1>1, <1>2

(* A call that has not been accepted before finds a node.                  *)
LEMMA SomeUnused ==
  ASSUME Enough, NEW t \in Queries, t \notin Begun
  PROVE  Unused # {}
<1>1. Begun \subseteq Queries \ {t}
  BY DEF Begun
<1>2. IsFiniteSet(Queries \ {t}) /\ Cardinality(Queries \ {t}) = Cardinality(Queries) - 1
  BY Parameters, FS_RemoveElement
<1>3. IsFiniteSet(Begun) /\ Cardinality(Begun) <= Cardinality(Queries) - 1
  BY <1>1, <1>2, FS_Subset
<1>4. Cardinality(Begun) \in Nat
  BY <1>3, FS_CardinalityType
<1> SUFFICES ASSUME Unused = {} PROVE FALSE
  OBVIOUS
<1>5. Cardinality(Nodes) <= Cardinality(Begun)
  <2>1. Nodes \ Unused = Nodes
    OBVIOUS
  <2> QED
    BY <2>1 DEF Enough
<1> QED
  BY <1>3, <1>4, <1>5, Parameters

(* No node is taken and no call is forgotten: there are enough nodes       *)
(* still.                                                                  *)
LEMMA EnoughKept ==
  ASSUME Enough, Unused \subseteq Unused', Begun \subseteq Begun'
  PROVE  Enough'
<1>1. Begun' \subseteq Queries /\ Begun \subseteq Queries
  BY DEF Begun
<1>2. IsFiniteSet(Begun') /\ Cardinality(Begun) <= Cardinality(Begun')
  BY <1>1, Parameters, FS_Subset
<1>3. IsFiniteSet(Nodes \ Unused) /\ Cardinality(Nodes \ Unused') <= Cardinality(Nodes \ Unused)
  BY Parameters, FS_Subset
<1>4. /\ Cardinality(Begun) \in Nat /\ Cardinality(Begun') \in Nat
      /\ Cardinality(Nodes \ Unused) \in Nat /\ Cardinality(Nodes \ Unused') \in Nat
  BY <1>1, Parameters, FS_Subset, FS_CardinalityType
<1> QED
  BY <1>2, <1>3, <1>4 DEF Enough

(* A call that is accepted takes one node.                                 *)
LEMMA EnoughGrows ==
  ASSUME Enough, NEW n \in Nodes, n \in Unused, Unused' = Unused \ {n},
         NEW t \in Queries, t \notin Begun, Begun \cup {t} \subseteq Begun'
  PROVE  Enough'
<1>1. Begun' \subseteq Queries /\ Begun \subseteq Queries
  BY DEF Begun
<1>2. IsFiniteSet(Begun) /\ IsFiniteSet(Begun')
  BY <1>1, Parameters, FS_Subset
<1>3. IsFiniteSet(Begun \cup {t}) /\ Cardinality(Begun \cup {t}) = Cardinality(Begun) + 1
  BY <1>2, FS_AddElement
<1>4. Cardinality(Begun \cup {t}) <= Cardinality(Begun')
  BY <1>2, FS_Subset
<1>5. IsFiniteSet(Nodes \ Unused)
  BY Parameters, FS_Subset
<1>6. Nodes \ Unused' = (Nodes \ Unused) \cup {n} /\ n \notin Nodes \ Unused
  OBVIOUS
<1>7. Cardinality(Nodes \ Unused') = Cardinality(Nodes \ Unused) + 1
  BY <1>5, <1>6, FS_AddElement
<1>8. Cardinality(Begun) \in Nat /\ Cardinality(Begun') \in Nat /\ Cardinality(Nodes \ Unused) \in Nat
  BY <1>2, <1>5, FS_CardinalityType
<1> QED
  BY <1>3, <1>4, <1>7, <1>8 DEF Enough

(* What a step does to the places: nothing, a child more, a head more, a   *)
(* family given back.                                                      *)
LEMMA PlacedKept ==
  ASSUME Placed, Heads' = Heads, Unused' = Unused, UNCHANGED fresh,
         Distinct(free'), ToSet(free') \cap fresh' = {},
         \A h \in Heads : q'[h].child = q[h].child
  PROVE  Placed'
<1>1. \A h \in Heads : Children(h)' = Children(h)
  BY DEF Children
<1> QED
  BY <1>1 DEF Placed

(* A node of the free ones becomes the last child of a head (start_query,  *)
(* the query is pending already).                                          *)
LEMMA PlacedChild ==
  ASSUME NodeTypes, Heads \subseteq Nodes, Placed, NEW h \in Heads, NEW n \in Nodes, n \in Unused,
         Heads' = Heads, Unused' = Unused \ {n},
         Distinct(free'), ToSet(free') \cap fresh' = {},
         q'[h].child = Append(q[h].child, n),
         \A g \in Heads \ {h} : q'[g].child = q[g].child
  PROVE  Placed'
<1>1. q[h].child \in Seq(Nodes) /\ Distinct(q[h].child) /\ n \notin Children(h)
  BY NodeFields DEF Placed
<1>2. Distinct(q'[h].child) /\ Children(h)' = Children(h) \cup {n}
  BY <1>1, AppendSeq DEF Children
<1>3. \A g \in Heads \ {h} : Children(g)' = Children(g)
  BY DEF Children
<1>4. n \notin Heads /\ \A g \in Heads : n \notin Children(g)
  BY DEF Placed
<1>5. ASSUME NEW g \in Heads
      PROVE  Distinct(q'[g].child) /\ Children(g)' \cap (Heads' \cup Unused') = {}
  <2>1. Distinct(q[g].child) /\ Children(g) \cap (Heads \cup Unused) = {}
    BY DEF Placed
  <2>2. Heads' \cup Unused' \subseteq (Heads \cup Unused) \ {n}
    BY <1>4
  <2>3. CASE g = h
    BY <1>2, <2>1, <2>2, <2>3
  <2>4. CASE g # h
    BY <1>3, <2>1, <2>2, <2>4
  <2> QED
    BY <2>3, <2>4
<1>6. \A f, g \in Heads : f # g => Children(f)' \cap Children(g)' = {}
  BY <1>2, <1>3, <1>4 DEF Placed
<1>7. Heads' \cap Unused' = {}
  BY DEF Placed
<1>8. Nodes \subseteq Heads' \cup Unused' \cup UNION {Children(g)' : g \in Heads'}
  <2> SUFFICES ASSUME NEW m \in Nodes, m \notin Heads, m \notin Unused'
               PROVE  \E g \in Heads : m \in Children(g)'
    OBVIOUS
  <2>1. CASE m = n
    BY <1>2, <2>1
  <2>2. CASE m # n
    <3>1. PICK g \in Heads : m \in Children(g)
      BY <2>2 DEF Placed
    <3> QED
      BY <1>2, <1>3, <3>1
  <2> QED
    BY <2>1, <2>2
<1> QED
  BY <1>5, <1>6, <1>7, <1>8 DEF Placed

(* A node of the free ones becomes a head without children (start_query,   *)
(* init_query of a new one).                                               *)
LEMMA PlacedHead ==
  ASSUME Placed, NEW n \in Nodes, n \in Unused,
         Heads' = Heads \cup {n}, Unused' = Unused \ {n},
         Distinct(free'), ToSet(free') \cap fresh' = {},
         q'[n].child = <<>>,
         \A g \in Heads : q'[g].child = q[g].child
  PROVE  Placed'
<1>1. Distinct(q'[n].child) /\ Children(n)' = {}
  BY DEF Children, Distinct, ToSet
<1>2. \A g \in Heads : Children(g)' = Children(g)
  BY DEF Children
<1>3. n \notin Heads /\ \A g \in Heads : n \notin Children(g)
  BY DEF Placed
<1>4. \A g \in Heads' : Distinct(q'[g].child) /\ Children(g)' \cap (Heads' \cup Unused') = {}
  BY <1>1, <1>2, <1>3 DEF Placed
<1>5. \A f, g \in Heads' : f # g => Children(f)' \cap Children(g)' = {}
  BY <1>1, <1>2, <1>3 DEF Placed
<1>6. Heads' \cap Unused' = {}
  BY <1>3 DEF Placed
<1>7. Nodes \subseteq Heads' \cup Unused' \cup UNION {Children(g)' : g \in Heads'}
  <2> SUFFICES ASSUME NEW m \in Nodes, m \notin Heads, m \notin Unused
               PROVE  \E g \in Heads' : m \in Children(g)'
    OBVIOUS
  <2>1. PICK g \in Heads : m \in Children(g)
    BY DEF Placed
  <2> QED
    BY <1>2, <2>1
<1> QED
  BY <1>4, <1>5, <1>6, <1>7 DEF Placed

(* A head and its children go back to the free list, each once (the end    *)
(* of on_timeout and on_read_complete).                                    *)
LEMMA PlacedBack ==
  ASSUME NodeTypes, FreeTypes, Heads \subseteq Nodes, Placed, NEW h \in Heads,
         Heads' = Heads \ {h}, free' = Recycled(h), UNCHANGED fresh,
         \A g \in Heads \ {h} : q'[g].child = q[g].child
  PROVE  Placed' /\ free' \in Seq(Nodes) /\ Unused' = Unused \cup {h} \cup Children(h)
<1> DEFINE kids == q[h].child  one == <<h>>
<1>1. /\ kids \in Seq(Nodes) /\ Distinct(kids) /\ ToSet(kids) = Children(h) /\ free \in Seq(Nodes)
      /\ one \in Seq(Nodes) /\ Distinct(one) /\ ToSet(one) = {h} /\ Distinct(free)
  BY NodeFields DEF Placed, Children, FreeTypes, Distinct, ToSet
<1>2. free' = (free \o kids) \o one
  BY DEF Recycled
<1>3. Children(h) \cap Unused = {} /\ h \notin Unused /\ h \notin Children(h)
  BY DEF Placed
<1> HIDE DEF kids, one
<1>4. /\ free \o kids \in Seq(Nodes) /\ Distinct(free \o kids)
      /\ ToSet(free \o kids) = ToSet(free) \cup Children(h)
  BY <1>1, <1>3, ConcatSeq DEF Unused
<1>5. /\ free' \in Seq(Nodes) /\ Distinct(free')
      /\ ToSet(free') = ToSet(free) \cup Children(h) \cup {h}
  <2>1. ToSet(free \o kids) \cap ToSet(one) = {}
    BY <1>1, <1>3, <1>4 DEF Unused
  <2> DEFINE s == free \o kids
  <2>2. s \in Seq(Nodes) /\ Distinct(s) /\ ToSet(s) \cap ToSet(one) = {} /\ free' = s \o one
    BY <1>2, <1>4, <2>1
  <2> HIDE DEF s
  <2>3. s \o one \in Seq(Nodes) /\ ToSet(s \o one) = ToSet(s) \cup ToSet(one) /\ Distinct(s \o one)
    BY <1>1, <2>2, ConcatSeq
  <2> QED
    BY <1>1, <1>4, <2>2, <2>3 DEF s
<1>6. Unused' = Unused \cup {h} \cup Children(h)
  BY <1>5 DEF Unused
<1>7. \A g \in Heads \ {h} : Children(g)' = Children(g)
  BY DEF Children
<1>8. ToSet(free') \cap fresh' = {} /\ Heads' \cap Unused' = {}
  BY <1>3, <1>5, <1>6 DEF Placed, Unused
<1>9. \A g \in Heads' : Distinct(q'[g].child) /\ Children(g)' \cap (Heads' \cup Unused') = {}
  BY <1>6, <1>7 DEF Placed
<1>10. \A f, g \in Heads' : f # g => Children(f)' \cap Children(g)' = {}
  BY <1>7 DEF Placed
<1>11. Nodes \subseteq Heads' \cup Unused' \cup UNION {Children(g)' : g \in Heads'}
  <2> SUFFICES ASSUME NEW m \in Nodes, m \notin Heads', m \notin Unused'
               PROVE  \E g \in Heads' : m \in Children(g)'
    OBVIOUS
  <2>1. m \notin Heads /\ m \notin Unused /\ m \notin Children(h)
    BY <1>6
  <2>2. PICK g \in Heads : m \in Children(g)
    BY <2>1 DEF Placed
  <2> QED
    BY <1>7, <2>1, <2>2
<1> QED
  BY <1>5, <1>6, <1>8, <1>9, <1>10, <1>11 DEF Placed

-----------------------------------------------------------------------------
(* The lists and tables after a step.                                      *)
NodesOK == Placed /\ Shared /\ Numbered /\ TablesAgree /\ Enough
SameMembers(n) == q'[n].id = q[n].id /\ q'[n].key = q[n].key /\ q'[n].child = q[n].child

(* A step that moves no node.                                              *)
LEMMA NothingMoved ==
  ASSUME Types, NodesOK, UNCHANGED <<table, last_id>>, \A n \in Nodes : SameMembers(n),
         \A w \in Workers : /\ work'[w].pc = "notify" <=> work[w].pc = "notify"
                            /\ work[w].pc = "notify" => work'[w].node = work[w].node,
         Begun \subseteq Begun'
  PROVE  NodesOK'
<1>1. UNCHANGED <<byId, byRes, free, fresh>>
  BY DEF table
<1>2. Roots' = Roots /\ BeingTold' = BeingTold /\ Heads' = Heads
  BY <1>1 DEF Roots, BeingTold, Heads
<1>3. Heads \subseteq Nodes /\ Roots \subseteq Nodes
  BY HeadsType DEF Types
<1>4. Unused' = Unused
  BY <1>1 DEF Unused
<1>5. Placed'
  <2>1. \A h \in Heads : q'[h].child = q[h].child
    BY <1>3 DEF SameMembers
  <2>2. Distinct(free') /\ ToSet(free') \cap fresh' = {}
    BY <1>1 DEF NodesOK, Placed
  <2> QED
    BY <1>1, <1>2, <1>4, <2>1, <2>2, PlacedKept DEF NodesOK
<1>6. Shared'
  BY <1>2 DEF NodesOK, Shared
<1>7. Numbered'
  BY <1>2, <1>3 DEF NodesOK, Numbered, SameMembers
<1>8. TablesAgree'
  BY <1>1, <1>2, <1>3 DEF NodesOK, TablesAgree, SameMembers, Roots
<1>9. Enough'
  BY <1>4, EnoughKept DEF NodesOK
<1> QED
  BY <1>5, <1>6, <1>7, <1>8, <1>9 DEF NodesOK

(* A pending query leaves the tables, and a worker is going to tell it.    *)
LEMMA Forgotten ==
  ASSUME Types, NodesOK, NEW n \in Roots, NEW w \in Workers, Forget(n),
         UNCHANGED <<free, fresh, last_id>>, \A m \in Nodes : SameMembers(m),
         work[w].pc # "notify", work'[w].pc = "notify", work'[w].node = n,
         \A v \in Workers \ {w} : work'[v] = work[v],
         Begun \subseteq Begun'
  PROVE  NodesOK' /\ Roots' = Roots \ {n}
<1>1. n \in Nodes /\ Heads \subseteq Nodes /\ Roots \subseteq Nodes
  BY HeadsType DEF Types
<1> DEFINE i == q[n].id  k == q[n].key
<1>2. /\ i \in DOMAIN byId /\ byId[i] = n /\ k \in DOMAIN byRes /\ byRes[k] = n
  BY <1>1, PendingRoot DEF NodesOK, Pending
<1>3. /\ byId' = Without(byId, {i}) /\ byRes' = Without(byRes, {k})
  BY DEF Forget
<1> HIDE DEF i, k
<1>4. /\ DOMAIN byId' = DOMAIN byId \ {i} /\ \A j \in DOMAIN byId' : byId'[j] = byId[j]
      /\ DOMAIN byRes' = DOMAIN byRes \ {k} /\ \A j \in DOMAIN byRes' : byRes'[j] = byRes[j]
  BY <1>3 DEF Without
<1>5. \A j \in DOMAIN byId : q[byId[j]].id = j /\ q[byId[j]].key \in DOMAIN byRes
                             /\ byRes[q[byId[j]].key] = byId[j]
  BY DEF NodesOK, TablesAgree
<1>6. \A j \in DOMAIN byId' : byId[j] # n
  BY <1>4, <1>5 DEF i
<1>7. Roots' = Roots \ {n}
  BY <1>2, <1>4, <1>6 DEF Roots
<1>8. BeingTold' = BeingTold \cup {n}
  BY DEF BeingTold
<1>9. Heads' = Heads
  BY <1>7, <1>8 DEF Heads
<1>10. Unused' = Unused
  BY DEF Unused
<1>11. Placed'
  <2>1. \A h \in Heads : q'[h].child = q[h].child
    BY <1>1 DEF SameMembers
  <2>2. Distinct(free') /\ ToSet(free') \cap fresh' = {}
    BY DEF NodesOK, Placed
  <2> QED
    BY <1>9, <1>10, <2>1, <2>2, PlacedKept DEF NodesOK
<1>12. Shared'
  <2>1. n \notin BeingTold
    BY DEF NodesOK, Shared
  <2>2. Roots' \cap BeingTold' = {}
    BY <1>7, <1>8 DEF NodesOK, Shared
  <2>3. ASSUME NEW u \in Workers, NEW v \in Workers, work'[u].pc = "notify",
               work'[v].pc = "notify", work'[u].node = work'[v].node
        PROVE  u = v
    <3>1. CASE u = w /\ v # w
      BY <2>1, <2>3, <3>1 DEF BeingTold
    <3>2. CASE u # w /\ v = w
      BY <2>1, <2>3, <3>2 DEF BeingTold
    <3>3. CASE u # w /\ v # w
      BY <2>3, <3>3 DEF NodesOK, Shared
    <3> QED
      BY <3>1, <3>2, <3>3
  <2> QED
    BY <2>2, <2>3 DEF Shared
<1>13. Numbered'
  BY <1>1, <1>9 DEF NodesOK, Numbered, SameMembers
<1>14. TablesAgree'
  <2>1. ASSUME NEW j \in DOMAIN byId'
        PROVE  /\ q'[byId'[j]].id = j /\ q'[byId'[j]].key \in DOMAIN byRes'
               /\ byRes'[q'[byId'[j]].key] = byId'[j]
    <3> DEFINE m == byId[j]
    <3>1. j \in DOMAIN byId /\ m \in Nodes /\ m # n /\ byId'[j] = m
      BY <1>1, <1>4, <1>6 DEF Roots
    <3>2. q[m].id = j /\ q[m].key \in DOMAIN byRes /\ byRes[q[m].key] = m
      BY <1>5, <3>1
    <3> HIDE DEF m
    <3>3. q[m].key # k
      BY <1>2, <3>1, <3>2
    <3>4. q[m].key \in DOMAIN byRes' /\ byRes'[q[m].key] = m
      BY <1>4, <3>2, <3>3
    <3> QED
      BY <3>1, <3>2, <3>4 DEF SameMembers
  <2>2. ASSUME NEW j \in DOMAIN byRes'
        PROVE  byRes'[j] \in Roots' /\ q'[byRes'[j]].key = j
    <3>1. j \in DOMAIN byRes /\ j # k /\ byRes'[j] = byRes[j]
      BY <1>4
    <3>2. byRes[j] \in Roots /\ q[byRes[j]].key = j
      BY <3>1 DEF NodesOK, TablesAgree
    <3>3. byRes[j] # n
      BY <3>1, <3>2 DEF k
    <3> QED
      BY <1>1, <1>7, <3>1, <3>2, <3>3 DEF SameMembers
  <2> QED
    BY <2>1, <2>2 DEF TablesAgree
<1>15. Enough'
  BY <1>10, EnoughKept DEF NodesOK
<1> QED
  BY <1>7, <1>11, <1>12, <1>13, <1>14, <1>15 DEF NodesOK

(* A worker recycles a family.                                             *)
LEMMA GivenBack ==
  ASSUME Types, NodesOK, NEW w \in Workers, work[w].pc = "notify", Recycle(w),
         work'[w].pc = "idle", \A v \in Workers \ {w} : work'[v] = work[v],
         UNCHANGED <<byId, byRes, fresh, last_id>>, Begun \subseteq Begun'
  PROVE  /\ NodesOK' /\ NodeTypes' /\ FreeTypes'
         /\ Roots' = Roots /\ \A m \in Roots : q'[m] = q[m]
<1> DEFINE n == work[w].node
<1>1. n \in BeingTold /\ n \in Nodes /\ n \in Heads /\ Heads \subseteq Nodes /\ Roots \subseteq Nodes
      /\ n \notin Roots
  BY HeadsType DEF Types, BeingTold, Heads, NodesOK, Shared
<1>2. free' = Recycled(n) /\ q' = Zeroed(ToSet(Family(n)))
  BY DEF Recycle
<1>3. work[w].node = n
  OBVIOUS
<1> HIDE DEF n
<1>4. ToSet(Family(n)) = {n} \cup Children(n)
  BY <1>1, FamilyType DEF Types
<1>5. \A m \in Nodes : q'[m] = IF m \in {n} \cup Children(n) THEN NoNode ELSE q[m]
  BY <1>2, <1>4 DEF Zeroed
<1>6. NodeTypes'
  <2>1. \A m \in Nodes : NoNode \in QueryNodes /\ q[m] \in QueryNodes
    BY NodeFields DEF Types
  <2>2. q' = [m \in Nodes |-> IF m \in {n} \cup Children(n) THEN NoNode ELSE q[m]]
    BY <1>2, <1>4 DEF Zeroed
  <2> QED
    BY <2>1, <2>2 DEF NodeTypes
<1>7. Roots' = Roots
  BY DEF Roots
<1>8. BeingTold' = BeingTold \ {n}
  <2>1. ASSUME NEW v \in Workers, v # w, work[v].pc = "notify" PROVE work[v].node # n
    BY <1>3, <2>1 DEF NodesOK, Shared
  <2>2. \A v \in Workers : work'[v].pc = "notify" <=> v # w /\ work[v].pc = "notify"
    OBVIOUS
  <2>3. \A v \in Workers : v # w => work'[v].node = work[v].node
    OBVIOUS
  <2>4. ASSUME NEW m \in BeingTold' PROVE m \in BeingTold \ {n}
    <3>1. PICK v \in Workers : work'[v].pc = "notify" /\ work'[v].node = m
      BY DEF BeingTold
    <3> QED
      BY <2>1, <2>2, <2>3, <3>1 DEF BeingTold
  <2>5. ASSUME NEW m \in BeingTold, m # n PROVE m \in BeingTold'
    <3>1. PICK v \in Workers : work[v].pc = "notify" /\ work[v].node = m
      BY DEF BeingTold
    <3> QED
      BY <1>3, <2>2, <2>3, <2>5, <3>1 DEF BeingTold
  <2> QED
    BY <2>4, <2>5
<1>9. Heads' = Heads \ {n}
  BY <1>1, <1>7, <1>8 DEF Heads
<1>10. \A m \in Heads : m # n => m \notin {n} \cup Children(n)
  BY <1>1 DEF NodesOK, Placed
<1>11. \A m \in Heads : m # n => q'[m] = q[m]
  BY <1>1, <1>5, <1>10
<1>12. Placed' /\ FreeTypes' /\ Unused' = Unused \cup {n} \cup Children(n)
  <2>1. \A g \in Heads \ {n} : q'[g].child = q[g].child
    BY <1>11
  <2>2. Placed' /\ free' \in Seq(Nodes) /\ Unused' = Unused \cup {n} \cup Children(n)
    BY <1>1, <1>2, <1>9, <2>1, PlacedBack DEF Types, NodesOK
  <2> QED
    BY <2>2 DEF FreeTypes, Types
<1>13. Shared'
  <2>1. \A v \in Workers : work'[v].pc = "notify" => v # w /\ work'[v] = work[v]
    OBVIOUS
  <2>2. Roots' \cap BeingTold' = {}
    BY <1>7, <1>8 DEF NodesOK, Shared
  <2>3. ASSUME NEW u \in Workers, NEW v \in Workers, work'[u].pc = "notify",
               work'[v].pc = "notify", work'[u].node = work'[v].node
        PROVE  u = v
    BY <2>1, <2>3 DEF NodesOK, Shared
  <2> QED
    BY <2>2, <2>3 DEF Shared
<1>14. Numbered'
  <2>1. NoNode.id = 0
    BY DEF NoNode
  <2>2. ASSUME NEW m \in Nodes \ Heads' PROVE q'[m].id = 0
    <3>1. CASE m \in {n} \cup Children(n)
      BY <1>5, <2>1, <3>1
    <3>2. CASE m \notin {n} \cup Children(n)
      BY <1>5, <1>9, <2>2, <3>2 DEF NodesOK, Numbered
    <3> QED
      BY <3>1, <3>2
  <2>3. \A h \in Heads' : h \in Heads /\ q'[h] = q[h]
    BY <1>9, <1>11
  <2>4. \A h \in Heads' : q'[h].id \in 1 .. last_id' - 1 /\ q'[h].key \in Keys
    BY <2>3 DEF NodesOK, Numbered
  <2>5. \A g, h \in Heads' : q'[g].id = q'[h].id => g = h
    BY <2>3 DEF NodesOK, Numbered
  <2> QED
    BY <2>2, <2>4, <2>5 DEF Numbered
<1>15. \A m \in Roots : q'[m] = q[m]
  BY <1>1, <1>11 DEF Heads
<1>16. TablesAgree'
  BY <1>7, <1>15 DEF NodesOK, TablesAgree, Roots
<1>17. Enough'
  BY <1>12, EnoughKept DEF NodesOK
<1> QED
  BY <1>6, <1>7, <1>12, <1>13, <1>14, <1>15, <1>16, <1>17 DEF NodesOK

(* A query joins a pending one, and a query becomes pending.               *)
LEMMA Joined ==
  ASSUME Types, NodesOK, NEW t \in Queries, t \notin Begun, NEW k \in Keys, StartChild(t, k)
  PROVE  /\ NodesOK' /\ NodeTypes' /\ FreeTypes' /\ Roots' = Roots
         /\ AllocQNode.node \in Unused
         /\ \A m \in Nodes \ {AllocQNode.node} : q'[m].id = q[m].id
<1> DEFINE n == AllocQNode.node  h == byRes[k]
<1>1. /\ n \in Unused /\ n \in Nodes /\ free' \in Seq(Nodes) /\ fresh' \in SUBSET Nodes
      /\ Distinct(free') /\ ToSet(free') \cap fresh' = {} /\ Unused' = Unused \ {n}
  <2>1. Unused # {}
    BY SomeUnused DEF NodesOK
  <2>2. Distinct(free) /\ ToSet(free) \cap fresh = {} /\ FreeTypes
    BY DEF NodesOK, Placed, Types
  <2>3. free' = AllocQNode.free /\ fresh' = AllocQNode.fresh
    BY DEF StartChild
  <2> QED
    BY <2>1, <2>2, <2>3, AllocStep DEF Unused
<1>2. h \in Roots /\ h \in Heads /\ h \in Nodes /\ Heads \subseteq Nodes
  BY HeadsType DEF StartChild, NodesOK, TablesAgree, Types, Heads
<1>3. h # n /\ n \notin Heads
  BY <1>1, <1>2 DEF NodesOK, Placed
<1>4. /\ q' = [q EXCEPT ![n] = [NoNode EXCEPT !.cb = t], ![h].child = Append(@, n)]
      /\ UNCHANGED <<byId, byRes, last_id, work>>
      /\ handle' = [handle EXCEPT ![t] = n] /\ UNCHANGED <<call, cancel>>
  BY DEF StartChild, StartMissed, Accept
<1> HIDE DEF n, h
<1> DEFINE r == [NoNode EXCEPT !.cb = t]  s == [q[h] EXCEPT !.child = Append(@, n)]
<1>5. r \in QueryNodes /\ r.id = 0 /\ r.child = <<>>
  BY EmptySeq DEF NoNode, QueryNodes
<1>6. /\ s \in QueryNodes /\ s.child = Append(q[h].child, n) /\ s.id = q[h].id /\ s.key = q[h].key
  <2>1. q[h] \in QueryNodes /\ q[h].child \in Seq(Nodes)
    BY <1>2, NodeFields DEF Types
  <2>2. Append(q[h].child, n) \in Seq(Nodes)
    BY <1>1, <2>1, AppendSeq
  <2> QED
    BY <2>1, <2>2 DEF QueryNodes
<1>7. /\ q' \in [Nodes -> QueryNodes] /\ q'[n] = r /\ q'[h] = s
      /\ \A m \in Nodes \ {n, h} : q'[m] = q[m]
  BY <1>1, <1>2, <1>3, <1>4, <1>5, <1>6 DEF Types, NodeTypes
<1> HIDE DEF r, s
<1>8. NodeTypes' /\ FreeTypes'
  BY <1>1, <1>7 DEF NodeTypes, FreeTypes
<1>9. Roots' = Roots /\ BeingTold' = BeingTold /\ Heads' = Heads
  BY <1>4 DEF Roots, BeingTold, Heads
<1>10. \A m \in Heads : q'[m].id = q[m].id /\ q'[m].key = q[m].key
  BY <1>2, <1>3, <1>6, <1>7
<1>11. Placed'
  <2>1. q'[h].child = Append(q[h].child, n) /\ \A g \in Heads \ {h} : q'[g].child = q[g].child
    BY <1>2, <1>3, <1>6, <1>7
  <2> QED
    BY <1>1, <1>2, <1>9, <2>1, PlacedChild DEF Types, NodesOK
<1>12. Shared'
  BY <1>4, <1>9 DEF NodesOK, Shared
<1>13. Numbered'
  <2>1. \A m \in Nodes \ Heads : q'[m].id = 0
    BY <1>2, <1>5, <1>7 DEF NodesOK, Numbered
  <2>2. \A m \in Heads : q'[m].id \in 1 .. last_id' - 1 /\ q'[m].key \in Keys
    BY <1>4, <1>10 DEF NodesOK, Numbered
  <2>3. \A f, g \in Heads : q'[f].id = q'[g].id => f = g
    BY <1>10 DEF NodesOK, Numbered
  <2> QED
    BY <1>9, <2>1, <2>2, <2>3 DEF Numbered
<1>14. TablesAgree'
  <2>1. \A m \in Roots : m \in Heads
    BY DEF Heads
  <2>2. \A i \in DOMAIN byId : byId[i] \in Roots
    BY DEF Roots
  <2>3. \A i \in DOMAIN byId : q'[byId[i]].id = i /\ q'[byId[i]].key \in DOMAIN byRes
                               /\ byRes[q'[byId[i]].key] = byId[i]
    BY <1>10, <2>1, <2>2 DEF NodesOK, TablesAgree
  <2>4. \A j \in DOMAIN byRes : byRes[j] \in Roots /\ q'[byRes[j]].key = j
    BY <1>10, <2>1 DEF NodesOK, TablesAgree
  <2> QED
    BY <1>4, <1>9, <2>3, <2>4 DEF TablesAgree
<1>15. Enough'
  <2>1. Begun \cup {t} \subseteq Begun'
    BY <1>1, <1>4, Parameters DEF Begun, Types, ClientTypes
  <2> QED
    BY <1>1, <2>1, EnoughGrows DEF NodesOK
<1>16. \A m \in Nodes \ {n} : q'[m].id = q[m].id
  BY <1>6, <1>7
<1> QED
  BY <1>1, <1>8, <1>9, <1>11, <1>12, <1>13, <1>14, <1>15, <1>16 DEF NodesOK, n

(* start_query makes a query of its own: it is put in both tables if it    *)
(* was transmitted, and its node goes back to the free list if not.        *)
LEMMA MadePending ==
  ASSUME Types, NodesOK, NEW t \in Queries, t \notin Begun, NEW k \in Keys, StartRoot(t, k)
  PROVE  /\ NodesOK' /\ NodeTypes' /\ FreeTypes' /\ TableTypes'
         /\ AllocQNode.node \in Unused
         /\ \/ Roots' = Roots /\ UNCHANGED <<q, timers, handle>>
            \/ /\ Roots' = Roots \cup {AllocQNode.node}
               /\ timers' = timers \cup {AllocQNode.node}
               /\ handle' = [handle EXCEPT ![t] = AllocQNode.node]
               /\ \A m \in Nodes \ {AllocQNode.node} : q'[m] = q[m]
<1> DEFINE a == AllocQNode  n == AllocQNode.node
<1>1. /\ n \in Unused /\ n \in Nodes /\ a.free \in Seq(Nodes) /\ a.fresh \in SUBSET Nodes
      /\ Distinct(a.free) /\ ToSet(a.free) \cap a.fresh = {}
      /\ ToSet(a.free) \cup a.fresh = Unused \ {n}
  <2>1. Unused # {}
    BY SomeUnused DEF NodesOK
  <2>2. Distinct(free) /\ ToSet(free) \cap fresh = {} /\ FreeTypes
    BY DEF NodesOK, Placed, Types
  <2> QED
    BY <2>1, <2>2, AllocStep
<1>2. PICK o \in Transmissions(n) :
        /\ timers' = o.timers /\ fresh' = a.fresh
        /\ IF o.ok THEN /\ byId' = With(byId, last_id, n) /\ byRes' = With(byRes, k, n)
                        /\ q' = [q EXCEPT ![n] = [cb |-> t, id |-> last_id, cnt |-> 1, key |-> k,
                                                  timer |-> o.timer, child |-> <<>>]]
                        /\ free' = a.free
                        /\ handle' = [handle EXCEPT ![t] = n]
                   ELSE free' = Append(a.free, n) /\ UNCHANGED <<q, byId, byRes, handle>>
  BY DEF StartRoot, Accept
<1>3. /\ k \notin DOMAIN byRes /\ last_id' = last_id + 1 /\ UNCHANGED <<work, call, cancel>>
  BY DEF StartRoot, StartMissed
<1>4. last_id \in Nat \ {0} /\ n \notin Heads /\ Heads \subseteq Nodes /\ Roots \subseteq Nodes
  BY <1>1, HeadsType DEF Types, TableTypes, NodesOK, Placed
<1>5. BeingTold' = BeingTold
  BY <1>3 DEF BeingTold
<1>6. /\ o.timer \in {0, 1} /\ (o.ok => o.timers = timers \cup {n}) /\ (~o.ok => o.timers = timers)
  BY OutcomeIs
<1> HIDE DEF a, n
<1>7. CASE ~o.ok
  <2>1. UNCHANGED <<q, byId, byRes, handle, timers>> /\ free' = Append(a.free, n)
    BY <1>2, <1>6, <1>7
  <2>2. /\ free' \in Seq(Nodes) /\ Distinct(free') /\ Unused' = Unused
        /\ ToSet(free') \cap fresh' = {}
    <3>1. n \notin ToSet(a.free) /\ n \notin a.fresh
      BY <1>1
    <3>2. /\ free' \in Seq(Nodes) /\ ToSet(free') = ToSet(a.free) \cup {n} /\ Distinct(free')
      BY <1>1, <2>1, <3>1, AppendSeq
    <3> QED
      BY <1>1, <1>2, <3>1, <3>2 DEF Unused
  <2>3. Roots' = Roots /\ Heads' = Heads
    BY <1>5, <2>1 DEF Roots, Heads
  <2>4. Placed'
    BY <1>1, <1>2, <2>1, <2>2, <2>3 DEF NodesOK, Placed, Children
  <2>5. Shared' /\ TablesAgree'
    BY <1>3, <1>5, <2>1, <2>3 DEF NodesOK, Shared, TablesAgree
  <2>6. Numbered'
    <3>1. 1 .. last_id - 1 \subseteq 1 .. last_id' - 1
      BY <1>3, <1>4
    <3> QED
      BY <2>1, <2>3, <3>1 DEF NodesOK, Numbered
  <2>7. Enough'
    <3>1. Begun' = Begun
      BY <1>3, <2>1 DEF Begun
    <3> QED
      BY <2>2, <3>1, EnoughKept DEF NodesOK
  <2>8. NodeTypes' /\ FreeTypes' /\ TableTypes'
    BY <1>1, <1>2, <1>3, <2>1, <2>2 DEF NodeTypes, FreeTypes, TableTypes, Types
  <2> QED
    BY <1>1, <2>1, <2>3, <2>4, <2>5, <2>6, <2>7, <2>8 DEF NodesOK, n
<1>8. CASE o.ok
  <2> DEFINE r == [cb |-> t, id |-> last_id, cnt |-> 1, key |-> k,
                   timer |-> o.timer, child |-> <<>>]
  <2>1. /\ byId' = With(byId, last_id, n) /\ byRes' = With(byRes, k, n)
        /\ q' = [q EXCEPT ![n] = r] /\ free' = a.free /\ handle' = [handle EXCEPT ![t] = n]
        /\ timers' = timers \cup {n}
    BY <1>2, <1>6, <1>8
  <2>2. r \in QueryNodes /\ r.id = last_id /\ r.key = k /\ r.child = <<>>
    BY <1>4, <1>6, EmptySeq DEF QueryNodes
  <2> HIDE DEF r
  <2>3. NodeTypes' /\ q'[n] = r /\ \A m \in Nodes \ {n} : q'[m] = q[m]
    BY <1>1, <2>1, <2>2, NodeWritten DEF Types
  <2>4. last_id \notin DOMAIN byId
    BY <1>4 DEF Types, TableTypes
  <2>5. /\ byId' \in [DOMAIN byId' -> Nodes] /\ DOMAIN byId' = DOMAIN byId \cup {last_id}
        /\ byId'[last_id] = n /\ \A i \in DOMAIN byId : byId'[i] = byId[i]
    <3>1. byId \in [DOMAIN byId -> Nodes]
      BY DEF Types, TableTypes
    <3>2. /\ With(byId, last_id, n) \in [DOMAIN byId \cup {last_id} -> Nodes]
          /\ DOMAIN With(byId, last_id, n) = DOMAIN byId \cup {last_id}
          /\ With(byId, last_id, n)[last_id] = n
          /\ \A i \in DOMAIN byId : i # last_id => With(byId, last_id, n)[i] = byId[i]
      BY <1>1, <3>1 DEF With
    <3> QED
      BY <2>1, <2>4, <3>2
  <2>6. /\ byRes' \in [DOMAIN byRes' -> Nodes] /\ DOMAIN byRes' = DOMAIN byRes \cup {k}
        /\ byRes'[k] = n /\ \A i \in DOMAIN byRes : byRes'[i] = byRes[i]
    <3>1. byRes \in [DOMAIN byRes -> Nodes]
      BY DEF Types, TableTypes
    <3>2. /\ With(byRes, k, n) \in [DOMAIN byRes \cup {k} -> Nodes]
          /\ DOMAIN With(byRes, k, n) = DOMAIN byRes \cup {k}
          /\ With(byRes, k, n)[k] = n
          /\ \A i \in DOMAIN byRes : i # k => With(byRes, k, n)[i] = byRes[i]
      BY <1>1, <3>1 DEF With
    <3> QED
      BY <1>3, <2>1, <3>2
  <2>7. DOMAIN byId' \subseteq 1 .. last_id' - 1
    <3>1. last_id \in 1 .. last_id' - 1 /\ 1 .. last_id - 1 \subseteq 1 .. last_id' - 1
      BY <1>3, <1>4
    <3> QED
      BY <2>5, <3>1 DEF Types, TableTypes
  <2>8. TableTypes' /\ FreeTypes'
    BY <1>1, <1>2, <1>3, <1>4, <2>1, <2>5, <2>6, <2>7 DEF Types, TableTypes, FreeTypes
  <2>9. Roots' = Roots \cup {n} /\ Heads' = Heads \cup {n}
    BY <1>5, <2>5 DEF Roots, Heads
  <2>10. Unused' = Unused \ {n} /\ Distinct(free') /\ ToSet(free') \cap fresh' = {}
    BY <1>1, <1>2, <2>1 DEF Unused
  <2>11. \A m \in Heads : m # n /\ q'[m] = q[m]
    BY <1>4, <2>3
  <2>12. Placed'
    BY <1>1, <2>2, <2>3, <2>9, <2>10, <2>11, PlacedHead DEF NodesOK
  <2>13. Shared'
    BY <1>3, <1>4, <1>5, <2>9 DEF NodesOK, Shared, Heads
  <2>14. Numbered'
    <3>1. last_id \in 1 .. last_id' - 1 /\ 1 .. last_id - 1 \subseteq 1 .. last_id' - 1
          /\ last_id \notin 1 .. last_id - 1
      BY <1>3, <1>4
    <3>2. \A m \in Heads' : q'[m].id \in 1 .. last_id' - 1 /\ q'[m].key \in Keys
      BY <2>2, <2>3, <2>9, <2>11, <3>1 DEF NodesOK, Numbered
    <3>3. \A m \in Heads : q[m].id # last_id
      BY <3>1 DEF NodesOK, Numbered
    <3>4. \A f, g \in Heads' : q'[f].id = q'[g].id => f = g
      BY <2>2, <2>3, <2>9, <2>11, <3>3 DEF NodesOK, Numbered
    <3>5. \A m \in Nodes \ Heads' : q'[m].id = 0
      BY <2>3, <2>9 DEF NodesOK, Numbered
    <3> QED
      BY <3>2, <3>4, <3>5 DEF Numbered
  <2>15. TablesAgree'
    <3>1. ASSUME NEW i \in DOMAIN byId'
          PROVE  /\ q'[byId'[i]].id = i /\ q'[byId'[i]].key \in DOMAIN byRes'
                 /\ byRes'[q'[byId'[i]].key] = byId'[i]
      <4>1. CASE i = last_id
        BY <2>2, <2>3, <2>5, <2>6, <4>1
      <4>2. CASE i # last_id
        <5>1. i \in DOMAIN byId /\ byId'[i] = byId[i] /\ byId[i] \in Roots
          BY <2>5, <4>2 DEF Roots
        <5>2. q'[byId[i]] = q[byId[i]]
          BY <2>11, <5>1 DEF Heads
        <5>3. /\ q[byId[i]].id = i /\ q[byId[i]].key \in DOMAIN byRes
              /\ byRes[q[byId[i]].key] = byId[i]
          BY <5>1 DEF NodesOK, TablesAgree
        <5> QED
          BY <2>6, <5>1, <5>2, <5>3
      <4> QED
        BY <4>1, <4>2
    <3>2. ASSUME NEW j \in DOMAIN byRes' PROVE byRes'[j] \in Roots' /\ q'[byRes'[j]].key = j
      <4>1. CASE j = k
        BY <2>2, <2>3, <2>6, <2>9, <4>1
      <4>2. CASE j # k
        <5>1. j \in DOMAIN byRes /\ byRes'[j] = byRes[j]
          BY <2>6, <4>2
        <5>2. byRes[j] \in Roots /\ q[byRes[j]].key = j
          BY <5>1 DEF NodesOK, TablesAgree
        <5> QED
          BY <2>9, <2>11, <5>1, <5>2 DEF Heads
      <4> QED
        BY <4>1, <4>2
    <3> QED
      BY <3>1, <3>2 DEF TablesAgree
  <2>16. Enough'
    <3>1. Begun \cup {t} \subseteq Begun'
      BY <1>1, <1>3, <2>1, Parameters DEF Begun, Types, ClientTypes
    <3> QED
      BY <1>1, <2>10, <3>1, EnoughGrows DEF NodesOK
  <2> QED
    BY <1>1, <2>1, <2>3, <2>8, <2>9, <2>12, <2>13, <2>14, <2>15, <2>16 DEF NodesOK, n
<1> QED
  BY <1>7, <1>8

-----------------------------------------------------------------------------
(* The cache.                                                              *)
Uses(f, e) == {x \in DOMAIN f : f[x] = e}

(* There are finitely many users of an entry.                              *)
LEMMA UsesType ==
  ASSUME CacheTypes, NEW e
  PROVE  /\ IsFiniteSet(Uses(cache, e)) /\ Cardinality(Uses(cache, e)) \in Nat
         /\ IsFiniteSet(Uses(using, e)) /\ Cardinality(Uses(using, e)) \in Nat
<1>1. Uses(cache, e) \subseteq Keys /\ Uses(using, e) \subseteq Queries
  BY DEF Uses, CacheTypes
<1> QED
  BY <1>1, Parameters, FS_Subset, FS_CardinalityType

(* One user less, one user more.                                           *)
LEMMA UsesWithout ==
  ASSUME NEW f, NEW x, NEW e, IsFiniteSet(Uses(f, e))
  PROVE  /\ IsFiniteSet(Uses(Without(f, {x}), e))
         /\ Cardinality(Uses(Without(f, {x}), e)) =
              IF x \in DOMAIN f /\ f[x] = e THEN Cardinality(Uses(f, e)) - 1
                                            ELSE Cardinality(Uses(f, e))
<1>1. Uses(Without(f, {x}), e) = Uses(f, e) \ {x}
  BY DEF Uses, Without
<1>2. CASE x \in DOMAIN f /\ f[x] = e
  <2>1. x \in Uses(f, e)
    BY <1>2 DEF Uses
  <2> QED
    BY <1>1, <1>2, <2>1, FS_RemoveElement
<1>3. CASE ~(x \in DOMAIN f /\ f[x] = e)
  <2>1. Uses(f, e) \ {x} = Uses(f, e)
    BY <1>3 DEF Uses
  <2> QED
    BY <1>1, <1>3, <2>1
<1> QED
  BY <1>2, <1>3

(* A user more.                                                            *)
LEMMA UsesWith ==
  ASSUME NEW f, NEW x, x \notin DOMAIN f, NEW y, NEW e, IsFiniteSet(Uses(f, e))
  PROVE  /\ IsFiniteSet(Uses(With(f, x, y), e))
         /\ Cardinality(Uses(With(f, x, y), e)) =
              IF e = y THEN Cardinality(Uses(f, e)) + 1 ELSE Cardinality(Uses(f, e))
<1>1. Uses(With(f, x, y), e) = Uses(f, e) \cup (IF e = y THEN {x} ELSE {})
  BY DEF Uses, With
<1>2. x \notin Uses(f, e)
  BY DEF Uses
<1>3. CASE e = y
  <2>1. Uses(With(f, x, y), e) = Uses(f, e) \cup {x}
    BY <1>1, <1>3
  <2> QED
    BY <1>2, <1>3, <2>1, FS_AddElement
<1>4. CASE e # y
  BY <1>1, <1>4
<1> QED
  BY <1>3, <1>4

(* The count of every entry, for a table c and counts r.                   *)
CountedFor(c, u, r) ==
  \A e \in Entries : r[e] = Cardinality(Uses(c, e)) + Cardinality(Uses(u, e))

(* CacheCounted is the count of all users of the entries.                  *)
LEMMA CountIs == CacheCounted <=> (alive => CountedFor(cache, using, ref))
  BY Zenon DEF CacheCounted, CountedFor, Uses

(* The table gives up the entry of a key.                                  *)
LEMMA ReleasedCount ==
  ASSUME CacheTypes, CountedFor(cache, using, ref), NEW k
  PROVE  /\ Without(cache, {k}) \in [DOMAIN cache \ {k} -> Entries]
         /\ DOMAIN Without(cache, {k}) = DOMAIN cache \ {k}
         /\ Released(k) \in [Entries -> Nat]
         /\ CountedFor(Without(cache, {k}), using, Released(k))
<1> DEFINE c == Without(cache, {k})  r == Released(k)
<1>1. /\ c \in [DOMAIN cache \ {k} -> Entries] /\ DOMAIN c = DOMAIN cache \ {k}
  BY DEF CacheTypes, Without
<1>2. ASSUME NEW e \in Entries
      PROVE  /\ r[e] = Cardinality(Uses(c, e)) + Cardinality(Uses(using, e)) /\ r[e] \in Nat
  <2>1. /\ Cardinality(Uses(c, e)) =
             (IF k \in DOMAIN cache /\ cache[k] = e THEN Cardinality(Uses(cache, e)) - 1
                                                    ELSE Cardinality(Uses(cache, e)))
        /\ IsFiniteSet(Uses(c, e))
    BY UsesType, UsesWithout
  <2>2. Cardinality(Uses(c, e)) \in Nat /\ Cardinality(Uses(using, e)) \in Nat
        /\ Cardinality(Uses(cache, e)) \in Nat
    BY <2>1, UsesType, FS_CardinalityType
  <2>3. ref[e] = Cardinality(Uses(cache, e)) + Cardinality(Uses(using, e)) /\ ref[e] \in Nat
    BY DEF CountedFor, CacheTypes
  <2>4. r[e] = IF k \in DOMAIN cache /\ cache[k] = e THEN ref[e] - 1 ELSE ref[e]
    BY DEF Released, CacheTypes
  <2> HIDE DEF r, c
  <2>5. CASE k \in DOMAIN cache /\ cache[k] = e
    BY <2>1, <2>2, <2>3, <2>4, <2>5
  <2>6. CASE ~(k \in DOMAIN cache /\ cache[k] = e)
    BY <2>1, <2>2, <2>3, <2>4, <2>6
  <2> QED
    BY <2>5, <2>6
<1>3. r \in [Entries -> Nat]
  <2>1. DOMAIN r = Entries /\ r = [e \in Entries |-> r[e]]
    BY DEF Released, CacheTypes
  <2> HIDE DEF r
  <2> QED
    BY <1>2, <2>1
<1> QED
  BY <1>1, <1>2, <1>3 DEF CountedFor

(* What is neither in the table nor lent leaves an entry free.             *)
LEMMA FreeEntry ==
  ASSUME CacheTypes, CountedFor(cache, using, ref), NEW k \in Keys
  PROVE  \E e \in Entries : Released(k)[e] = 0
<1> DEFINE c == Without(cache, {k})
           inTable == {c[x] : x \in DOMAIN c}
           lent == {using[t] : t \in DOMAIN using}
<1>1. /\ DOMAIN c = DOMAIN cache \ {k} /\ CountedFor(c, using, Released(k))
  BY ReleasedCount
<1>2. DOMAIN c \subseteq Keys \ {k} /\ DOMAIN using \subseteq Queries
  BY <1>1 DEF CacheTypes
<1>3. IsFiniteSet(Keys \ {k}) /\ Cardinality(Keys \ {k}) = Cardinality(Keys) - 1
  BY Parameters, FS_RemoveElement
<1>4. /\ IsFiniteSet(DOMAIN c) /\ Cardinality(DOMAIN c) <= Cardinality(Keys) - 1
      /\ IsFiniteSet(DOMAIN using) /\ Cardinality(DOMAIN using) <= Cardinality(Queries)
  <2> HIDE DEF c
  <2>1. IsFiniteSet(DOMAIN c) /\ Cardinality(DOMAIN c) <= Cardinality(Keys \ {k})
    BY <1>2, <1>3, FS_Subset
  <2>2. IsFiniteSet(DOMAIN using) /\ Cardinality(DOMAIN using) <= Cardinality(Queries)
    BY <1>2, Parameters, FS_Subset
  <2> QED
    BY <1>3, <2>1, <2>2
<1> HIDE DEF c
<1>5. /\ IsFiniteSet(inTable) /\ Cardinality(inTable) <= Cardinality(DOMAIN c)
      /\ IsFiniteSet(lent) /\ Cardinality(lent) <= Cardinality(DOMAIN using)
  <2>1. ASSUME NEW f, IsFiniteSet(DOMAIN f)
        PROVE  LET R == {f[x] : x \in DOMAIN f}
               IN  IsFiniteSet(R) /\ Cardinality(R) <= Cardinality(DOMAIN f)
    <3> DEFINE R == {f[x] : x \in DOMAIN f}  g == [x \in DOMAIN f |-> f[x]]
    <3>1. g \in Surjection(DOMAIN f, R)
      BY DEF Surjection
    <3> HIDE DEF g, R
    <3>2. IsFiniteSet(R) /\ Cardinality(R) <= Cardinality(DOMAIN f)
      BY <2>1, <3>1, FS_Surjection
    <3> QED
      BY <3>2 DEF R
  <2> QED
    BY <1>4, <2>1
<1> HIDE DEF inTable, lent
<1>6. /\ IsFiniteSet(inTable \cup lent)
      /\ Cardinality(inTable \cup lent) <= Cardinality(inTable) + Cardinality(lent)
  <2>1. /\ Cardinality(inTable \cup lent) =
             Cardinality(inTable) + Cardinality(lent) - Cardinality(inTable \cap lent)
        /\ IsFiniteSet(inTable \cup lent) /\ IsFiniteSet(inTable \cap lent)
    BY <1>5, FS_Union, FS_Intersection
  <2> QED
    BY <1>5, <2>1, FS_CardinalityType
<1>7. Cardinality(inTable \cup lent) < Cardinality(Entries)
  <2>1. /\ Cardinality(DOMAIN c) \in Nat /\ Cardinality(DOMAIN using) \in Nat
        /\ Cardinality(inTable) \in Nat /\ Cardinality(lent) \in Nat
        /\ Cardinality(inTable \cup lent) \in Nat
    BY <1>4, <1>5, <1>6, FS_CardinalityType
  <2> QED
    BY <1>4, <1>5, <1>6, <2>1, Parameters
<1>8. PICK e \in Entries : e \notin inTable \cup lent
  <2> SUFFICES ASSUME Entries \subseteq inTable \cup lent PROVE FALSE
    OBVIOUS
  <2>1. Cardinality(Entries) <= Cardinality(inTable \cup lent)
    BY <1>6, FS_Subset
  <2>2. Cardinality(inTable \cup lent) \in Nat
    BY <1>6, FS_CardinalityType
  <2> QED
    BY <1>7, <2>1, <2>2, Parameters
<1>9. Uses(c, e) = {} /\ Uses(using, e) = {}
  BY <1>8 DEF Uses, inTable, lent
<1>10. Released(k)[e] = 0
  <2>1. Released(k)[e] = Cardinality(Uses(c, e)) + Cardinality(Uses(using, e))
    BY <1>1 DEF CountedFor
  <2> QED
    BY <1>9, <2>1, FS_EmptySet
<1> QED
  BY <1>10

(* What a step does to the cache: a new table c with counts r, nobody's    *)
(* entry written to.                                                       *)
LEMMA CacheReplaced ==
  ASSUME CacheTypes, cache' \in [DOMAIN cache' -> Entries], DOMAIN cache' \subseteq Keys,
         ref' \in [Entries -> Nat], CountedFor(cache', using, ref'), torn' = {}, UNCHANGED using
  PROVE  CacheTypes' /\ CacheSound'
<1>1. CacheTypes'
  BY DEF CacheTypes
<1>2. CacheCounted'
  BY Zenon DEF CacheCounted, CountedFor, Uses
<1> QED
  BY <1>1, <1>2 DEF CacheSound, LentUntouched

(* The call goes on with a query.                                          *)
LEMMA CacheMissed ==
  ASSUME CacheTypes, CacheSound, NEW t, NEW k, StartMissed(t, k)
  PROVE  CacheTypes' /\ CacheSound'
<1>1. alive /\ cache' = Without(cache, {k}) /\ ref' = Released(k) /\ UNCHANGED <<using, torn>>
  BY DEF StartMissed
<1>2. CountedFor(cache, using, ref) /\ torn = {}
  BY <1>1, CountIs DEF CacheSound, LentUntouched
<1>3. /\ cache' \in [DOMAIN cache' -> Entries] /\ DOMAIN cache' \subseteq Keys
      /\ ref' \in [Entries -> Nat] /\ CountedFor(cache', using, ref')
  BY <1>1, <1>2, ReleasedCount DEF CacheTypes
<1> QED
  BY <1>1, <1>2, <1>3, CacheReplaced

(* An answer is put into the cache.                                        *)
LEMMA CacheUpdated ==
  ASSUME CacheTypes, CacheSound, alive, NEW k \in Keys, NEW ok \in BOOLEAN, NEW zero \in BOOLEAN,
         UpdateResCache(k, ok, zero), UNCHANGED using
  PROVE  CacheTypes' /\ CacheSound'
<1>1. CountedFor(cache, using, ref) /\ torn = {}
  BY CountIs DEF CacheSound, LentUntouched
<1> DEFINE c == Without(cache, {k})  r == Released(k)
<1>2. /\ c \in [DOMAIN cache \ {k} -> Entries] /\ DOMAIN c = DOMAIN cache \ {k}
      /\ r \in [Entries -> Nat] /\ CountedFor(c, using, r)
  BY <1>1, ReleasedCount
<1> HIDE DEF c, r
<1>3. \A e : Readers(e) = Uses(using, e)
  BY DEF Readers, Uses
<1>4. CASE zero
  <2>1. cache' = c /\ ref' = r /\ torn' = torn
    BY <1>4 DEF UpdateResCache, c, r
  <2> QED
    BY <1>1, <1>2, <2>1, CacheReplaced DEF CacheTypes
<1>5. CASE ~zero /\ ok /\ InPlace(k)
  <2> DEFINE e == cache[k]
  <2>1. torn' = torn \cup Readers(e) /\ UNCHANGED <<cache, ref>>
    BY <1>5 DEF UpdateResCache
  <2>2. k \in DOMAIN cache /\ ref[e] = 1 /\ e \in Entries
    BY <1>5 DEF InPlace, CacheTypes
  <2>3. /\ 1 = Cardinality(Uses(cache, e)) + Cardinality(Uses(using, e))
        /\ k \in Uses(cache, e)
    BY <1>1, <2>2 DEF CountedFor, Uses
  <2> HIDE DEF e
  <2>4. /\ Cardinality(Uses(cache, e)) \in Nat /\ Cardinality(Uses(using, e)) \in Nat
        /\ IsFiniteSet(Uses(cache, e)) /\ IsFiniteSet(Uses(using, e))
    BY UsesType
  <2>5. Cardinality(Uses(cache, e)) # 0
    BY <2>3, <2>4, FS_EmptySet
  <2>6. Cardinality(Uses(using, e)) = 0
    BY <2>3, <2>4, <2>5
  <2>7. Uses(using, e) = {}
    BY <2>4, <2>6, FS_EmptySet
  <2>8. torn' = {}
    BY <1>1, <1>3, <2>1, <2>7
  <2> QED
    BY <1>1, <2>1, <2>8, CacheReplaced DEF CacheTypes
<1>6. CASE ~zero /\ ~(ok /\ InPlace(k))
  <2> DEFINE S == {x \in Entries : Released(k)[x] = 0}
             e == Least(S)
  <2>1. /\ cache' = With(cache, k, e) /\ ref' = [r EXCEPT ![e] = 1]
        /\ torn' = torn \cup Readers(e)
    BY <1>6, Zenon DEF UpdateResCache, r
  <2>2. S # {} /\ S \in SUBSET Nat
    BY <1>1, FreeEntry, Parameters
  <2>3. e \in S
    <3> HIDE DEF S
    <3> QED
      BY <2>2, LeastNumber
  <2>4. e \in Entries /\ r[e] = 0
    BY <2>3 DEF r
  <2> HIDE DEF e, S
  <2>5. cache' = With(c, k, e) /\ k \notin DOMAIN c
    <3>1. With(cache, k, e) = With(Without(cache, {k}), k, e)
      BY DEF With, Without
    <3> QED
      BY <1>2, <2>1, <3>1 DEF c
  <2>6. \A x \in Entries :
          /\ IsFiniteSet(Uses(c, x)) /\ Cardinality(Uses(c, x)) \in Nat
          /\ IsFiniteSet(Uses(using, x)) /\ Cardinality(Uses(using, x)) \in Nat
    <3> SUFFICES ASSUME NEW x \in Entries
                 PROVE  /\ IsFiniteSet(Uses(c, x)) /\ Cardinality(Uses(c, x)) \in Nat
                        /\ IsFiniteSet(Uses(using, x)) /\ Cardinality(Uses(using, x)) \in Nat
      OBVIOUS
    <3>1. IsFiniteSet(Uses(c, x))
      BY UsesType, UsesWithout DEF c
    <3> QED
      BY <3>1, UsesType, FS_CardinalityType
  <2>7. Cardinality(Uses(c, e)) = 0 /\ Cardinality(Uses(using, e)) = 0
    <3>1. 0 = Cardinality(Uses(c, e)) + Cardinality(Uses(using, e))
      BY <1>2, <2>4 DEF CountedFor
    <3> QED
      BY <2>4, <2>6, <3>1
  <2>8. torn' = {}
    <3>1. Uses(using, e) = {}
      BY <2>4, <2>6, <2>7, FS_EmptySet
    <3> QED
      BY <1>1, <1>3, <2>1, <3>1
  <2>9. cache' \in [DOMAIN cache' -> Entries] /\ DOMAIN cache' \subseteq Keys
    BY <1>2, <2>4, <2>5 DEF With, CacheTypes
  <2>10. ref' \in [Entries -> Nat] /\ ref'[e] = 1 /\ \A x \in Entries : x # e => ref'[x] = r[x]
    BY <1>2, <2>1, <2>4
  <2>11. CountedFor(cache', using, ref')
    <3> SUFFICES ASSUME NEW x \in Entries
                 PROVE  ref'[x] = Cardinality(Uses(cache', x)) + Cardinality(Uses(using, x))
      BY DEF CountedFor
    <3>1. Cardinality(Uses(cache', x)) =
            IF x = e THEN Cardinality(Uses(c, x)) + 1 ELSE Cardinality(Uses(c, x))
      BY <2>5, <2>6, UsesWith
    <3>2. CASE x = e
      BY <2>7, <2>10, <3>1, <3>2
    <3>3. CASE x # e
      BY <1>2, <2>10, <3>1, <3>3 DEF CountedFor
    <3> QED
      BY <3>2, <3>3
  <2> QED
    BY <2>8, <2>9, <2>10, <2>11, CacheReplaced
<1> QED
  BY <1>4, <1>5, <1>6

(* An entry is lent to a callback, and comes back.                         *)
LEMMA CacheLent ==
  ASSUME CacheTypes, CacheSound, NEW t \in Queries, t \notin DOMAIN using, NEW k \in Keys,
         StartCached(t, k)
  PROVE  CacheTypes' /\ CacheSound'
<1>1. /\ alive /\ k \in DOMAIN cache /\ UNCHANGED <<cache, torn>>
  BY DEF StartCached
<1> DEFINE e == cache[k]
<1>2. e \in Entries /\ ref' = [ref EXCEPT ![e] = @ + 1] /\ using' = With(using, t, e)
  BY <1>1 DEF StartCached, Lent, CacheTypes
<1> HIDE DEF e
<1>3. CacheTypes'
  BY <1>1, <1>2 DEF CacheTypes, With
<1>4. CountedFor(cache, using', ref')
  <2> SUFFICES ASSUME NEW x \in Entries
               PROVE  ref'[x] = Cardinality(Uses(cache, x)) + Cardinality(Uses(using', x))
    BY DEF CountedFor
  <2>1. Cardinality(Uses(using', x)) =
          IF x = e THEN Cardinality(Uses(using, x)) + 1 ELSE Cardinality(Uses(using, x))
    BY <1>2, UsesType, UsesWith
  <2>2. ref[x] = Cardinality(Uses(cache, x)) + Cardinality(Uses(using, x))
    BY <1>1, CountIs DEF CacheSound, CountedFor
  <2>3. Cardinality(Uses(cache, x)) \in Nat /\ Cardinality(Uses(using, x)) \in Nat
    BY UsesType
  <2>4. ref'[x] = IF x = e THEN ref[x] + 1 ELSE ref[x]
    BY <1>2 DEF CacheTypes
  <2> QED
    BY <2>1, <2>2, <2>3, <2>4
<1>5. CacheCounted'
  BY <1>1, <1>4, Zenon DEF CacheCounted, CountedFor, Uses
<1> QED
  BY <1>1, <1>3, <1>5 DEF CacheSound, LentUntouched

(* A callback that was called with a packet of the cache returns: the      *)
(* entry loses a user, and its count was not zero.                         *)
LEMMA CacheReturned ==
  ASSUME CacheTypes, CacheSound, alive, NEW t \in Queries, CachedDone(t)
  PROVE  CacheTypes' /\ CacheSound'
<1>1. /\ t \in DOMAIN using /\ UNCHANGED <<cache, torn>>
  BY DEF CachedDone
<1> DEFINE e == using[t]
<1>2. e \in Entries /\ ref' = [ref EXCEPT ![e] = @ - 1] /\ using' = Without(using, {t})
  BY <1>1 DEF CachedDone, CacheTypes
<1>3. \A x \in Entries : Cardinality(Uses(using', x)) =
        (IF x = e THEN Cardinality(Uses(using, x)) - 1 ELSE Cardinality(Uses(using, x)))
        /\ IsFiniteSet(Uses(using', x))
  <2> SUFFICES ASSUME NEW x \in Entries
               PROVE  Cardinality(Uses(using', x)) =
                        (IF x = e THEN Cardinality(Uses(using, x)) - 1
                                  ELSE Cardinality(Uses(using, x)))
                      /\ IsFiniteSet(Uses(using', x))
    OBVIOUS
  <2>1. IsFiniteSet(Uses(using, x))
    BY UsesType
  <2> QED
    BY <1>1, <1>2, <2>1, UsesWithout
<1> HIDE DEF e
<1>4. CountedFor(cache, using', ref') /\ ref' \in [Entries -> Nat]
  <2>1. ASSUME NEW x \in Entries
        PROVE  ref'[x] = Cardinality(Uses(cache, x)) + Cardinality(Uses(using', x))
               /\ ref'[x] \in Nat
    <3>1. ref[x] = Cardinality(Uses(cache, x)) + Cardinality(Uses(using, x))
      BY CountIs DEF CacheSound, CountedFor
    <3>2. /\ Cardinality(Uses(cache, x)) \in Nat /\ Cardinality(Uses(using, x)) \in Nat
          /\ Cardinality(Uses(using', x)) \in Nat
      BY <1>3, UsesType, FS_CardinalityType
    <3>3. ref'[x] = IF x = e THEN ref[x] - 1 ELSE ref[x]
      BY <1>2 DEF CacheTypes
    <3> QED
      BY <1>3, <3>1, <3>2, <3>3
  <2>2. ref' \in [Entries -> Int]
    BY <1>2 DEF CacheTypes
  <2>3. ref' \in [Entries -> Nat]
    BY <2>1, <2>2
  <2> QED
    BY <2>1, <2>3 DEF CountedFor
<1>5. CacheTypes'
  BY <1>1, <1>2, <1>4 DEF CacheTypes, Without
<1>6. CacheCounted'
  BY <1>1, <1>4, Zenon DEF CacheCounted, CountedFor, Uses
<1> QED
  BY <1>1, <1>5, <1>6 DEF CacheSound, LentUntouched

-----------------------------------------------------------------------------
(* The invariant of nodes and cache, and its initial state.                *)
Borrowed == \A t \in DOMAIN using : t \in Begun
IInv == Types /\ NodesOK /\ Ended /\ Borrowed /\ CacheSound

(* The invariant holds when pj_dns_resolver_create returns.                *)
LEMMA InitHolds == Init => IInv
<1> SUFFICES ASSUME Init PROVE IInv
  OBVIOUS
<1>1. /\ own_timer \in BOOLEAN /\ alive = TRUE /\ held = None /\ last_id = 1
      /\ q = [n \in Nodes |-> NoNode] /\ byId = <<>> /\ byRes = <<>> /\ free = <<>>
      /\ fresh = Nodes /\ timers = {} /\ work = [w \in Workers |-> Idle]
      /\ cache = <<>> /\ ref = [e \in Entries |-> 0] /\ torn = {}
      /\ handle = [t \in Queries |-> None] /\ call = [t \in Queries |-> 0]
      /\ cancel = [t \in Queries |-> "no"] /\ using = <<>>
  BY DEF Init
<1>2. NoNode \in QueryNodes /\ NoNode.id = 0 /\ Idle \in Working /\ Idle.pc = "idle" /\ Idle.cb = None
  BY EmptySeq DEF NoNode, QueryNodes, Idle, Working
<1>3. DOMAIN free = {} /\ DOMAIN byId = {} /\ DOMAIN byRes = {} /\ DOMAIN cache = {} /\ DOMAIN using = {}
      /\ ToSet(free) = {} /\ free \in Seq(Nodes)
  BY <1>1, NoTable, EmptySeq DEF ToSet
<1>4. Types
  <2>1. NodeTypes /\ WorkTypes /\ LockTypes /\ ClientTypes
    BY <1>1, <1>2 DEF NodeTypes, WorkTypes, LockTypes, ClientTypes
  <2>2. TableTypes /\ FreeTypes
    BY <1>1, <1>3, NoTable DEF TableTypes, FreeTypes
  <2>3. CacheTypes
    BY <1>1, <1>3, NoTable DEF CacheTypes
  <2> QED
    BY <2>1, <2>2, <2>3 DEF Types
<1>5. Roots = {} /\ BeingTold = {} /\ Heads = {} /\ Unused = Nodes /\ Begun = {}
  <2>1. Roots = {} /\ BeingTold = {} /\ Unused = Nodes
    BY <1>1, <1>2, <1>3 DEF Roots, BeingTold, Unused
  <2>2. Begun = {}
    BY <1>1 DEF Begun
  <2> QED
    BY <2>1, <2>2 DEF Heads
<1>6. NodesOK
  <2>1. Placed
    BY <1>3, <1>5 DEF Placed, Distinct
  <2>2. Shared
    BY <1>1, <1>2, <1>5 DEF Shared
  <2>3. Numbered
    BY <1>1, <1>2, <1>5 DEF Numbered
  <2>4. TablesAgree
    BY <1>3 DEF TablesAgree
  <2>5. Enough
    <3>1. Nodes \ Unused = {}
      BY <1>5
    <3> QED
      BY <1>5, <3>1, FS_EmptySet DEF Enough
  <2> QED
    BY <2>1, <2>2, <2>3, <2>4, <2>5 DEF NodesOK
<1>7. CacheSound
  <2> SUFFICES ASSUME NEW e \in Entries
               PROVE  ref[e] = Cardinality({k \in DOMAIN cache : cache[k] = e})
                               + Cardinality({t \in DOMAIN using : using[t] = e})
    BY <1>1 DEF CacheSound, CacheCounted, LentUntouched
  <2>1. {k \in DOMAIN cache : cache[k] = e} = {} /\ {t \in DOMAIN using : using[t] = e} = {}
    BY <1>3
  <2> QED
    BY <1>1, <2>1, FS_EmptySet
<1>8. Ended /\ Borrowed
  BY <1>1, <1>3 DEF Ended, Borrowed
<1> QED
  BY <1>4, <1>6, <1>7, <1>8 DEF IInv

(* Where the cache, the callbacks or the calls stay as they are.           *)
LEMMA CacheKept ==
  ASSUME CacheTypes, CacheSound, UNCHANGED <<alive, caching>>
  PROVE  CacheTypes' /\ CacheSound'
<1>1. UNCHANGED <<alive, cache, ref, using, torn>>
  BY DEF caching
<1>2. CacheTypes'
  BY <1>1 DEF CacheTypes
<1>3. CacheCounted' /\ LentUntouched'
  BY <1>1 DEF CacheSound, CacheCounted, LentUntouched
<1> QED
  BY <1>2, <1>3 DEF CacheSound

(* No worker begins to read, or to time a query out with the own heap,     *)
(* once the resolver is destroyed.                                         *)
LEMMA EndedKept ==
  ASSUME Ended, NEW w \in Workers, UNCHANGED <<alive, own_timer>>,
         alive \/ using' = using,
         \A v \in Workers \ {w} : work'[v] = work[v],
         \/ alive
         \/ /\ Reading(w)' => Reading(w)
            /\ own_timer => work[w].pc # "idle"
  PROVE  Ended'
<1>1. CASE alive
  BY <1>1 DEF Ended
<1>2. CASE ~alive
  <2>1. ~own_timer
    BY <1>2 DEF Ended
  <2>2. \A v \in Workers \ {w} : Reading(v)' <=> Reading(v)
    BY DEF Reading
  <2> QED
    BY <1>2, <2>1, <2>2 DEF Ended
<1> QED
  BY <1>1, <1>2

(* A step that leaves nodes, tables, calls and workers as they are.        *)
LEMMA NodesKept ==
  ASSUME Types, NodesOK, UNCHANGED <<last_id, q, timers, table, client, work>>
  PROVE  /\ NodesOK' /\ Begun' = Begun
         /\ NodeTypes' /\ WorkTypes' /\ TableTypes' /\ FreeTypes' /\ ClientTypes'
<1>1. UNCHANGED <<last_id, q, timers, byId, byRes, free, fresh, handle, call, cancel, work>>
  BY DEF table, client
<1>2. Begun' = Begun
  BY <1>1 DEF Begun
<1>3. NodesOK'
  <2>1. \A n \in Nodes : SameMembers(n)
    BY <1>1 DEF SameMembers
  <2> QED
    BY <1>1, <1>2, <2>1, NothingMoved
<1>4. NodeTypes' /\ WorkTypes' /\ TableTypes' /\ FreeTypes' /\ ClientTypes'
  BY <1>1 DEF Types, NodeTypes, WorkTypes, TableTypes, FreeTypes, ClientTypes
<1> QED
  BY <1>2, <1>3, <1>4

-----------------------------------------------------------------------------
(* Every step keeps the invariant: the application.                        *)
LEMMA Stutters ==
  ASSUME IInv,
         UNCHANGED <<own_timer, alive, held, last_id, q, timers, table, caching, client, work>>
  PROVE  IInv'
<1>1. CacheTypes' /\ CacheSound'
  BY CacheKept DEF IInv, Types
<1>2. /\ NodesOK' /\ Begun' = Begun
      /\ NodeTypes' /\ WorkTypes' /\ TableTypes' /\ FreeTypes' /\ ClientTypes'
  BY NodesKept DEF IInv
<1>3. LockTypes' /\ Ended'
  BY DEF IInv, Types, LockTypes, Ended, Reading, caching
<1>4. Borrowed'
  BY <1>2 DEF IInv, Borrowed, caching
<1> QED
  BY <1>1, <1>2, <1>3, <1>4 DEF IInv, Types

(* pj_dns_resolver_add_entry.                                              *)
LEMMA AddEntryInv ==
  ASSUME IInv, NEW k \in Keys, NEW zero \in BOOLEAN, AddEntry(k, zero)
  PROVE  IInv'
<1>1. /\ alive /\ UpdateResCache(k, TRUE, zero)
      /\ UNCHANGED <<own_timer, alive, held, last_id, q, timers, table, using, client, work>>
  BY DEF AddEntry
<1>2. CacheTypes' /\ CacheSound'
  BY <1>1, CacheUpdated DEF IInv, Types
<1>3. /\ NodesOK' /\ Begun' = Begun
      /\ NodeTypes' /\ WorkTypes' /\ TableTypes' /\ FreeTypes' /\ ClientTypes'
  BY <1>1, NodesKept DEF IInv
<1>4. LockTypes' /\ Ended'
  BY <1>1 DEF IInv, Types, LockTypes, Ended
<1>5. Borrowed'
  BY <1>1, <1>3 DEF IInv, Borrowed
<1> QED
  BY <1>2, <1>3, <1>4, <1>5 DEF IInv, Types

(* pj_dns_resolver_start_query, answered from the cache.                   *)
LEMMA StartCachedInv ==
  ASSUME IInv, NEW t \in Queries, NEW k \in Keys, StartCached(t, k)
  PROVE  IInv'
<1>1. /\ alive /\ handle[t] = None /\ call[t] = 0 /\ cancel[t] = "no"
      /\ k \in DOMAIN cache /\ using' = With(using, t, cache[k]) /\ call' = [call EXCEPT ![t] = @ + 1]
      /\ UNCHANGED <<own_timer, alive, held, last_id, q, timers, table, handle, cancel, work>>
  BY DEF StartCached
<1>2. t \notin Begun /\ t \notin DOMAIN using
  BY <1>1 DEF Begun, IInv, Borrowed
<1>3. CacheTypes' /\ CacheSound'
  BY <1>2, CacheLent DEF IInv, Types
<1>4. call' \in [Queries -> Nat] /\ \A s \in Queries : call'[s] = IF s = t THEN call[s] + 1 ELSE call[s]
  BY <1>1 DEF IInv, Types, ClientTypes
<1>5. Begun \cup {t} \subseteq Begun'
  BY <1>1, <1>4 DEF Begun, IInv, Types, ClientTypes
<1>6. NodesOK'
  <2>1. \A n \in Nodes : SameMembers(n)
    BY <1>1 DEF SameMembers
  <2> QED
    BY <1>1, <1>5, <2>1, NothingMoved DEF IInv
<1>7. NodeTypes' /\ WorkTypes' /\ TableTypes' /\ FreeTypes' /\ ClientTypes' /\ LockTypes' /\ Ended'
  BY <1>1, <1>4 DEF IInv, Types, NodeTypes, WorkTypes, TableTypes, FreeTypes, ClientTypes,
                    LockTypes, Ended, table
<1>8. Borrowed'
  BY <1>1, <1>5 DEF IInv, Borrowed, With
<1> QED
  BY <1>3, <1>6, <1>7, <1>8 DEF IInv, Types

(* The callback of such a query has returned.                              *)
LEMMA CachedDoneInv ==
  ASSUME IInv, NEW t \in Queries, CachedDone(t)
  PROVE  IInv'
<1>1. /\ t \in DOMAIN using /\ using' = Without(using, {t})
      /\ UNCHANGED <<own_timer, alive, held, last_id, q, timers, table, client, work>>
  BY DEF CachedDone
<1>2. alive
  BY <1>1, NoTable DEF IInv, Ended
<1>3. CacheTypes' /\ CacheSound'
  BY <1>2, CacheReturned DEF IInv, Types
<1>4. /\ NodesOK' /\ Begun' = Begun
      /\ NodeTypes' /\ WorkTypes' /\ TableTypes' /\ FreeTypes' /\ ClientTypes'
  BY <1>1, NodesKept DEF IInv
<1>5. LockTypes' /\ Ended'
  BY <1>1, <1>2 DEF IInv, Types, LockTypes, Ended
<1>6. Borrowed'
  BY <1>1, <1>4 DEF IInv, Borrowed, Without
<1> QED
  BY <1>3, <1>4, <1>5, <1>6 DEF IInv, Types

(* What both ways to start a query share.                                  *)
LEMMA MissedParts ==
  ASSUME IInv, NEW t \in Queries, NEW k \in Keys, StartMissed(t, k),
         \/ UNCHANGED handle
         \/ handle' = [handle EXCEPT ![t] = AllocQNode.node] /\ AllocQNode.node \in Unused
  PROVE  /\ t \notin Begun /\ Begun \subseteq Begun'
         /\ WorkTypes' /\ ClientTypes' /\ LockTypes' /\ CacheTypes' /\ CacheSound'
         /\ Ended' /\ Borrowed'
<1>1. /\ alive /\ handle[t] = None /\ call[t] = 0 /\ cancel[t] = "no"
      /\ UNCHANGED <<own_timer, alive, held, work, using, torn, call, cancel>>
  BY DEF StartMissed
<1>2. CacheTypes' /\ CacheSound'
  BY CacheMissed DEF IInv, Types
<1>3. Unused \subseteq Nodes
  BY DEF IInv, Types, FreeTypes, Unused, ToSet
<1>4. handle' \in [Queries -> Nodes \cup {None}]
      /\ \A s \in Queries : handle'[s] # handle[s] => handle'[s] # None
  BY <1>3, Parameters DEF IInv, Types, ClientTypes
<1>5. t \notin Begun /\ Begun \subseteq Begun'
  BY <1>1, <1>4 DEF Begun
<1>6. WorkTypes' /\ ClientTypes' /\ LockTypes'
  BY <1>1, <1>4 DEF IInv, Types, WorkTypes, ClientTypes, LockTypes
<1>7. Ended'
  BY <1>1 DEF Ended
<1>8. Borrowed'
  BY <1>1, <1>5 DEF IInv, Borrowed
<1> QED
  BY <1>2, <1>5, <1>6, <1>7, <1>8

(* pj_dns_resolver_start_query, of a resource that is being asked for      *)
(* already.                                                                *)
LEMMA StartChildInv ==
  ASSUME IInv, NEW t \in Queries, NEW k \in Keys, StartChild(t, k)
  PROVE  IInv'
<1>1. /\ StartMissed(t, k) /\ handle' = [handle EXCEPT ![t] = AllocQNode.node]
      /\ UNCHANGED <<last_id, timers, byId, byRes>>
  BY DEF StartChild, Accept
<1>2. t \notin Begun
  BY <1>1 DEF StartMissed, Begun
<1>3. NodesOK' /\ NodeTypes' /\ FreeTypes' /\ AllocQNode.node \in Unused
  BY <1>2, Joined DEF IInv
<1>4. /\ WorkTypes' /\ ClientTypes' /\ LockTypes' /\ CacheTypes' /\ CacheSound'
      /\ Ended' /\ Borrowed'
  BY <1>1, <1>3, MissedParts
<1>5. TableTypes'
  BY <1>1 DEF IInv, Types, TableTypes
<1> QED
  BY <1>3, <1>4, <1>5 DEF IInv, Types

(* pj_dns_resolver_start_query, of a resource that is not.                 *)
LEMMA StartRootInv ==
  ASSUME IInv, NEW t \in Queries, NEW k \in Keys, StartRoot(t, k)
  PROVE  IInv'
<1>1. StartMissed(t, k)
  BY DEF StartRoot
<1>2. t \notin Begun
  BY <1>1 DEF StartMissed, Begun
<1>3. /\ NodesOK' /\ NodeTypes' /\ FreeTypes' /\ TableTypes' /\ AllocQNode.node \in Unused
      /\ \/ UNCHANGED handle
         \/ handle' = [handle EXCEPT ![t] = AllocQNode.node]
  BY <1>2, MadePending DEF IInv
<1>4. /\ WorkTypes' /\ ClientTypes' /\ LockTypes' /\ CacheTypes' /\ CacheSound'
      /\ Ended' /\ Borrowed'
  BY <1>1, <1>3, MissedParts
<1> QED
  BY <1>3, <1>4 DEF IInv, Types

(* pj_dns_resolver_cancel_query.                                           *)
LEMMA CancelQueryInv ==
  ASSUME IInv, NEW t \in Queries, NEW notify \in BOOLEAN, CancelQuery(t, notify)
  PROVE  IInv'
<1> DEFINE n == handle[t]
<1>1. /\ alive /\ n \in Nodes
      /\ timers' \in {timers, timers \ {n}}
      /\ q' = [q EXCEPT ![n].timer = 0, ![n].cb = None]
      /\ call' = (IF notify THEN [call EXCEPT ![t] = @ + 1] ELSE call)
      /\ handle' = [handle EXCEPT ![t] = None]
      /\ cancel' = [cancel EXCEPT ![t] = IF notify THEN "notified" ELSE "silent"]
      /\ UNCHANGED <<own_timer, alive, held, last_id, work, table, caching>>
  <2>1. n \in Nodes
    BY DEF CancelQuery, IInv, Types, ClientTypes
  <2> QED
    BY <2>1 DEF CancelQuery
<1> HIDE DEF n
<1>2. UNCHANGED <<byId, byRes, free, fresh, cache, ref, using, torn>>
  BY <1>1 DEF table, caching
<1>3. NodeTypes' /\ \A m \in Nodes : SameMembers(m)
  <2> DEFINE r == [q[n] EXCEPT !.timer = 0, !.cb = None]
  <2>1. q[n] \in QueryNodes
    BY <1>1, NodeFields DEF IInv, Types
  <2>2. r \in QueryNodes /\ r.id = q[n].id /\ r.key = q[n].key /\ r.child = q[n].child
    BY <2>1 DEF QueryNodes
  <2>3. q' = [q EXCEPT ![n] = r]
    BY <1>1, <2>1 DEF IInv, Types, NodeTypes
  <2> HIDE DEF r
  <2>4. NodeTypes' /\ q'[n] = r /\ \A m \in Nodes \ {n} : q'[m] = q[m]
    BY <1>1, <2>2, <2>3, NodeWritten DEF IInv, Types
  <2> QED
    BY <2>2, <2>4 DEF SameMembers
<1>4. ClientTypes'
  <2>1. handle' \in [Queries -> Nodes \cup {None}] /\ call' \in [Queries -> Nat]
    BY <1>1 DEF IInv, Types, ClientTypes
  <2>2. cancel' \in [Queries -> {"no", "silent", "notified"}]
    BY <1>1 DEF IInv, Types, ClientTypes
  <2> QED
    BY <2>1, <2>2 DEF ClientTypes
<1>5. Begun \subseteq Begun'
  <2>1. cancel'[t] # "no"
    BY <1>1 DEF IInv, Types, ClientTypes
  <2>2. \A s \in Queries \ {t} : handle'[s] = handle[s] /\ call'[s] = call[s] /\ cancel'[s] = cancel[s]
    BY <1>1 DEF IInv, Types, ClientTypes
  <2> QED
    BY <2>1, <2>2 DEF Begun
<1>6. NodesOK'
  BY <1>1, <1>3, <1>5, NothingMoved DEF IInv
<1>7. WorkTypes' /\ FreeTypes' /\ LockTypes'
  BY <1>1, <1>2 DEF IInv, Types, WorkTypes, FreeTypes, LockTypes
<1>8. TableTypes'
  BY <1>1, <1>2 DEF IInv, Types, TableTypes
<1>9. CacheTypes' /\ CacheSound'
  BY <1>1, CacheKept DEF IInv, Types
<1>10. Ended' /\ Borrowed'
  BY <1>1, <1>2, <1>5 DEF IInv, Ended, Borrowed
<1> QED
  BY <1>3, <1>4, <1>6, <1>7, <1>8, <1>9, <1>10 DEF IInv, Types

(* pj_dns_resolver_destroy.                                                *)
LEMMA DestroyInv ==
  ASSUME IInv, NEW notify \in BOOLEAN, Destroy(notify)
  PROVE  IInv'
<1>1. /\ using = <<>> /\ \A w \in Workers : work[w].pc = "idle"
      /\ alive' = FALSE /\ cache' = <<>> /\ ref' = [e \in Entries |-> 0]
      /\ timers' \in {{}, timers}
      /\ UNCHANGED <<own_timer, held, last_id, q, work, table, using, torn, cancel>>
  BY DEF Destroy
<1>2. UNCHANGED <<byId, byRes, free, fresh>>
  BY <1>1 DEF table
<1> DEFINE told == IF notify THEN {q[n].cb : n \in Kin} ELSE {}
<1>3. /\ call' = [t \in Queries |-> IF t \in told THEN call[t] + 1 ELSE call[t]]
      /\ handle' = [t \in Queries |-> IF t \in told THEN None ELSE handle[t]]
  BY DEF Destroy
<1> HIDE DEF told
<1>4. ClientTypes'
  BY <1>1, <1>3 DEF IInv, Types, ClientTypes
<1>5. Begun \subseteq Begun'
  <2> SUFFICES ASSUME NEW t \in Queries, t \in Begun PROVE t \in Begun'
    BY DEF Begun
  <2>1. CASE t \in told
    <3>1. call'[t] = call[t] + 1 /\ call[t] \in Nat
      BY <1>3, <2>1 DEF IInv, Types, ClientTypes
    <3> QED
      BY <3>1 DEF Begun
  <2>2. CASE t \notin told
    BY <1>1, <1>3, <2>2 DEF Begun
  <2> QED
    BY <2>1, <2>2
<1>6. NodesOK'
  <2>1. \A n \in Nodes : SameMembers(n)
    BY <1>1 DEF SameMembers
  <2> QED
    BY <1>1, <1>5, <2>1, NothingMoved DEF IInv
<1>7. NodeTypes' /\ WorkTypes' /\ TableTypes' /\ FreeTypes' /\ LockTypes'
  BY <1>1, <1>2 DEF IInv, Types, NodeTypes, WorkTypes, TableTypes, FreeTypes, LockTypes
<1>8. CacheTypes'
  BY <1>1, NoTable DEF IInv, Types, CacheTypes
<1>9. CacheSound'
  BY <1>1 DEF IInv, CacheSound, CacheCounted, LentUntouched
<1>10. Ended' /\ Borrowed'
  BY <1>1, NoTable DEF Ended, Reading, Borrowed
<1> QED
  BY <1>4, <1>6, <1>7, <1>8, <1>9, <1>10 DEF IInv, Types

-----------------------------------------------------------------------------
(* The workers.                                                            *)
LEMMA ElapseInv ==
  ASSUME IInv, NEW w \in Workers, NEW n \in Nodes, Elapse(w, n)
  PROVE  IInv'
<1> DEFINE r == [Idle EXCEPT !.pc = "elapsed", !.node = n, !.of = q[n].id]
<1>1. /\ work[w].pc = "idle" /\ n \in timers /\ (own_timer => alive) /\ held' \in {held, w}
      /\ timers' = timers \ {n} /\ work' = [work EXCEPT ![w] = r]
      /\ UNCHANGED <<own_timer, alive, last_id, q, table, caching, client>>
  BY DEF Elapse
<1>2. r \in Working /\ r.pc = "elapsed" /\ r.node = n /\ r.cb = None
  <2>1. q[n].id \in Nat
    BY NodeFields DEF IInv, Types
  <2> QED
    BY <2>1, EmptySeq DEF Idle, Working
<1> HIDE DEF r
<1>3. WorkTypes' /\ work'[w] = r /\ \A v \in Workers \ {w} : work'[v] = work[v]
  BY <1>1, <1>2, WorkerMoved DEF IInv, Types
<1>4. UNCHANGED <<byId, byRes, free, fresh, cache, ref, using, torn, handle, call, cancel>>
  BY <1>1 DEF table, caching, client
<1>5. Begun' = Begun
  BY <1>4 DEF Begun
<1>6. NodesOK'
  <2>1. \A m \in Nodes : SameMembers(m)
    BY <1>1 DEF SameMembers
  <2>2. \A v \in Workers : /\ work'[v].pc = "notify" <=> work[v].pc = "notify"
                           /\ work[v].pc = "notify" => work'[v].node = work[v].node
    BY <1>1, <1>2, <1>3
  <2> QED
    BY <1>1, <1>5, <2>1, <2>2, NothingMoved DEF IInv
<1>7. NodeTypes' /\ FreeTypes' /\ ClientTypes' /\ LockTypes'
  BY <1>1, <1>4 DEF IInv, Types, NodeTypes, FreeTypes, ClientTypes, LockTypes
<1>8. TableTypes'
  BY <1>1, <1>4 DEF IInv, Types, TableTypes
<1>9. CacheTypes' /\ CacheSound'
  BY <1>1, CacheKept DEF IInv, Types
<1>10. Ended'
  <2>1. ~Reading(w)'
    BY <1>2, <1>3 DEF Reading
  <2> QED
    BY <1>1, <1>3, <1>4, <2>1, EndedKept DEF IInv
<1>11. Borrowed'
  BY <1>4, <1>5 DEF IInv, Borrowed
<1> QED
  BY <1>3, <1>6, <1>7, <1>8, <1>9, <1>10, <1>11 DEF IInv, Types

(* on_timeout is left without a callback.                                  *)
LEMMA ResumeInv ==
  ASSUME IInv, NEW w \in Workers, work[w].pc = "elapsed", Resume(w),
         NodeTypes', \A m \in Nodes : SameMembers(m), timers' \subseteq Nodes,
         UNCHANGED <<own_timer, alive, last_id, table, caching, client>>
  PROVE  IInv'
<1>1. /\ WorkTypes' /\ LockTypes' /\ work'[w] = Idle
      /\ \A v \in Workers \ {w} : work'[v] = work[v]
  BY ResumeType DEF IInv, Types
<1>2. Idle.pc = "idle"
  BY DEF Idle
<1>3. UNCHANGED <<byId, byRes, free, fresh, cache, ref, using, torn, handle, call, cancel>>
  BY DEF table, caching, client
<1>4. Begun' = Begun
  BY <1>3 DEF Begun
<1>5. NodesOK'
  <2>1. \A v \in Workers : /\ work'[v].pc = "notify" <=> work[v].pc = "notify"
                           /\ work[v].pc = "notify" => work'[v].node = work[v].node
    BY <1>1, <1>2
  <2> QED
    BY <1>4, <2>1, NothingMoved DEF IInv
<1>6. FreeTypes' /\ ClientTypes' /\ TableTypes'
  BY <1>3 DEF IInv, Types, FreeTypes, ClientTypes, TableTypes
<1>7. CacheTypes' /\ CacheSound'
  BY CacheKept DEF IInv, Types
<1>8. Ended'
  <2>1. ~Reading(w)'
    BY <1>1, <1>2 DEF Reading
  <2> QED
    BY <1>1, <1>3, <2>1, EndedKept DEF IInv
<1>9. Borrowed'
  BY <1>3, <1>4 DEF IInv, Borrowed
<1> QED
  BY <1>1, <1>5, <1>6, <1>7, <1>8, <1>9 DEF IInv, Types

(* on_timeout, of a query that was answered meanwhile.                     *)
LEMMA TimeoutStaleInv ==
  ASSUME IInv, NEW w \in Workers, TimeoutStale(w)
  PROVE  IInv'
<1>1. /\ work[w].pc = "elapsed" /\ Resume(w)
      /\ UNCHANGED <<own_timer, alive, last_id, q, timers, table, caching, client>>
  BY DEF TimeoutStale
<1>2. NodeTypes' /\ timers' \subseteq Nodes /\ \A m \in Nodes : SameMembers(m)
  BY <1>1 DEF IInv, Types, NodeTypes, TableTypes, SameMembers
<1> QED
  BY <1>1, <1>2, ResumeInv

(* on_timeout, of a query that is transmitted once more.                   *)
LEMMA RetransmitInv ==
  ASSUME IInv, NEW w \in Workers, Retransmit(w)
  PROVE  IInv'
<1> DEFINE n == work[w].node
<1>1. /\ work[w].pc = "elapsed" /\ Resume(w) /\ n \in Nodes
      /\ q' = [q EXCEPT ![n].timer = 1, ![n].cnt = @ + 1]
      /\ UNCHANGED <<own_timer, alive, last_id, table, caching, client>>
  BY DEF Retransmit, IInv, Types, WorkTypes
<1>2. PICK o \in Transmissions(n) : o.ok /\ timers' = o.timers
  BY DEF Retransmit
<1> HIDE DEF n
<1>3. timers' \subseteq Nodes
  BY <1>1, <1>2, OutcomeIs DEF IInv, Types, TableTypes
<1>4. NodeTypes' /\ \A m \in Nodes : SameMembers(m)
  <2> DEFINE r == [q[n] EXCEPT !.timer = 1, !.cnt = @ + 1]
  <2>1. q[n] \in QueryNodes
    BY <1>1, NodeFields DEF IInv, Types
  <2>2. r \in QueryNodes /\ r.id = q[n].id /\ r.key = q[n].key /\ r.child = q[n].child
    <3>1. q[n].cnt + 1 \in Nat
      BY <2>1 DEF QueryNodes
    <3> DEFINE c == q[n].cnt + 1
    <3>2. r = [q[n] EXCEPT !.timer = 1, !.cnt = c] /\ c \in Nat
      BY <3>1
    <3> HIDE DEF c, r
    <3>3. r.id = q[n].id /\ r.key = q[n].key /\ r.child = q[n].child
      BY <2>1, <3>2 DEF QueryNodes
    <3>4. r \in QueryNodes
      BY <2>1, <3>2 DEF QueryNodes
    <3> QED
      BY <3>3, <3>4
  <2>3. q' = [q EXCEPT ![n] = r]
    BY <1>1, <2>1 DEF IInv, Types, NodeTypes
  <2> HIDE DEF r
  <2>4. NodeTypes' /\ q'[n] = r /\ \A m \in Nodes \ {n} : q'[m] = q[m]
    BY <1>1, <2>2, <2>3, NodeWritten DEF IInv, Types
  <2> QED
    BY <2>2, <2>4 DEF SameMembers
<1> QED
  BY <1>1, <1>3, <1>4, ResumeInv

(* A family leaves the tables to be told.                                  *)
LEMMA ForgetInv ==
  ASSUME IInv, NEW w \in Workers, work[w].pc # "notify", NEW n \in Roots,
         Forget(n), NEW status \in {"timeout", "ok", "failed"}, Notify(w, n, status),
         alive \/ (status = "timeout" /\ work[w].pc # "idle"),
         NodeTypes', \A m \in Nodes : SameMembers(m), timers' \subseteq Nodes,
         UNCHANGED <<own_timer, alive, held, last_id, free, fresh, caching, client>>
  PROVE  IInv'
<1>1. n \in Nodes
  BY HeadsType DEF IInv, Types
<1>2. /\ WorkTypes' /\ work'[w].pc = "notify" /\ work'[w].node = n /\ work'[w].status = status
      /\ \A v \in Workers \ {w} : work'[v] = work[v]
  BY <1>1, NotifyType DEF IInv, Types
<1>3. UNCHANGED <<cache, ref, using, torn, handle, call, cancel>>
  BY DEF caching, client
<1>4. Begun' = Begun
  BY <1>3 DEF Begun
<1>5. NodesOK'
  BY <1>2, <1>4, Forgotten DEF IInv
<1>6. TableTypes'
  <2>1. /\ byId' = Without(byId, {q[n].id}) /\ byRes' = Without(byRes, {q[n].key})
    BY DEF Forget
  <2>2. /\ byId' \in [DOMAIN byId' -> Nodes] /\ DOMAIN byId' \subseteq DOMAIN byId
        /\ byRes' \in [DOMAIN byRes' -> Nodes] /\ DOMAIN byRes' \subseteq DOMAIN byRes
    BY <2>1 DEF Without, IInv, Types, TableTypes
  <2> QED
    BY <2>2 DEF IInv, Types, TableTypes
<1>7. FreeTypes' /\ ClientTypes' /\ LockTypes'
  BY <1>3 DEF IInv, Types, FreeTypes, ClientTypes, LockTypes
<1>8. CacheTypes' /\ CacheSound'
  BY CacheKept DEF IInv, Types
<1>9. Ended'
  <2>1. ~alive => ~Reading(w)'
    BY <1>2 DEF Reading
  <2> QED
    BY <1>2, <1>3, <2>1, EndedKept DEF IInv
<1>10. Borrowed'
  BY <1>3, <1>4 DEF IInv, Borrowed
<1> QED
  BY <1>2, <1>5, <1>6, <1>7, <1>8, <1>9, <1>10 DEF IInv, Types

(* Only the timer of a node is written.                                    *)
LEMMA TimerWritten ==
  ASSUME NodeTypes, NEW n \in Nodes, NEW x \in {0, 1}, q' = [q EXCEPT ![n].timer = x]
  PROVE  NodeTypes' /\ \A m \in Nodes : SameMembers(m)
<1> DEFINE r == [q[n] EXCEPT !.timer = x]
<1>1. q[n] \in QueryNodes
  BY NodeFields
<1>2. r \in QueryNodes /\ r.id = q[n].id /\ r.key = q[n].key /\ r.child = q[n].child
  <2>1. r.id = q[n].id /\ r.key = q[n].key /\ r.child = q[n].child
    BY <1>1 DEF QueryNodes
  <2>2. r \in QueryNodes
    BY <1>1 DEF QueryNodes
  <2> QED
    BY <2>1, <2>2
<1>3. q' = [q EXCEPT ![n] = r]
  BY <1>1 DEF NodeTypes
<1> HIDE DEF r
<1>4. NodeTypes' /\ q'[n] = r /\ \A m \in Nodes \ {n} : q'[m] = q[m]
  BY <1>2, <1>3, NodeWritten
<1> QED
  BY <1>2, <1>4 DEF SameMembers

(* on_timeout, of a query that has failed.                                 *)
LEMMA TimeOutInv ==
  ASSUME IInv, NEW w \in Workers, TimeOut(w)
  PROVE  IInv'
<1> DEFINE n == work[w].node
<1>1. /\ work[w].pc = "elapsed" /\ Pending(n) /\ Forget(n) /\ Notify(w, n, "timeout") /\ n \in Nodes
      /\ UNCHANGED <<own_timer, alive, held, last_id, free, fresh, caching, client>>
  BY DEF TimeOut, IInv, Types, WorkTypes
<1>2. \/ q' = [q EXCEPT ![n].timer = 0] /\ timers' = timers
      \/ \E o \in Transmissions(n) :
           ~o.ok /\ timers' = o.timers /\ q' = [q EXCEPT ![n].timer = o.timer]
  BY DEF TimeOut
<1> HIDE DEF n
<1>3. timers' = timers /\ \E x \in {0, 1} : q' = [q EXCEPT ![n].timer = x]
  BY <1>2, OutcomeIs
<1>4. NodeTypes' /\ \A m \in Nodes : SameMembers(m)
  BY <1>1, <1>3, TimerWritten DEF IInv, Types
<1>5. timers' \subseteq Nodes
  BY <1>3 DEF IInv, Types, TableTypes
<1>6. n \in Roots
  BY <1>1, PendingRoot DEF IInv, NodesOK
<1> QED
  BY <1>1, <1>4, <1>5, <1>6, ForgetInv

(* on_read_complete, up to the callbacks.                                  *)
LEMMA ReceiveInv ==
  ASSUME IInv, NEW w \in Workers, NEW m, NEW rcode, Receive(w, m, rcode)
  PROVE  IInv'
<1>1. /\ alive /\ work[w].pc = "idle"
      /\ UNCHANGED <<own_timer, alive, held, last_id, free, fresh, caching, client>>
  BY DEF Receive
<1>2. CASE rcode = "garbage" \/ m.id \notin DOMAIN byId
  <2>1. UNCHANGED <<q, timers, byId, byRes, work>>
    BY <1>2 DEF Receive
  <2> QED
    BY <1>1, <2>1, Stutters DEF table
<1>3. CASE ~(rcode = "garbage" \/ m.id \notin DOMAIN byId)
  <2> DEFINE n == byId[m.id]  s == IF rcode = "ok" THEN "ok" ELSE "failed"
  <2>1. /\ timers' = timers \ {n} /\ q' = [q EXCEPT ![n].timer = 0]
        /\ Forget(n) /\ Notify(w, n, s)
    BY <1>3 DEF Receive
  <2>2. n \in Roots
    BY <1>3 DEF Roots
  <2> HIDE DEF n
  <2>3. n \in Nodes
    BY <2>2, HeadsType DEF IInv, Types
  <2>4. NodeTypes' /\ \A k \in Nodes : SameMembers(k)
    BY <2>1, <2>3, TimerWritten DEF IInv, Types
  <2>5. timers' \subseteq Nodes /\ s \in {"timeout", "ok", "failed"}
    BY <2>1 DEF IInv, Types, TableTypes
  <2> QED
    BY <1>1, <2>1, <2>2, <2>4, <2>5, ForgetInv
<1> QED
  BY <1>2, <1>3

(* A worker on its way down the list of a family.                          *)
LEMMA TellingInv ==
  ASSUME IInv, NEW w \in Workers, work[w].pc = "notify", NEW r \in Working,
         r.pc = "notify", r.node = work[w].node, r.status = work[w].status,
         r.cb # None => r.todo # <<>>, work' = [work EXCEPT ![w] = r],
         ClientTypes', Begun \subseteq Begun',
         UNCHANGED <<own_timer, alive, held, last_id, q, timers, table, caching>>
  PROVE  IInv'
<1>1. r.node \in Nodes
  BY DEF IInv, Types, WorkTypes
<1>2. WorkTypes' /\ work'[w] = r /\ \A v \in Workers \ {w} : work'[v] = work[v]
  BY <1>1, WorkerMoved DEF IInv, Types
<1>3. UNCHANGED <<byId, byRes, free, fresh, cache, ref, using, torn>>
  BY DEF table, caching
<1>4. NodesOK'
  <2>1. \A m \in Nodes : SameMembers(m)
    BY DEF SameMembers
  <2>2. \A v \in Workers : /\ work'[v].pc = "notify" <=> work[v].pc = "notify"
                           /\ work[v].pc = "notify" => work'[v].node = work[v].node
    BY <1>2
  <2> QED
    BY <2>1, <2>2, NothingMoved DEF IInv
<1>5. NodeTypes' /\ FreeTypes' /\ LockTypes'
  BY <1>3 DEF IInv, Types, NodeTypes, FreeTypes, LockTypes
<1>6. TableTypes'
  BY <1>3 DEF IInv, Types, TableTypes
<1>7. CacheTypes' /\ CacheSound'
  BY CacheKept DEF IInv, Types
<1>8. Ended'
  <2>1. Reading(w)' => Reading(w)
    BY <1>2 DEF Reading
  <2> QED
    BY <1>2, <1>3, <2>1, EndedKept DEF IInv
<1>9. Borrowed'
  BY <1>3 DEF IInv, Borrowed
<1> QED
  BY <1>2, <1>4, <1>5, <1>6, <1>7, <1>8, <1>9 DEF IInv, Types

(* A worker loads the callback of the next node.                           *)
LEMMA LoadCbInv ==
  ASSUME IInv, NEW w \in Workers, LoadCb(w)
  PROVE  IInv'
<1> DEFINE n == Head(work[w].todo)
           rest == IF q[n].cb = None THEN Tail(work[w].todo) ELSE work[w].todo
           r == [work[w] EXCEPT !.cb = q[n].cb, !.todo = rest]
<1>1. /\ work[w].pc = "notify" /\ work[w].todo # <<>> /\ work[w] \in Working
      /\ work[w].todo \in Seq(Nodes)
      /\ UNCHANGED <<own_timer, alive, held, last_id, q, timers, table, caching, client>>
  BY DEF LoadCb, IInv, Types, WorkTypes, Working
<1>2. work' = [work EXCEPT ![w] = r]
  <2>1. work' = [work EXCEPT ![w].cb = q[n].cb, ![w].todo = IF q[Head(@)].cb = None THEN Tail(@) ELSE @]
    BY DEF LoadCb
  <2>2. work \in [Workers -> Working]
    BY DEF IInv, Types, WorkTypes
  <2> QED
    BY <1>1, <2>1, <2>2 DEF Working
<1>3. n \in Nodes /\ Tail(work[w].todo) \in Seq(Nodes)
  BY <1>1, HeadTailProperties
<1> HIDE DEF n
<1>4. q[n].cb \in Queries \cup {None} /\ rest \in Seq(Nodes)
      /\ (q[n].cb # None => rest = work[w].todo)
  BY <1>1, <1>3, NodeFields DEF IInv, Types
<1> HIDE DEF rest
<1>5. /\ r \in Working /\ r.pc = work[w].pc /\ r.node = work[w].node /\ r.status = work[w].status
      /\ r.cb = q[n].cb /\ r.todo = rest
  BY <1>1, <1>4 DEF Working
<1> HIDE DEF r
<1>6. ClientTypes' /\ Begun' = Begun
  BY <1>1 DEF IInv, Types, ClientTypes, Begun, client
<1> QED
  BY <1>1, <1>2, <1>4, <1>5, <1>6, TellingInv

(* It calls the callback it has loaded.                                    *)
LEMMA CallCbInv ==
  ASSUME IInv, NEW w \in Workers, CallCb(w)
  PROVE  IInv'
<1> DEFINE t == work[w].cb
           r == [work[w] EXCEPT !.cb = None, !.todo = Tail(@)]
<1>1. /\ t # None /\ work[w] \in Working
      /\ call' = [call EXCEPT ![t] = @ + 1] /\ handle' = [handle EXCEPT ![t] = None]
      /\ UNCHANGED <<own_timer, alive, held, last_id, q, timers, table, caching, cancel>>
  BY DEF CallCb, IInv, Types, WorkTypes
<1>2. work[w].pc = "notify" /\ work[w].todo # <<>> /\ t \in Queries /\ work[w].todo \in Seq(Nodes)
  BY <1>1 DEF IInv, Types, WorkTypes, Working
<1>3. work' = [work EXCEPT ![w] = r]
  <2>1. work' = [work EXCEPT ![w].cb = None, ![w].todo = Tail(@)]
    BY DEF CallCb
  <2>2. work \in [Workers -> Working]
    BY DEF IInv, Types, WorkTypes
  <2> QED
    BY <1>1, <2>1, <2>2 DEF Working
<1>4. Tail(work[w].todo) \in Seq(Nodes)
  BY <1>2, HeadTailProperties
<1>5. /\ r \in Working /\ r.pc = work[w].pc /\ r.node = work[w].node /\ r.status = work[w].status
      /\ r.cb = None
  BY <1>1, <1>4 DEF Working
<1> HIDE DEF r, t
<1>6. ClientTypes'
  BY <1>1, <1>2 DEF IInv, Types, ClientTypes
<1>7. Begun \subseteq Begun'
  <2>1. call[t] \in Nat /\ call'[t] = call[t] + 1
    BY <1>1, <1>2 DEF IInv, Types, ClientTypes
  <2>2. \A s \in Queries \ {t} : call'[s] = call[s] /\ handle'[s] = handle[s] /\ cancel'[s] = cancel[s]
    BY <1>1 DEF IInv, Types, ClientTypes
  <2>3. t \in Begun'
    BY <1>2, <2>1 DEF Begun
  <2> QED
    BY <2>2, <2>3 DEF Begun
<1> QED
  BY <1>1, <1>2, <1>3, <1>5, <1>6, <1>7, TellingInv

(* A family is recycled, and the cache is what the other conjuncts say.    *)
LEMMA RecycleInv ==
  ASSUME IInv, NEW w \in Workers, Told(w), Recycle(w), Resume(w),
         UNCHANGED <<own_timer, alive, last_id, timers, byId, byRes, fresh, using, client>>,
         CacheTypes', CacheSound'
  PROVE  IInv'
<1>1. work[w].pc = "notify"
  BY DEF Told
<1>2. /\ WorkTypes' /\ LockTypes' /\ work'[w] = Idle
      /\ \A v \in Workers \ {w} : work'[v] = work[v]
  BY ResumeType DEF IInv, Types
<1>3. Idle.pc = "idle"
  BY DEF Idle
<1>4. Begun' = Begun /\ ClientTypes'
  BY DEF Begun, client, IInv, Types, ClientTypes
<1>5. NodesOK' /\ NodeTypes' /\ FreeTypes'
  BY <1>1, <1>2, <1>3, <1>4, GivenBack DEF IInv
<1>6. TableTypes'
  BY DEF IInv, Types, TableTypes
<1>7. Ended'
  <2>1. ~Reading(w)'
    BY <1>2, <1>3 DEF Reading
  <2> QED
    BY <1>1, <1>2, <2>1, EndedKept DEF IInv
<1>8. Borrowed'
  BY <1>4 DEF IInv, Borrowed
<1> QED
  BY <1>2, <1>4, <1>5, <1>6, <1>7, <1>8 DEF IInv, Types

(* The rest of on_timeout, after the callbacks.                            *)
LEMMA TimeoutDoneInv ==
  ASSUME IInv, NEW w \in Workers, TimeoutDone(w)
  PROVE  IInv'
<1>1. /\ Told(w) /\ Recycle(w) /\ Resume(w)
      /\ UNCHANGED <<own_timer, alive, last_id, timers, byId, byRes, fresh, caching, client>>
  BY DEF TimeoutDone
<1>2. CacheTypes' /\ CacheSound'
  BY <1>1, CacheKept DEF IInv, Types
<1> QED
  BY <1>1, <1>2, RecycleInv DEF caching

(* The rest of on_read_complete, after the callbacks, which writes to the  *)
(* cache.                                                                  *)
LEMMA ReadDoneInv ==
  ASSUME IInv, NEW w \in Workers, NEW zero \in BOOLEAN, ReadDone(w, zero)
  PROVE  IInv'
<1> DEFINE k == q[work[w].node].key  ok == work[w].status = "ok"
<1>1. /\ Told(w) /\ Reading(w) /\ Recycle(w) /\ Resume(w) /\ UpdateResCache(k, ok, zero)
      /\ UNCHANGED <<own_timer, alive, last_id, timers, byId, byRes, fresh, using, client>>
  BY DEF ReadDone
<1>2. alive /\ k \in Keys
  <2>1. work[w].node \in Heads
    BY <1>1 DEF Told, BeingTold, Heads
  <2> QED
    BY <1>1, <2>1 DEF IInv, Ended, NodesOK, Numbered
<1>3. ok \in BOOLEAN
  OBVIOUS
<1> HIDE DEF k, ok
<1>4. CacheTypes' /\ CacheSound'
  BY <1>1, <1>2, <1>3, CacheUpdated DEF IInv, Types
<1> QED
  BY <1>1, <1>4, RecycleInv

(* Every step keeps the invariant.                                         *)
LEMMA NextHolds == IInv /\ [Next]_vars => IInv'
<1> SUFFICES ASSUME IInv, [Next]_vars PROVE IInv'
  OBVIOUS
<1>1. ASSUME NEW t \in Queries, Application(t) \/ CachedDone(t) PROVE IInv'
  BY <1>1, StartCachedInv, StartChildInv, StartRootInv, CancelQueryInv, CachedDoneInv
     DEF Application
<1>2. ASSUME NEW k \in Keys, NEW zero \in BOOLEAN, AddEntry(k, zero) PROVE IInv'
  BY <1>2, AddEntryInv
<1>3. ASSUME NEW S, SetNs(S) PROVE IInv'
  BY <1>3, Stutters DEF SetNs
<1>4. ASSUME NEW w \in Workers, OnTimeout(w) \/ OnRead(w) \/ LoadCb(w) \/ CallCb(w) PROVE IInv'
  <2>1. CASE OnTimeout(w)
    BY <2>1, TimeoutStaleInv, RetransmitInv, TimeOutInv, TimeoutDoneInv DEF OnTimeout
  <2>2. CASE OnRead(w)
    BY <2>2, ReceiveInv, ReadDoneInv DEF OnRead
  <2> QED
    BY <1>4, <2>1, <2>2, LoadCbInv, CallCbInv
<1>5. ASSUME NEW w \in Workers, NEW n \in Nodes, Elapse(w, n) PROVE IInv'
  BY <1>5, ElapseInv
<1>6. ASSUME NEW notify \in BOOLEAN, Destroy(notify) PROVE IInv'
  BY <1>6, DestroyInv
<1>7. CASE UNCHANGED vars
  BY <1>7, Stutters DEF vars
<1> QED
  BY <1>1, <1>2, <1>3, <1>4, <1>5, <1>6, <1>7 DEF Next

(* The count of a cache entry is the number of its users, and the packet   *)
(* that a callback reads is left alone: in every interleaving of calls,    *)
(* answers and callbacks that run without the lock (update_res_cache).     *)
THEOREM CacheIsSound == Spec => []CacheSound
<1>1. IInv => CacheSound
  BY DEF IInv
<1> QED
  BY InitHolds, NextHolds, <1>1, PTL DEF Spec

-----------------------------------------------------------------------------
(* The timers.                                                             *)
Elapsed(w) == work[w].pc = "elapsed"

(* What a step may do to the timers: those that run are pending queries'   *)
(* ones, and the timeouts still under way have theirs as before.           *)
LEMMA TimersMoved ==
  ASSUME TimersOwn, UNCHANGED own_timer, timers' \subseteq Roots',
         \A v \in Workers : Elapsed(v)' =>
           /\ work'[v] = work[v] /\ work[v].node \notin timers'
           /\ work[v].node \in Roots' => /\ work[v].node \in Roots
                                         /\ q'[work[v].node].id = q[work[v].node].id
           /\ own_timer => held' = held /\ work[v].node \in Roots'
  PROVE  TimersOwn'
<1>1. ASSUME NEW w \in Workers, Elapsed(w)'
      PROVE  /\ work'[w].node \notin timers'
             /\ work'[w].node \in Roots' => q'[work'[w].node].id = work'[w].of
             /\ own_timer' => held' = w /\ work'[w].node \in Roots'
  BY <1>1 DEF TimersOwn, Elapsed
<1>2. ASSUME NEW v \in Workers, NEW w \in Workers, Elapsed(v)', Elapsed(w)',
             work'[v].node = work'[w].node
      PROVE  v = w
  BY <1>2 DEF TimersOwn, Elapsed
<1> QED
  BY <1>1, <1>2 DEF TimersOwn, Elapsed

(* A step that frees no pending query and adds none.                       *)
LEMMA TimersKept ==
  ASSUME IInv, TimersOwn, UNCHANGED own_timer, timers' \subseteq timers, Roots' = Roots,
         \A m \in Roots : q'[m].id = q[m].id,
         \A v \in Workers : Elapsed(v)' => work'[v] = work[v] /\ (own_timer => held' = held)
  PROVE  TimersOwn'
<1>1. timers' \subseteq Roots'
  BY DEF TimersOwn
<1>2. ASSUME NEW v \in Workers, Elapsed(v)'
      PROVE  /\ work'[v] = work[v] /\ work[v].node \notin timers'
             /\ work[v].node \in Roots' => /\ work[v].node \in Roots
                                           /\ q'[work[v].node].id = q[work[v].node].id
             /\ own_timer => held' = held /\ work[v].node \in Roots'
  BY <1>2 DEF TimersOwn, Elapsed
<1> QED
  BY <1>1, <1>2, TimersMoved

(* With a heap of its own, the worker in on_timeout has the lock.          *)
LEMMA OwnTimerHeld ==
  ASSUME TimersOwn, own_timer, NEW v \in Workers, Elapsed(v), NEW w \in Workers
  PROVE  CanLock(w) => w = v
<1>1. held = v /\ v # None
  BY Parameters DEF TimersOwn, Elapsed
<1> QED
  BY <1>1 DEF CanLock

(* With its own heap, the lock is not released by another worker than the  *)
(* one whose timeout is under way.                                         *)
LEMMA HeldKept ==
  ASSUME TimersOwn, NEW w \in Workers, Resume(w), NEW v \in Workers \ {w}, Elapsed(v)
  PROVE  own_timer => held' = held
  BY DEF TimersOwn, Elapsed, Resume

(* A node that is given out is not that of a timeout under way.            *)
LEMMA FreshlySettled ==
  ASSUME IInv, TimersOwn, own_timer, NEW n \in Unused, NEW w \in Workers, Elapsed(w)
  PROVE  work[w].node # n
<1>1. work[w].node \in Roots
  BY DEF TimersOwn, Elapsed
<1>2. Roots \cap Unused = {}
  BY DEF IInv, NodesOK, Placed, Heads
<1> QED
  BY <1>1, <1>2

(* A node that is given out, and the timer that its first transmission     *)
(* schedules.                                                              *)
LEMMA StartsTimers ==
  ASSUME IInv, TimersOwn, own_timer, NEW t \in Queries, NEW k \in Keys,
         StartChild(t, k) \/ StartRoot(t, k)
  PROVE  TimersOwn'
<1> DEFINE n == AllocQNode.node
<1>1. /\ StartMissed(t, k) /\ UNCHANGED <<own_timer, held, work>>
  BY DEF StartChild, StartRoot, StartMissed
<1>2. t \notin Begun
  BY <1>1 DEF StartMissed, Begun
<1>3. CASE StartChild(t, k)
  <2>1. /\ Roots' = Roots /\ n \in Unused /\ timers' = timers
        /\ \A m \in Nodes \ {n} : q'[m].id = q[m].id
    BY <1>2, <1>3, Joined DEF IInv, StartChild
  <2>2. Roots \cap Unused = {} /\ Roots \subseteq Nodes
    BY HeadsType DEF IInv, Types, NodesOK, Placed, Heads
  <2>3. \A m \in Roots : q'[m].id = q[m].id
    BY <2>1, <2>2
  <2> QED
    BY <1>1, <2>1, <2>3, TimersKept
<1>4. CASE StartRoot(t, k)
  <2>1. /\ n \in Unused
        /\ \/ Roots' = Roots /\ UNCHANGED <<q, timers>>
           \/ /\ Roots' = Roots \cup {n} /\ timers' = timers \cup {n}
              /\ \A m \in Nodes \ {n} : q'[m] = q[m]
    BY <1>2, <1>4, MadePending DEF IInv
  <2> HIDE DEF n
  <2>2. CASE Roots' = Roots /\ UNCHANGED <<q, timers>>
    BY <1>1, <2>2, TimersKept
  <2>3. CASE /\ Roots' = Roots \cup {n} /\ timers' = timers \cup {n}
             /\ \A m \in Nodes \ {n} : q'[m] = q[m]
    <3>1. timers' \subseteq Roots'
      BY <2>3 DEF TimersOwn
    <3>2. ASSUME NEW v \in Workers, Elapsed(v)'
          PROVE  /\ work'[v] = work[v] /\ work[v].node \notin timers'
                 /\ work[v].node \in Roots' => /\ work[v].node \in Roots
                                               /\ q'[work[v].node].id = q[work[v].node].id
                 /\ own_timer => held' = held /\ work[v].node \in Roots'
      <4>1. Elapsed(v) /\ work'[v] = work[v] /\ work[v].node \in Nodes
        BY <1>1, <3>2 DEF Elapsed, IInv, Types, WorkTypes
      <4>2. work[v].node # n
        BY <1>1, <2>1, <4>1, FreshlySettled
      <4>3. work[v].node \notin timers /\ (own_timer => work[v].node \in Roots)
        BY <4>1 DEF TimersOwn, Elapsed
      <4> QED
        BY <1>1, <2>3, <4>1, <4>2, <4>3
    <3> QED
      BY <1>1, <3>1, <3>2, TimersMoved
  <2> QED
    BY <2>1, <2>2, <2>3
<1> QED
  BY <1>3, <1>4

(* A timer leaves the heap: the id of its query goes with it.              *)
LEMMA ElapseTimers ==
  ASSUME IInv, TimersOwn, NEW w \in Workers, NEW n \in Nodes, Elapse(w, n)
  PROVE  TimersOwn'
<1> DEFINE r == [Idle EXCEPT !.pc = "elapsed", !.node = n, !.of = q[n].id]
<1>1. /\ work[w].pc = "idle" /\ n \in timers /\ (own_timer => CanLock(w) /\ held' = w)
      /\ timers' = timers \ {n} /\ work' = [work EXCEPT ![w] = r]
      /\ UNCHANGED <<own_timer, q, table>>
  BY DEF Elapse
<1>2. r.pc = "elapsed" /\ r.node = n /\ r.of = q[n].id
  BY DEF Idle
<1> HIDE DEF r
<1>3. work'[w] = r /\ \A v \in Workers \ {w} : work'[v] = work[v]
  BY <1>1 DEF IInv, Types, WorkTypes
<1>4. Roots' = Roots /\ n \in Roots
  BY <1>1 DEF table, Roots, TimersOwn
<1>5. \A v \in Workers \ {w} : Elapsed(v)' => Elapsed(v) /\ ~own_timer /\ work[v].node # n
  <2> SUFFICES ASSUME NEW v \in Workers \ {w}, Elapsed(v)'
               PROVE  Elapsed(v) /\ ~own_timer /\ work[v].node # n
    OBVIOUS
  <2>1. Elapsed(v)
    BY <1>3 DEF Elapsed
  <2>2. ~own_timer
    BY <1>1, <2>1, OwnTimerHeld
  <2>3. work[v].node # n
    BY <1>1, <2>1 DEF TimersOwn, Elapsed
  <2> QED
    BY <2>1, <2>2, <2>3
<1>6. ASSUME NEW v \in Workers, Elapsed(v)'
      PROVE  /\ work'[v].node \notin timers'
             /\ work'[v].node \in Roots' => q'[work'[v].node].id = work'[v].of
             /\ own_timer' => held' = v /\ work'[v].node \in Roots'
  <2>1. CASE v = w
    BY <1>1, <1>2, <1>3, <1>4, <2>1
  <2>2. CASE v # w
    BY <1>1, <1>3, <1>4, <1>5, <1>6, <2>2 DEF TimersOwn, Elapsed
  <2> QED
    BY <2>1, <2>2
<1>7. ASSUME NEW u \in Workers, NEW v \in Workers, Elapsed(u)', Elapsed(v)',
             work'[u].node = work'[v].node
      PROVE  u = v
  <2>1. CASE u = w \/ v = w
    BY <1>2, <1>3, <1>5, <1>7, <2>1
  <2>2. CASE u # w /\ v # w
    BY <1>3, <1>5, <1>7, <2>2 DEF TimersOwn, Elapsed
  <2> QED
    BY <2>1, <2>2
<1>8. timers' \subseteq Roots'
  BY <1>1, <1>4 DEF TimersOwn
<1> QED
  BY <1>6, <1>7, <1>8 DEF TimersOwn, Elapsed

(* A worker leaves on_timeout, or recycles a family.                       *)
LEMMA ResumeTimers ==
  ASSUME IInv, TimersOwn, NEW w \in Workers, TimeoutStale(w) \/ TimeoutDone(w) \/
         (\E zero \in BOOLEAN : ReadDone(w, zero))
  PROVE  TimersOwn'
<1>1. /\ Resume(w) /\ UNCHANGED <<own_timer, timers, byId, byRes>>
  BY DEF TimeoutStale, TimeoutDone, ReadDone, table
<1>2. work' = [work EXCEPT ![w] = Idle] /\ Idle.pc = "idle"
  BY <1>1 DEF Resume, Idle
<1>3. /\ ~Elapsed(w)' /\ \A v \in Workers \ {w} : work'[v] = work[v]
  BY <1>2 DEF IInv, Types, WorkTypes, Elapsed
<1>4. ASSUME NEW v \in Workers, Elapsed(v)'
      PROVE  work'[v] = work[v] /\ (own_timer => held' = held)
  <2>1. v \in Workers \ {w} /\ Elapsed(v)
    BY <1>3, <1>4 DEF Elapsed
  <2> QED
    BY <1>1, <1>3, <2>1, HeldKept
<1>5. Roots' = Roots
  BY <1>1 DEF Roots
<1>6. \A m \in Roots : q'[m].id = q[m].id
  <2>1. CASE TimeoutStale(w)
    BY <2>1 DEF TimeoutStale
  <2>2. CASE Recycle(w) /\ Told(w)
    <3>1. work[w].pc = "notify" /\ work[w].node \in Nodes
      BY <2>2 DEF Told, IInv, Types, WorkTypes
    <3>2. work[w].node \in BeingTold /\ work[w].node \notin Roots
      BY <3>1 DEF BeingTold, IInv, NodesOK, Shared
    <3>3. ToSet(Family(work[w].node)) = {work[w].node} \cup Children(work[w].node)
      BY <3>1, FamilyType DEF IInv, Types
    <3>4. Roots \cap ToSet(Family(work[w].node)) = {} /\ Roots \subseteq Nodes
      BY <3>2, <3>3, HeadsType DEF IInv, Types, NodesOK, Placed, Heads
    <3> QED
      BY <2>2, <3>4 DEF Recycle, Zeroed
  <2> QED
    BY <2>1, <2>2 DEF TimeoutDone, ReadDone
<1> QED
  BY <1>1, <1>4, <1>5, <1>6, TimersKept

(* A retransmission schedules the timer of its node again, which no        *)
(* timeout under way has.                                                  *)
LEMMA RetransmitTimers ==
  ASSUME IInv, TimersOwn, NEW w \in Workers, Retransmit(w)
  PROVE  TimersOwn'
<1> DEFINE n == work[w].node
<1>1. /\ Elapsed(w) /\ Resume(w) /\ Pending(n) /\ n \in Nodes
      /\ q' = [q EXCEPT ![n].timer = 1, ![n].cnt = @ + 1]
      /\ UNCHANGED <<own_timer, table>>
  BY DEF Retransmit, IInv, Types, WorkTypes, Elapsed
<1>2. PICK o \in Transmissions(n) : o.ok /\ timers' = o.timers
  BY DEF Retransmit
<1>3. timers' = timers \cup {n} /\ n \in Roots /\ Roots' = Roots
  BY <1>1, <1>2, OutcomeIs, PendingRoot DEF IInv, NodesOK, table, Roots
<1>4. \A m \in Nodes : q'[m].id = q[m].id
  BY <1>1 DEF IInv, Types, NodeTypes, QueryNodes
<1>5. work' = [work EXCEPT ![w] = Idle] /\ Idle.pc = "idle"
  BY <1>1 DEF Resume, Idle
<1>6. /\ ~Elapsed(w)' /\ \A v \in Workers \ {w} : work'[v] = work[v]
  BY <1>5 DEF IInv, Types, WorkTypes, Elapsed
<1>7. timers' \subseteq Roots'
  BY <1>3 DEF TimersOwn
<1>8. ASSUME NEW v \in Workers, Elapsed(v)'
      PROVE  /\ work'[v] = work[v] /\ work[v].node \notin timers'
             /\ work[v].node \in Roots' => /\ work[v].node \in Roots
                                           /\ q'[work[v].node].id = q[work[v].node].id
             /\ own_timer => held' = held /\ work[v].node \in Roots'
  <2>1. v \in Workers \ {w} /\ work'[v] = work[v] /\ Elapsed(v) /\ work[v].node \in Nodes
    BY <1>6, <1>8 DEF Elapsed, IInv, Types, WorkTypes
  <2>2. work[v].node # n /\ work[v].node \notin timers
    BY <1>1, <2>1 DEF TimersOwn, Elapsed
  <2>3. own_timer => held' = held /\ work[v].node \in Roots
    BY <1>1, <2>1, HeldKept DEF TimersOwn, Elapsed
  <2> QED
    BY <1>3, <1>4, <2>1, <2>2, <2>3
<1> QED
  BY <1>1, <1>7, <1>8, TimersMoved

(* A query that leaves the tables: its timer does not run any more.        *)
LEMMA ForgetTimers ==
  ASSUME IInv, TimersOwn, NEW w \in Workers, NEW n \in Roots, UNCHANGED <<own_timer, held>>,
         Roots' = Roots \ {n}, timers' \subseteq timers, n \notin timers',
         \A m \in Nodes : SameMembers(m),
         ~Elapsed(w)', \A v \in Workers \ {w} : work'[v] = work[v],
         \A v \in Workers \ {w} : own_timer /\ Elapsed(v) => work[v].node # n
  PROVE  TimersOwn'
<1>1. timers' \subseteq Roots'
  BY DEF TimersOwn
<1>2. ASSUME NEW v \in Workers, Elapsed(v)'
      PROVE  /\ work'[v] = work[v] /\ work[v].node \notin timers'
             /\ work[v].node \in Roots' => /\ work[v].node \in Roots
                                           /\ q'[work[v].node].id = q[work[v].node].id
             /\ own_timer => held' = held /\ work[v].node \in Roots'
  <2>1. v \in Workers \ {w} /\ work'[v] = work[v] /\ Elapsed(v) /\ work[v].node \in Nodes
    BY <1>2 DEF Elapsed, IInv, Types, WorkTypes
  <2>2. work[v].node \notin timers /\ (own_timer => work[v].node \in Roots)
    BY <2>1 DEF TimersOwn, Elapsed
  <2> QED
    BY <2>1, <2>2 DEF SameMembers
<1> QED
  BY <1>1, <1>2, TimersMoved

(* A query that has failed has no timer in the heap.                       *)
LEMMA TimeOutTimers ==
  ASSUME IInv, TimersOwn, NEW w \in Workers, TimeOut(w)
  PROVE  TimersOwn'
<1> DEFINE n == work[w].node
<1>1. /\ Elapsed(w) /\ Pending(n) /\ Forget(n) /\ Notify(w, n, "timeout") /\ n \in Nodes
      /\ UNCHANGED <<own_timer, held, last_id, free, fresh, client>>
  BY DEF TimeOut, IInv, Types, WorkTypes, Elapsed
<1>2. n \notin timers /\ \A v \in Workers \ {w} : Elapsed(v) => work[v].node # n
  BY <1>1 DEF TimersOwn, Elapsed
<1>3. \/ q' = [q EXCEPT ![n].timer = 0] /\ timers' = timers
      \/ \E o \in Transmissions(n) :
           ~o.ok /\ timers' = o.timers /\ q' = [q EXCEPT ![n].timer = o.timer]
  BY DEF TimeOut
<1>4. work[w].pc # "notify"
  BY <1>1 DEF Elapsed
<1> HIDE DEF n
<1>5. timers' = timers /\ \E x \in {0, 1} : q' = [q EXCEPT ![n].timer = x]
  BY <1>3, OutcomeIs
<1>6. \A m \in Nodes : SameMembers(m)
  BY <1>1, <1>5, TimerWritten DEF IInv, Types
<1>7. /\ work'[w].pc = "notify" /\ work'[w].node = n
      /\ \A v \in Workers \ {w} : work'[v] = work[v]
  BY <1>1, NotifyType DEF IInv, Types
<1>8. n \in Roots
  BY <1>1, PendingRoot DEF IInv, NodesOK
<1>9. Begun' = Begun
  BY <1>1 DEF Begun, client
<1>10. Roots' = Roots \ {n}
  BY <1>1, <1>6, <1>7, <1>8, <1>9, <1>4, Forgotten DEF IInv
<1>11. ~Elapsed(w)'
  BY <1>7 DEF Elapsed
<1> QED
  BY <1>1, <1>2, <1>5, <1>6, <1>7, <1>8, <1>10, <1>11, ForgetTimers

(* An answer takes the timer of its query out of the heap; a timeout that  *)
(* is under way will find it gone.                                         *)
LEMMA ReceiveTimers ==
  ASSUME IInv, TimersOwn, NEW w \in Workers, NEW m, NEW rcode, Receive(w, m, rcode)
  PROVE  TimersOwn'
<1>1. /\ work[w].pc = "idle" /\ CanLock(w)
      /\ UNCHANGED <<own_timer, held, last_id, free, fresh, client>>
  BY DEF Receive
<1>2. CASE rcode = "garbage" \/ m.id \notin DOMAIN byId
  <2>1. UNCHANGED <<q, timers, byId, byRes, work>> /\ Roots' = Roots
    BY <1>2 DEF Receive, Roots
  <2> QED
    BY <1>1, <2>1, TimersKept
<1>3. CASE ~(rcode = "garbage" \/ m.id \notin DOMAIN byId)
  <2> DEFINE n == byId[m.id]  s == IF rcode = "ok" THEN "ok" ELSE "failed"
  <2>1. /\ timers' = timers \ {n} /\ q' = [q EXCEPT ![n].timer = 0]
        /\ Forget(n) /\ Notify(w, n, s)
    BY <1>3 DEF Receive
  <2>2. n \in Roots
    BY <1>3 DEF Roots
  <2> HIDE DEF n
  <2>3. n \in Nodes
    BY <2>2, HeadsType DEF IInv, Types
  <2>4. \A k \in Nodes : SameMembers(k)
    BY <2>1, <2>3, TimerWritten DEF IInv, Types
  <2>5. s \in {"timeout", "ok", "failed"}
    OBVIOUS
  <2> HIDE DEF s
  <2>6. /\ work'[w].pc = "notify" /\ work'[w].node = n
        /\ \A v \in Workers \ {w} : work'[v] = work[v]
    BY <2>1, <2>3, <2>5, NotifyType DEF IInv, Types
  <2>7. Begun' = Begun
    BY <1>1 DEF Begun, client
  <2>8. Roots' = Roots \ {n}
    BY <1>1, <2>1, <2>2, <2>4, <2>6, <2>7, Forgotten DEF IInv
  <2>9. ~Elapsed(w)'
    BY <2>6 DEF Elapsed
  <2>10. ASSUME NEW v \in Workers \ {w}, own_timer, Elapsed(v) PROVE work[v].node # n
    BY <1>1, <2>10, OwnTimerHeld
  <2> QED
    BY <1>1, <2>1, <2>2, <2>4, <2>6, <2>8, <2>9, <2>10, ForgetTimers
<1> QED
  BY <1>2, <1>3

(* Callbacks.                                                              *)
LEMMA OtherTimers ==
  ASSUME IInv, TimersOwn, NEW w \in Workers, LoadCb(w) \/ CallCb(w)
  PROVE  TimersOwn'
<1>1. /\ work[w].pc = "notify" /\ UNCHANGED <<own_timer, held, q, timers, table>>
  BY DEF LoadCb, CallCb, IInv, Types, WorkTypes
<1>2. \A v \in Workers \ {w} : work'[v] = work[v]
  BY DEF LoadCb, CallCb, IInv, Types, WorkTypes
<1>3. work'[w].pc = work[w].pc
  BY DEF LoadCb, CallCb, IInv, Types, WorkTypes, Working
<1>4. Roots' = Roots
  BY <1>1 DEF Roots, table
<1>5. \A v \in Workers : Elapsed(v)' => work'[v] = work[v] /\ (own_timer => held' = held)
  BY <1>1, <1>2, <1>3 DEF Elapsed
<1> QED
  BY <1>1, <1>4, <1>5, TimersKept

(* The calls of the application that give out no node.                     *)
LEMMA CallsTimers ==
  ASSUME IInv, TimersOwn,
         \/ \E t \in Queries : (\E k \in Keys : StartCached(t, k)) \/ CachedDone(t)
         \/ \E t \in Queries, notify \in BOOLEAN : CancelQuery(t, notify)
         \/ \E k \in Keys, zero \in BOOLEAN : AddEntry(k, zero)
         \/ \E S : SetNs(S)
         \/ \E notify \in BOOLEAN : Destroy(notify)
         \/ UNCHANGED vars
  PROVE  TimersOwn'
<1>1. UNCHANGED <<own_timer, held, work, byId>>
  BY DEF StartCached, CachedDone, CancelQuery, AddEntry, SetNs, Destroy, vars, table
<1>2. timers' \subseteq timers
  BY DEF StartCached, CachedDone, CancelQuery, AddEntry, SetNs, Destroy, vars
<1>3. Roots' = Roots
  BY <1>1 DEF Roots
<1>4. \A m \in Nodes : q'[m].id = q[m].id
  <2>1. CASE UNCHANGED q
    BY <2>1
  <2>2. ASSUME NEW t \in Queries, NEW notify \in BOOLEAN, CancelQuery(t, notify)
        PROVE  \A m \in Nodes : q'[m].id = q[m].id
    <3>1. handle[t] \in Nodes /\ q' = [q EXCEPT ![handle[t]].timer = 0, ![handle[t]].cb = None]
      BY <2>2 DEF CancelQuery, IInv, Types, ClientTypes
    <3> QED
      BY <3>1 DEF IInv, Types, NodeTypes, QueryNodes
  <2> QED
    BY <2>1, <2>2 DEF StartCached, CachedDone, AddEntry, SetNs, Destroy, vars
<1>5. Roots \subseteq Nodes
  BY HeadsType DEF IInv, Types
<1> QED
  BY <1>1, <1>2, <1>3, <1>4, <1>5, TimersKept

(* No timer is scheduled at first.                                         *)
LEMMA InitTimers == Init => TimersOwn
<1> SUFFICES ASSUME Init PROVE TimersOwn
  OBVIOUS
<1>1. timers = {} /\ \A w \in Workers : work[w].pc = "idle"
  BY DEF Init, Idle
<1> QED
  BY <1>1 DEF TimersOwn

(* The heap is the resolver's own for ever or never, and only destroy ends *)
(* the resolver.                                                           *)
LEMMA Lifetime ==
  ASSUME [Next]_vars
  PROVE  /\ own_timer' = own_timer
         /\ alive' = alive \/ \E notify \in BOOLEAN : Destroy(notify)
<1> DEFINE Same == own_timer' = own_timer /\ alive' = alive
<1>1. ASSUME NEW t \in Queries, Application(t) \/ CachedDone(t) PROVE Same
  BY <1>1 DEF Application, StartCached, StartChild, StartRoot, StartMissed, CancelQuery,
              CachedDone
<1>2. ASSUME NEW w \in Workers, OnTimeout(w) PROVE Same
  BY <1>2 DEF OnTimeout, TimeoutStale, Retransmit, TimeOut, TimeoutDone
<1>3. ASSUME NEW w \in Workers, OnRead(w) \/ LoadCb(w) \/ CallCb(w) PROVE Same
  BY <1>3 DEF OnRead, Receive, ReadDone, LoadCb, CallCb
<1>4. ASSUME NEW w \in Workers, NEW n \in Nodes, Elapse(w, n) PROVE Same
  BY <1>4 DEF Elapse
<1>5. ASSUME \/ \E k \in Keys, zero \in BOOLEAN : AddEntry(k, zero)
             \/ \E S \in SUBSET Servers : SetNs(S)
             \/ UNCHANGED vars
      PROVE  Same
  BY <1>5 DEF AddEntry, SetNs, vars
<1>6. ASSUME NEW notify \in BOOLEAN, Destroy(notify) PROVE own_timer' = own_timer
  BY <1>6 DEF Destroy
<1> QED
  BY <1>1, <1>2, <1>3, <1>4, <1>5, <1>6 DEF Next

(* Every step keeps the timers of a heap of its own.                       *)
LEMMA NextTimers == IInv /\ TimersSound /\ [Next]_vars => TimersSound'
<1> SUFFICES ASSUME IInv, TimersSound, [Next]_vars, own_timer'
             PROVE  TimersOwn'
  BY DEF TimersSound
<1>1. own_timer' = own_timer
  BY Lifetime
<1>2. TimersOwn /\ own_timer
  BY <1>1 DEF TimersSound
<1>3. ASSUME NEW t \in Queries, Application(t) \/ CachedDone(t) PROVE TimersOwn'
  BY <1>2, <1>3, StartsTimers, CallsTimers DEF Application
<1>4. ASSUME NEW w \in Workers, OnTimeout(w) \/ OnRead(w) \/ LoadCb(w) \/ CallCb(w)
      PROVE  TimersOwn'
  <2>1. CASE OnTimeout(w)
    BY <1>2, <2>1, ResumeTimers, RetransmitTimers, TimeOutTimers DEF OnTimeout
  <2>2. CASE OnRead(w)
    BY <1>2, <2>2, ResumeTimers, ReceiveTimers DEF OnRead
  <2> QED
    BY <1>2, <1>4, <2>1, <2>2, OtherTimers
<1>5. ASSUME NEW w \in Workers, NEW n \in Nodes, Elapse(w, n) PROVE TimersOwn'
  BY <1>2, <1>5, ElapseTimers
<1>6. ASSUME \/ \E k \in Keys, zero \in BOOLEAN : AddEntry(k, zero)
             \/ \E S \in SUBSET Servers : SetNs(S)
             \/ \E notify \in BOOLEAN : Destroy(notify)
             \/ UNCHANGED vars
      PROVE  TimersOwn'
  BY <1>2, <1>6, CallsTimers
<1> QED
  BY <1>3, <1>4, <1>5, <1>6 DEF Next

-----------------------------------------------------------------------------
(* What the invariant means.                                               *)
LEMMA OneElement ==
  ASSUME NEW S, NEW x \in S, \A y \in S : y = x
  PROVE  Cardinality(S) = 1
<1>1. S = {x}
  OBVIOUS
<1> QED
  BY <1>1, FS_Singleton

(* A family as a sequence.                                                 *)
LEMMA FamilyAt ==
  ASSUME NodeTypes, NEW h \in Nodes
  PROVE  /\ DOMAIN Family(h) = 1 .. Len(q[h].child) + 1 /\ Len(q[h].child) \in Nat
         /\ DOMAIN q[h].child = 1 .. Len(q[h].child)
         /\ Family(h)[1] = h
         /\ \A i \in DOMAIN q[h].child : Family(h)[i + 1] = q[h].child[i]
<1> DEFINE one == <<h>>  kids == q[h].child
<1>1. one \in Seq(Nodes) /\ Len(one) = 1 /\ one[1] = h /\ kids \in Seq(Nodes)
  BY NodeFields
<1> HIDE DEF one, kids
<1>2. /\ Len(one \o kids) = Len(one) + Len(kids) /\ Len(kids) \in Nat
      /\ \A i \in 1 .. Len(one) + Len(kids) :
           (one \o kids)[i] = IF i <= Len(one) THEN one[i] ELSE kids[i - Len(one)]
      /\ DOMAIN (one \o kids) = 1 .. Len(one \o kids) /\ DOMAIN kids = 1 .. Len(kids)
  BY <1>1, ConcatProperties, LenProperties
<1> DEFINE f == one \o kids
<1>3. /\ DOMAIN f = 1 .. Len(kids) + 1 /\ f[1] = h
      /\ \A i \in 1 .. Len(kids) + 1 : i > 1 => f[i] = kids[i - 1]
  BY <1>1, <1>2
<1> HIDE DEF f
<1>4. ASSUME NEW i \in DOMAIN kids PROVE f[i + 1] = kids[i]
  <2>1. i + 1 \in 1 .. Len(kids) + 1 /\ i + 1 > 1 /\ (i + 1) - 1 = i
    BY <1>2
  <2> QED
    BY <1>3, <2>1
<1>5. Family(h) = f
  BY DEF Family, f, one, kids
<1> QED
  BY <1>2, <1>3, <1>4, <1>5 DEF kids

(* It has no node twice, so that it is not longer than there are nodes.    *)
LEMMA FamilyFits ==
  ASSUME Types, NodesOK, NEW h \in Heads
  PROVE  /\ h \in Nodes /\ Distinct(Family(h)) /\ Len(q[h].child) + 1 <= Cardinality(Nodes)
<1>1. h \in Nodes
  BY HeadsType DEF Types
<1> DEFINE f == Family(h)  kids == q[h].child  n == Len(q[h].child) + 1
<1>2. /\ DOMAIN f = 1 .. n /\ Len(kids) \in Nat /\ DOMAIN kids = 1 .. Len(kids) /\ f[1] = h
      /\ \A i \in DOMAIN kids : f[i + 1] = kids[i]
      /\ f \in Seq(Nodes)
  BY <1>1, FamilyAt, FamilyType DEF Types
<1>3. n \in Nat /\ Len(kids) = n - 1 /\ n > 0
  BY <1>2
<1> HIDE DEF f, n
<1>4. Distinct(kids) /\ h \notin ToSet(kids)
  BY DEF NodesOK, Placed, Children
<1> HIDE DEF kids
<1>5. \A i \in 1 .. n : i # 1 => i - 1 \in DOMAIN kids /\ f[i] = kids[i - 1]
  <2> SUFFICES ASSUME NEW i \in 1 .. n, i # 1
               PROVE  i - 1 \in DOMAIN kids /\ f[i] = kids[i - 1]
    OBVIOUS
  <2>1. i - 1 \in 1 .. Len(kids) /\ (i - 1) + 1 = i
    BY <1>3
  <2> QED
    BY <1>2, <2>1
<1>6. ASSUME NEW i \in 1 .. n, NEW j \in 1 .. n, f[i] = f[j] PROVE i = j
  <2>1. CASE i = 1 /\ j # 1
    BY <1>2, <1>4, <1>5, <1>6, <2>1 DEF ToSet
  <2>2. CASE i # 1 /\ j = 1
    BY <1>2, <1>4, <1>5, <1>6, <2>2 DEF ToSet
  <2>3. CASE i # 1 /\ j # 1
    <3>1. i - 1 \in DOMAIN kids /\ j - 1 \in DOMAIN kids /\ kids[i - 1] = kids[j - 1]
      BY <1>5, <1>6, <2>3
    <3>2. i - 1 = j - 1
      BY <1>4, <3>1 DEF Distinct
    <3> QED
      BY <1>3, <3>2
  <2> QED
    BY <2>1, <2>2, <2>3
<1>7. n <= Cardinality(Nodes)
  <2>1. \A i \in 1 .. n : f[i] \in Nodes
    BY <1>2, ElementOfSeq, LenProperties
  <2> DEFINE g == [i \in 1 .. n |-> f[i]]
  <2>2. g \in Injection(1 .. n, Nodes)
    BY <1>6, <2>1 DEF Injection, IsInjective
  <2>3. IsFiniteSet(1 .. n) /\ Cardinality(1 .. n) = n
    <3>1. 1 \in Int /\ n \in Int /\ 1 <= n + 1
      BY <1>3
    <3>2. /\ IsFiniteSet(1 .. n)
          /\ Cardinality(1 .. n) = IF 1 > n THEN 0 ELSE n - 1 + 1
      BY <3>1, FS_Interval
    <3> QED
      BY <1>3, <3>2
  <2> HIDE DEF g
  <2>4. Cardinality(1 .. n) <= Cardinality(Nodes)
    BY <2>2, Parameters, FS_Injection
  <2> QED
    BY <2>3, <2>4
<1>8. Distinct(f)
  BY <1>2, <1>6 DEF Distinct
<1> QED
  BY <1>1, <1>7, <1>8 DEF f, n

(* The places of a node in the lists and tables, counted as the property   *)
(* counts them.                                                            *)
LEMMA PlacedOnce ==
  ASSUME Types, NodesOK, NEW n \in Nodes
  PROVE  Cardinality({i \in DOMAIN free : free[i] = n})
         + (IF n \in fresh THEN 1 ELSE 0)
         + Cardinality({p \in Heads \X (1..Cardinality(Nodes)) :
                          p[2] \in DOMAIN Family(p[1]) /\ Family(p[1])[p[2]] = n}) = 1
<1> DEFINE F == {i \in DOMAIN free : free[i] = n}
           P == {p \in Heads \X (1..Cardinality(Nodes)) :
                   p[2] \in DOMAIN Family(p[1]) /\ Family(p[1])[p[2]] = n}
<1>1. Heads \subseteq Nodes /\ Cardinality(Nodes) \in Nat
  BY HeadsType, Parameters DEF Types
<1>2. \A h \in Heads : /\ ToSet(Family(h)) = {h} \cup Children(h) /\ Distinct(Family(h))
                       /\ DOMAIN Family(h) \subseteq 1 .. Cardinality(Nodes)
  <2> SUFFICES ASSUME NEW h \in Heads
               PROVE  /\ ToSet(Family(h)) = {h} \cup Children(h) /\ Distinct(Family(h))
                      /\ DOMAIN Family(h) \subseteq 1 .. Cardinality(Nodes)
    OBVIOUS
  <2>1. ToSet(Family(h)) = {h} \cup Children(h)
    BY <1>1, FamilyType DEF Types
  <2>2. Distinct(Family(h)) /\ Len(q[h].child) + 1 <= Cardinality(Nodes)
    BY FamilyFits
  <2>3. DOMAIN Family(h) = 1 .. Len(q[h].child) + 1 /\ Len(q[h].child) \in Nat
    BY <1>1, FamilyAt DEF Types
  <2> QED
    BY <1>1, <2>1, <2>2, <2>3
<1>3. CASE n \in Unused
  <2>1. P = {}
    <3> SUFFICES ASSUME NEW h \in Heads, NEW i \in DOMAIN Family(h), Family(h)[i] = n PROVE FALSE
      OBVIOUS
    <3>1. n \in ToSet(Family(h))
      BY DEF ToSet
    <3> QED
      BY <1>2, <1>3, <3>1 DEF NodesOK, Placed
  <2>2. CASE n \in fresh
    <3>1. F = {}
      BY <2>2 DEF NodesOK, Placed, ToSet
    <3> HIDE DEF F, P
    <3>2. Cardinality(F) = 0 /\ Cardinality(P) = 0
      BY <2>1, <3>1, FS_EmptySet
    <3> QED
      BY <2>2, <3>2 DEF F, P
  <2>3. CASE n \notin fresh
    <3>1. PICK i \in DOMAIN free : free[i] = n
      BY <1>3, <2>3 DEF Unused, ToSet
    <3>2. \A j \in F : j = i
      BY <3>1 DEF NodesOK, Placed, Distinct
    <3>3. i \in F
      BY <3>1
    <3> HIDE DEF F, P
    <3>4. Cardinality(F) = 1 /\ Cardinality(P) = 0
      BY <2>1, <3>2, <3>3, OneElement, FS_EmptySet
    <3> QED
      BY <2>3, <3>4 DEF F, P
  <2> QED
    BY <2>2, <2>3
<1>4. CASE n \notin Unused
  <2>1. n \notin fresh /\ F = {}
    BY <1>4 DEF Unused, ToSet
  <2>2. PICK h \in Heads : n \in {h} \cup Children(h)
    BY <1>4 DEF NodesOK, Placed
  <2>3. PICK i \in DOMAIN Family(h) : Family(h)[i] = n
    BY <1>2, <2>2 DEF ToSet
  <2>4. <<h, i>> \in P
    BY <1>2, <2>3
  <2>5. ASSUME NEW p \in P PROVE p = <<h, i>>
    <3>1. PICK g \in Heads, j \in 1 .. Cardinality(Nodes) : p = <<g, j>>
      OBVIOUS
    <3>2. j \in DOMAIN Family(g) /\ Family(g)[j] = n
      BY <2>5, <3>1
    <3>3. n \in {g} \cup Children(g)
      BY <1>2, <3>2 DEF ToSet
    <3>4. g = h
      BY <2>2, <3>3 DEF NodesOK, Placed
    <3>5. j = i
      BY <1>2, <2>3, <3>2, <3>4 DEF Distinct
    <3> QED
      BY <3>1, <3>4, <3>5
  <2> HIDE DEF F, P
  <2>6. Cardinality(F) = 0 /\ Cardinality(P) = 1
    BY <2>1, <2>4, <2>5, OneElement, FS_EmptySet
  <2> QED
    BY <2>1, <2>6 DEF F, P
<1> QED
  BY <1>3, <1>4

(* What the invariant says of the places of the nodes is what NodesSound   *)
(* counts.                                                                 *)
LEMMA NodesMeaning == IInv /\ TimersSound => NodesSound
<1> SUFFICES ASSUME IInv, TimersSound PROVE NodesSound
  OBVIOUS
<1>1. TablesAgree /\ (own_timer => timers \subseteq Roots)
  BY DEF IInv, NodesOK, TimersSound, TimersOwn
<1>2. NodesPlacedOnce
  <2>1. \A n \in Nodes :
          Cardinality({i \in DOMAIN free : free[i] = n})
          + (IF n \in fresh THEN 1 ELSE 0)
          + Cardinality({p \in (Roots \cup BeingTold) \X (1..Cardinality(Nodes)) :
                           p[2] \in DOMAIN Family(p[1]) /\ Family(p[1])[p[2]] = n}) = 1
    BY PlacedOnce DEF IInv, Heads
  <2> QED
    BY <1>1, <2>1, Zenon DEF NodesPlacedOnce
<1> QED
  BY <1>1, <1>2 DEF NodesSound

(* A timeout whose node is pending is the timeout of the query that is.    *)
LEMMA TimeoutMeaning == IInv /\ TimersSound => TimeoutIsOwn
<1> SUFFICES ASSUME IInv, TimersOwn, NEW w \in Workers, work[w].pc = "elapsed",
                    Pending(work[w].node)
             PROVE  q[work[w].node].id = work[w].of
  BY DEF TimersSound, TimeoutIsOwn, OwnTimeout
<1>1. work[w].node \in Nodes
  BY DEF IInv, Types, WorkTypes
<1>2. work[w].node \in Roots
  BY <1>1, PendingRoot DEF IInv, NodesOK
<1> QED
  BY <1>2 DEF TimersOwn

(* Every query node is in one place, the two tables of pending queries     *)
(* agree, and in a heap of the resolver only a pending query has its       *)
(* timer: start_query, on_timeout and on_read_complete hand the nodes      *)
(* around as they should, for any number of threads, queries and nodes,    *)
(* and whatever timeouts a shared heap delivers late, within Intact.       *)
THEOREM NodesAreSound == Spec => []NodesSound
<1>1. IInv /\ TimersSound => NodesSound
  BY NodesMeaning
<1>2. Init => TimersSound
  BY InitTimers DEF TimersSound
<1> QED
  BY InitHolds, NextHolds, NextTimers, <1>1, <1>2, PTL DEF Spec

(* With a heap of the resolver, which is polled under the group lock, a    *)
(* timeout that passes the recheck of on_timeout, by the id that its node  *)
(* has, is the timeout of the query that the node then is.  With a shared  *)
(* heap it need not be (resolver.c:1579).                                  *)
THEOREM OwnTimeoutsAreOwn == Spec => []TimeoutIsOwn
<1>1. IInv /\ TimersSound => TimeoutIsOwn
  BY TimeoutMeaning
<1>2. Init => TimersSound
  BY InitTimers DEF TimersSound
<1> QED
  BY InitHolds, NextHolds, NextTimers, <1>1, <1>2, PTL DEF Spec

-----------------------------------------------------------------------------
(* The callbacks.  A node is waiting while its callback may still be       *)
(* called; from start_query to then its node and its handle name each      *)
(* other, and a callback that a worker has loaded is that of the node it   *)
(* has come to, unless the query was cancelled since.                      *)
Kids(n) == {n} \cup Children(n)
Waiting == {n \in Nodes : \/ \E h \in Roots : n \in Kids(h)
                          \/ \E w \in Workers : n \in ToSet(work[w].todo)}
TodosOK ==
  \A w \in Workers : IF work[w].pc = "notify"
                     THEN Distinct(work[w].todo) /\ ToSet(work[w].todo) \subseteq Kids(work[w].node)
                     ELSE work[w].todo = <<>>
HandlesOK ==
  \A t \in Queries : handle[t] # None =>
    handle[t] \in Waiting /\ q[handle[t]].cb = t /\ call[t] = 0 /\ cancel[t] = "no"
CallbacksOK == \A n \in Waiting : q[n].cb # None => handle[q[n].cb] = n
LoadedOK == \A w \in Workers : work[w].cb # None =>
              \/ work[w].cb \in late /\ q[Head(work[w].todo)].cb = None
              \/ handle[work[w].cb] = Head(work[w].todo)
LateOK == \A t \in late : t \in Queries /\ handle[t] = None /\ cancel[t] # "no"
Once == \A t \in Queries \ late : call[t] <= IF cancel[t] = "silent" THEN 0 ELSE 1
Tokens == TodosOK /\ HandlesOK /\ CallbacksOK /\ LoadedOK /\ LateOK /\ Once
ToldInv == (alive => Tokens) /\ (own_timer => Once)

(* Where waiting nodes are: in the families of the pending queries and of  *)
(* those whose callbacks are being made, each in one of them.              *)
LEMMA TodoFamily ==
  ASSUME WorkTypes, TodosOK, NEW w \in Workers, NEW n \in ToSet(work[w].todo)
  PROVE  work[w].pc = "notify" /\ work[w].node \in BeingTold /\ n \in Kids(work[w].node)
<1>1. work[w].todo # <<>>
  BY DEF ToSet
<1>2. work[w].pc = "notify"
  BY <1>1 DEF TodosOK
<1> QED
  BY <1>2 DEF TodosOK, BeingTold

(* The nodes in the list of a worker wait.                                 *)
LEMMA WaitsFor ==
  ASSUME NEW w \in Workers, NEW n \in Nodes, n \in ToSet(work[w].todo)
  PROVE  n \in Waiting
  BY DEF Waiting

(* A node belongs to one family.                                           *)
LEMMA KidsApart ==
  ASSUME Placed, NEW g \in Heads, NEW h \in Heads, g # h
  PROVE  Kids(g) \cap Kids(h) = {}
  BY DEF Placed, Kids

(* A node that waits belongs to a family, so it is not free.               *)
LEMMA WaitingType ==
  ASSUME Types, NodesOK, TodosOK
  PROVE  /\ Waiting \subseteq Nodes
         /\ \A n \in Waiting : n \notin Unused /\ \E h \in Heads : n \in Kids(h)
         /\ \A w \in Workers : work[w].todo # <<>> =>
              Head(work[w].todo) \in Waiting /\ Head(work[w].todo) \in ToSet(work[w].todo)
<1>1. ASSUME NEW n \in Waiting PROVE \E h \in Heads : n \in Kids(h)
  <2>1. CASE \E h \in Roots : n \in Kids(h)
    BY <2>1 DEF Heads
  <2>2. CASE \E w \in Workers : n \in ToSet(work[w].todo)
    <3>1. PICK w \in Workers : n \in ToSet(work[w].todo)
      BY <2>2
    <3> QED
      BY <3>1, TodoFamily DEF Heads, Types
  <2>3. (\E h \in Roots : n \in Kids(h)) \/ (\E w \in Workers : n \in ToSet(work[w].todo))
    BY DEF Waiting
  <2> QED
    BY <2>1, <2>2, <2>3
<1>2. ASSUME NEW h \in Heads, NEW n \in Kids(h) PROVE n \in Nodes /\ n \notin Unused
  <2>1. h \in Nodes
    BY HeadsType DEF Types
  <2>2. Children(h) \subseteq Nodes
    BY <2>1, FamilyType, NodeFields DEF Types, Children, ToSet
  <2> QED
    BY <2>1, <2>2 DEF Kids, NodesOK, Placed
<1>3. ASSUME NEW w \in Workers, work[w].todo # <<>>
      PROVE  Head(work[w].todo) \in Waiting /\ Head(work[w].todo) \in ToSet(work[w].todo)
  <2>1. work[w].todo \in Seq(Nodes)
    BY DEF Types, WorkTypes, Working
  <2>2. Head(work[w].todo) \in ToSet(work[w].todo)
    BY <1>3, <2>1, TailSeq
  <2>3. Head(work[w].todo) \in Nodes
    BY <1>3, <2>1, TailSeq
  <2> DEFINE next == Head(work[w].todo)
  <2> HIDE DEF next
  <2>4. next \in Nodes /\ next \in ToSet(work[w].todo)
    BY <2>2, <2>3 DEF next
  <2>5. next \in Waiting
    BY <2>4, WaitsFor
  <2> QED
    BY <2>4, <2>5 DEF next
<1> QED
  BY <1>1, <1>2, <1>3

(* The next node of a worker is nobody else's, and comes once.             *)
LEMMA HeadAlone ==
  ASSUME Types, NodesOK, TodosOK, NEW w \in Workers, work[w].todo # <<>>
  PROVE  /\ \A h \in Roots : Head(work[w].todo) \notin Kids(h)
         /\ \A v \in Workers \ {w} : Head(work[w].todo) \notin ToSet(work[v].todo)
         /\ Head(work[w].todo) \notin ToSet(Tail(work[w].todo))
<1> DEFINE n == Head(work[w].todo)
<1>1. n \in ToSet(work[w].todo) /\ work[w].todo \in Seq(Nodes)
  BY WaitingType DEF Types, WorkTypes, Working
<1>2. work[w].pc = "notify" /\ work[w].node \in BeingTold /\ n \in Kids(work[w].node)
  BY <1>1, TodoFamily DEF Types
<1>3. ASSUME NEW h \in Roots PROVE n \notin Kids(h)
  <2>1. h # work[w].node /\ h \in Heads /\ work[w].node \in Heads
    BY <1>2 DEF NodesOK, Shared, Heads
  <2> QED
    BY <1>2, <2>1, KidsApart DEF NodesOK
<1>4. ASSUME NEW v \in Workers, v # w, n \in ToSet(work[v].todo) PROVE FALSE
  <2>1. work[v].pc = "notify" /\ work[v].node \in BeingTold /\ n \in Kids(work[v].node)
    BY <1>4, TodoFamily DEF Types
  <2>2. work[v].node # work[w].node
    BY <1>2, <1>4, <2>1 DEF NodesOK, Shared
  <2> QED
    BY <1>2, <2>1, <2>2, KidsApart DEF NodesOK, Heads
<1>5. n \notin ToSet(Tail(work[w].todo))
  BY <1>1, <1>2, TailSeq DEF TodosOK
<1> QED
  BY <1>3, <1>4, <1>5

(* A step that neither takes a query nor calls one back: no node that has  *)
(* a callback stops waiting, and no callback is written to.                *)
LEMMA SameTokens ==
  ASSUME Types, NodesOK, Tokens, UNCHANGED client, TodosOK', Waiting' \subseteq Waiting,
         \A n \in Waiting \ Waiting' : q[n].cb = None,
         \A n \in Waiting' : q'[n].cb = q[n].cb,
         \A w \in Workers : work'[w].cb # None =>
           /\ Head(work'[w].todo) \in Waiting'
           /\ \/ work'[w].cb = work[w].cb /\ Head(work'[w].todo) = Head(work[w].todo)
              \/ work'[w].cb = q[Head(work'[w].todo)].cb
  PROVE  Tokens'
<1>1. UNCHANGED <<handle, call, cancel, late>>
  BY DEF client
<1>2. HandlesOK'
  <2> SUFFICES ASSUME NEW t \in Queries, handle[t] # None
               PROVE  /\ handle[t] \in Waiting' /\ q'[handle[t]].cb = t
                      /\ call[t] = 0 /\ cancel[t] = "no"
    BY <1>1 DEF HandlesOK
  <2>1. handle[t] \in Waiting /\ q[handle[t]].cb = t /\ call[t] = 0 /\ cancel[t] = "no"
    BY DEF Tokens, HandlesOK
  <2>2. q[handle[t]].cb # None
    BY <2>1, Parameters
  <2> QED
    BY <2>1, <2>2
<1>3. CallbacksOK'
  BY <1>1 DEF Tokens, CallbacksOK
<1>4. LoadedOK'
  <2> SUFFICES ASSUME NEW w \in Workers, work'[w].cb # None
               PROVE  \/ work'[w].cb \in late /\ q'[Head(work'[w].todo)].cb = None
                      \/ handle[work'[w].cb] = Head(work'[w].todo)
    BY <1>1 DEF LoadedOK
  <2> DEFINE h == Head(work'[w].todo)
  <2>1. h \in Waiting' /\ h \in Waiting /\ q'[h].cb = q[h].cb
    OBVIOUS
  <2>2. CASE work'[w].cb = work[w].cb /\ h = Head(work[w].todo)
    <3>1. work[w].cb # None
      BY <2>2
    <3>2. \/ work[w].cb \in late /\ q[Head(work[w].todo)].cb = None
          \/ handle[work[w].cb] = Head(work[w].todo)
      BY <3>1 DEF Tokens, LoadedOK
    <3> HIDE DEF h
    <3> QED
      BY <2>1, <2>2, <3>2 DEF h
  <2>3. CASE work'[w].cb = q[h].cb
    BY <2>1, <2>3 DEF Tokens, CallbacksOK
  <2> QED
    BY <2>2, <2>3
<1>5. LateOK' /\ Once'
  BY <1>1 DEF Tokens, LateOK, Once
<1> QED
  BY <1>2, <1>3, <1>4, <1>5 DEF Tokens

(* The steps that leave every node where it is, and their callbacks.       *)
LEMMA StillWaiting ==
  ASSUME Roots' = Roots, \A h \in Roots : q'[h].child = q[h].child,
         \A w \in Workers : work'[w].todo = work[w].todo
  PROVE  Waiting' = Waiting
<1>1. \A h \in Roots : Kids(h)' = Kids(h)
  BY DEF Kids, Children
<1> QED
  BY <1>1 DEF Waiting

(* ... and so the tokens.                                                  *)
LEMMA TokensStay ==
  ASSUME Types, NodesOK, Tokens, UNCHANGED client, UNCHANGED byId,
         \A n \in Nodes : q'[n].child = q[n].child /\ q'[n].cb = q[n].cb,
         \A w \in Workers : /\ work'[w].todo = work[w].todo /\ work'[w].cb = work[w].cb
                            /\ work'[w].pc = "notify" <=> work[w].pc = "notify"
                            /\ work[w].pc = "notify" => work'[w].node = work[w].node
  PROVE  Tokens'
<1>1. Roots' = Roots /\ Roots \subseteq Nodes
  BY HeadsType DEF Roots, Types
<1>2. Waiting' = Waiting
  BY <1>1, StillWaiting
<1>3. TodosOK'
  <2>1. ASSUME NEW w \in Workers, work[w].pc = "notify" PROVE Kids(work[w].node)' = Kids(work[w].node)
    BY <2>1 DEF Kids, Children, Types, WorkTypes
  <2> QED
    BY <2>1 DEF Tokens, TodosOK, Distinct
<1>4. \A w \in Workers : work'[w].cb # None => Head(work'[w].todo) \in Waiting'
  <2>1. \A w \in Workers : work[w].cb # None => work[w].todo # <<>>
    BY DEF Types, WorkTypes
  <2> QED
    BY <1>2, <2>1, WaitingType DEF Tokens
<1>5. Waiting \subseteq Nodes
  BY DEF Waiting
<1> QED
  BY <1>2, <1>3, <1>4, <1>5, SameTokens

(* A query that is taken, as the head of a family or as a child: its node  *)
(* begins to wait.                                                         *)
LEMMA TokensTaken ==
  ASSUME Types, NodesOK, Tokens, NEW t \in Queries, t \notin Begun, NEW n \in Nodes, n \in Unused,
         Waiting' = Waiting \cup {n}, q'[n].cb = t, \A m \in Waiting : q'[m].cb = q[m].cb,
         handle' = [handle EXCEPT ![t] = n], UNCHANGED <<call, cancel, late, work>>, TodosOK'
  PROVE  Tokens'
<1>1. n \notin Waiting /\ Waiting \subseteq Nodes
  BY WaitingType DEF Tokens
<1>2. handle[t] = None /\ call[t] = 0 /\ cancel[t] = "no" /\ t \notin late
  BY DEF Begun, Tokens, LateOK
<1>3. handle'[t] = n /\ \A s \in Queries \ {t} : handle'[s] = handle[s]
  BY DEF Types, ClientTypes
<1>4. HandlesOK'
  <2>1. ASSUME NEW s \in Queries, s # t, handle[s] # None
        PROVE  handle[s] \in Waiting /\ q[handle[s]].cb = s /\ call[s] = 0 /\ cancel[s] = "no"
    BY <2>1 DEF Tokens, HandlesOK
  <2> QED
    BY <1>2, <1>3, <2>1 DEF HandlesOK
<1>5. \A m \in Nodes : q[m].cb \in Queries \cup {None}
  BY NodeFields DEF Types
<1>6. CallbacksOK'
  <2>1. ASSUME NEW m \in Waiting, q[m].cb # None PROVE handle'[q[m].cb] = m
    <3>1. handle[q[m].cb] = m /\ m \in Nodes /\ q[m].cb \in Queries
      BY <1>1, <1>5, <2>1 DEF Tokens, CallbacksOK
    <3>2. q[m].cb # t
      BY <1>2, <3>1, Parameters
    <3> QED
      BY <1>3, <3>1, <3>2
  <2> QED
    BY <1>3, <2>1 DEF CallbacksOK
<1>7. LoadedOK'
  <2> SUFFICES ASSUME NEW w \in Workers, work[w].cb # None
               PROVE  \/ work[w].cb \in late /\ q'[Head(work[w].todo)].cb = None
                      \/ handle'[work[w].cb] = Head(work[w].todo)
    BY DEF LoadedOK
  <2> DEFINE h == Head(work[w].todo)
  <2>1. h \in Waiting
    BY WaitingType DEF Tokens, Types, WorkTypes
  <2>2. \/ work[w].cb \in late /\ q[h].cb = None
        \/ handle[work[w].cb] = h
    BY DEF Tokens, LoadedOK
  <2>3. work[w].cb \in Queries
    BY DEF Types, WorkTypes, Working
  <2> HIDE DEF h
  <2>4. CASE work[w].cb = t
    BY <1>1, <1>2, <2>1, <2>2, <2>4, Parameters
  <2>5. CASE work[w].cb # t
    BY <1>3, <2>1, <2>2, <2>3, <2>5 DEF h
  <2> QED
    BY <2>4, <2>5 DEF h
<1>8. LateOK'
  BY <1>2, <1>3 DEF Tokens, LateOK
<1>9. Once'
  BY DEF Tokens, Once
<1> QED
  BY <1>4, <1>6, <1>7, <1>8, <1>9 DEF Tokens

(* start_query, of a resource that is not being asked for.                 *)
LEMMA StartRootTokens ==
  ASSUME IInv, Tokens, NEW t \in Queries, NEW k \in Keys, StartRoot(t, k)
  PROVE  Tokens'
<1> PICK n : n = AllocQNode.node
  OBVIOUS
<1>1. StartMissed(t, k) /\ UNCHANGED <<work, call, cancel, late>>
  BY DEF StartRoot, StartMissed
<1>2. t \notin Begun
  BY <1>1 DEF StartMissed, Begun
<1>3. /\ n \in Unused
      /\ \/ Roots' = Roots /\ UNCHANGED <<q, timers, handle>>
         \/ /\ Roots' = Roots \cup {n}
            /\ handle' = [handle EXCEPT ![t] = n]
            /\ \A m \in Nodes \ {n} : q'[m] = q[m]
  BY <1>2, MadePending DEF IInv
<1>4. n \in Nodes /\ n \notin Heads /\ Heads \subseteq Nodes
  BY <1>3, HeadsType DEF IInv, NodesOK, Placed, Types, FreeTypes, Unused, ToSet
<1>5. handle[t] = None
  BY <1>1 DEF StartMissed
<1>6. PICK o \in Transmissions(n) :
        IF o.ok THEN /\ q' = [q EXCEPT ![n] = [cb |-> t, id |-> last_id, cnt |-> 1, key |-> k,
                                               timer |-> o.timer, child |-> <<>>]]
                     /\ handle' = [handle EXCEPT ![t] = n]
                ELSE UNCHANGED <<q, byId, byRes, handle>>
  BY DEF StartRoot, Accept
<1>7. CASE ~o.ok
  <2>1. UNCHANGED <<q, byId, client>>
    BY <1>1, <1>6, <1>7 DEF client
  <2> QED
    BY <1>1, <2>1, TokensStay DEF IInv
<1>8. CASE o.ok
  <2> DEFINE r == [cb |-> t, id |-> last_id, cnt |-> 1, key |-> k,
                   timer |-> o.timer, child |-> <<>>]
  <2>1. q' = [q EXCEPT ![n] = r] /\ handle' = [handle EXCEPT ![t] = n]
    BY <1>6, <1>8
  <2>2. r.cb = t /\ r.child = <<>>
    OBVIOUS
  <2> HIDE DEF r
  <2>3. q'[n] = r /\ \A m \in Nodes \ {n} : q'[m] = q[m]
    BY <1>4, <2>1 DEF IInv, Types, NodeTypes
  <2>4. Roots' = Roots \cup {n}
    <3>1. handle'[t] = n /\ n # None
      BY <1>4, <2>1, Parameters DEF IInv, Types, ClientTypes
    <3> QED
      BY <1>3, <1>5, <3>1
  <2>5. \A h \in Heads : Kids(h)' = Kids(h)
    BY <1>4, <2>3 DEF Kids, Children
  <2>6. Kids(n)' = {n}
    BY <2>2, <2>3, NoTable DEF Kids, Children, ToSet
  <2>7. Waiting' = Waiting \cup {n}
    BY <1>1, <1>4, <2>4, <2>5, <2>6 DEF Waiting, Heads
  <2>8. TodosOK'
    <3>1. \A w \in Workers : work[w].pc = "notify" => work[w].node \in Heads
      BY DEF Heads, BeingTold
    <3> QED
      BY <1>1, <2>5, <3>1 DEF Tokens, TodosOK, Distinct
  <2>9. \A m \in Waiting : q'[m].cb = q[m].cb
    BY <1>3, <2>3, WaitingType DEF IInv, Tokens
  <2> QED
    BY <1>1, <1>2, <1>3, <1>4, <2>1, <2>2, <2>3, <2>7, <2>8, <2>9, TokensTaken DEF IInv
<1> QED
  BY <1>7, <1>8

(* start_query, of one that is: a node joins a family that is pending,     *)
(* never one whose callbacks are being made.                               *)
LEMMA StartChildTokens ==
  ASSUME IInv, Tokens, NEW t \in Queries, NEW k \in Keys, StartChild(t, k)
  PROVE  Tokens'
<1> PICK n, h : n = AllocQNode.node /\ h = byRes[k]
  OBVIOUS
<1>1. /\ StartMissed(t, k) /\ UNCHANGED <<work, call, cancel, late>>
      /\ q' = [q EXCEPT ![n] = [NoNode EXCEPT !.cb = t], ![h].child = Append(@, n)]
      /\ handle' = [handle EXCEPT ![t] = n]
  BY DEF StartChild, StartMissed, Accept
<1>2. t \notin Begun
  BY <1>1 DEF StartMissed, Begun
<1>3. n \in Unused /\ Roots' = Roots
  BY <1>2, Joined DEF IInv
<1>4. n \in Nodes /\ n \notin Heads /\ Heads \subseteq Nodes
  BY <1>3, HeadsType DEF IInv, NodesOK, Placed, Types, FreeTypes, Unused, ToSet
<1>5. h \in Roots /\ h \in Heads /\ h \in Nodes /\ h # n
  BY <1>4 DEF StartChild, IInv, NodesOK, TablesAgree, Heads
<1> DEFINE r == [NoNode EXCEPT !.cb = t]  s == [q[h] EXCEPT !.child = Append(@, n)]
<1>6. r.cb = t
  BY DEF NoNode
<1>7. s.cb = q[h].cb /\ s.child = Append(q[h].child, n)
  BY <1>5, NodeFields DEF IInv, Types, QueryNodes
<1>8. q'[n] = r /\ q'[h] = s /\ \A m \in Nodes \ {n, h} : q'[m] = q[m]
  BY <1>1, <1>4, <1>5 DEF IInv, Types, NodeTypes
<1> HIDE DEF r, s
<1>9. Kids(h)' = Kids(h) \cup {n}
  <2>1. q[h].child \in Seq(Nodes)
    BY <1>5, NodeFields DEF IInv, Types
  <2>2. ToSet(Append(q[h].child, n)) = Children(h) \cup {n}
    BY <1>4, <2>1, AppendSeq DEF Children
  <2> QED
    BY <1>7, <1>8, <2>2 DEF Kids, Children
<1>10. \A g \in Heads \ {h} : Kids(g)' = Kids(g)
  BY <1>4, <1>8 DEF Kids, Children
<1>11. Waiting' = Waiting \cup {n}
  <2>1. ASSUME NEW m \in Nodes
        PROVE  (\E g \in Roots : m \in Kids(g)') <=> m = n \/ (\E g \in Roots : m \in Kids(g))
    BY <1>5, <1>9, <1>10 DEF Heads
  <2> QED
    BY <1>1, <1>3, <1>4, <2>1 DEF Waiting
<1>12. TodosOK'
  <2>1. \A w \in Workers : work[w].pc = "notify" => work[w].node \in Heads
    BY DEF Heads, BeingTold
  <2>2. \A w \in Workers : work[w].pc = "notify" => Kids(work[w].node) \subseteq Kids(work[w].node)'
    BY <1>1, <1>9, <1>10, <2>1
  <2> QED
    BY <1>1, <2>2 DEF Tokens, TodosOK, Distinct
<1>13. \A m \in Waiting : q'[m].cb = q[m].cb
  BY <1>3, <1>7, <1>8, WaitingType DEF IInv, Tokens
<1> QED
  BY <1>1, <1>2, <1>3, <1>4, <1>6, <1>8, <1>11, <1>12, <1>13, TokensTaken DEF IInv

(* pj_dns_resolver_cancel_query: the node loses its callback and the query *)
(* its handle in one step.                                                 *)
LEMMA CancelQueryTokens ==
  ASSUME IInv, Tokens, NEW t \in Queries, NEW notify \in BOOLEAN, CancelQuery(t, notify)
  PROVE  Tokens'
<1> PICK n : n = handle[t]
  OBVIOUS
<1>1. /\ n \in Nodes /\ n # None
      /\ q' = [q EXCEPT ![n].timer = 0, ![n].cb = None]
      /\ call' = (IF notify THEN [call EXCEPT ![t] = @ + 1] ELSE call)
      /\ handle' = [handle EXCEPT ![t] = None]
      /\ cancel' = [cancel EXCEPT ![t] = IF notify THEN "notified" ELSE "silent"]
      /\ late' = (IF \E w \in Workers : work[w].cb = t THEN late \cup {t} ELSE late)
      /\ UNCHANGED <<work, byId>>
  BY DEF CancelQuery, IInv, Types, ClientTypes, table
<1>2. n \in Waiting /\ q[n].cb = t /\ call[t] = 0 /\ t \notin late
  BY <1>1 DEF Tokens, HandlesOK, LateOK
<1>3. \A m \in Nodes : /\ q'[m].child = q[m].child
                       /\ q'[m].cb = IF m = n THEN None ELSE q[m].cb
  <2> DEFINE r == [q[n] EXCEPT !.timer = 0, !.cb = None]
  <2>1. r.child = q[n].child /\ r.cb = None
    BY <1>1, NodeFields DEF IInv, Types, QueryNodes
  <2>2. q'[n] = r /\ \A m \in Nodes \ {n} : q'[m] = q[m]
    BY <1>1 DEF IInv, Types, NodeTypes
  <2> HIDE DEF r
  <2> QED
    BY <2>1, <2>2
<1>4. /\ handle'[t] = None /\ cancel'[t] = IF notify THEN "notified" ELSE "silent"
      /\ call'[t] = IF notify THEN 1 ELSE 0
      /\ \A s \in Queries \ {t} : handle'[s] = handle[s] /\ call'[s] = call[s] /\ cancel'[s] = cancel[s]
  BY <1>1, <1>2 DEF IInv, Types, ClientTypes
<1>5. Waiting' = Waiting /\ Waiting \subseteq Nodes
  <2>1. Roots' = Roots /\ Roots \subseteq Nodes
    BY <1>1, HeadsType DEF Roots, IInv, Types
  <2>2. Waiting' = Waiting
    BY <1>1, <1>3, <2>1, StillWaiting
  <2> QED
    BY <2>2 DEF Waiting
<1>6. TodosOK'
  <2>1. ASSUME NEW w \in Workers, work[w].pc = "notify" PROVE Kids(work[w].node)' = Kids(work[w].node)
    BY <1>1, <1>3, <2>1 DEF Kids, Children, IInv, Types, WorkTypes
  <2> QED
    BY <1>1, <2>1 DEF Tokens, TodosOK, Distinct
<1>7. HandlesOK'
  <2>1. ASSUME NEW s \in Queries, s # t, handle[s] # None
        PROVE  /\ handle[s] \in Waiting /\ q[handle[s]].cb = s /\ call[s] = 0 /\ cancel[s] = "no"
               /\ handle[s] # n
    BY <1>2, <2>1 DEF Tokens, HandlesOK
  <2> QED
    BY <1>3, <1>4, <1>5, <2>1 DEF HandlesOK
<1>8. CallbacksOK'
  <2> SUFFICES ASSUME NEW m \in Waiting, q'[m].cb # None PROVE handle'[q'[m].cb] = m
    BY <1>5 DEF CallbacksOK
  <2>1. m # n /\ m \in Nodes /\ q'[m].cb = q[m].cb /\ q[m].cb \in Queries
    BY <1>3, <1>5, NodeFields DEF IInv, Types
  <2>2. handle[q[m].cb] = m
    BY <2>1 DEF Tokens, CallbacksOK
  <2> QED
    BY <1>4, <2>1, <2>2
<1>9. LoadedOK'
  <2> SUFFICES ASSUME NEW w \in Workers, work[w].cb # None
               PROVE  \/ work[w].cb \in late' /\ q'[Head(work[w].todo)].cb = None
                      \/ handle'[work[w].cb] = Head(work[w].todo)
    BY <1>1 DEF LoadedOK
  <2> PICK h : h = Head(work[w].todo)
    OBVIOUS
  <2>1. h \in Waiting /\ h \in Nodes
    BY <1>5, WaitingType DEF Tokens, IInv, Types, WorkTypes
  <2>2. \/ work[w].cb \in late /\ q[h].cb = None
        \/ handle[work[w].cb] = h
    BY DEF Tokens, LoadedOK
  <2>3. work[w].cb \in Queries
    BY DEF IInv, Types, WorkTypes, Working
  <2>4. CASE work[w].cb = t
    <3>1. h = n /\ t \in late'
      BY <1>1, <1>2, <2>2, <2>4
    <3> QED
      BY <1>3, <2>1, <2>4, <3>1
  <2>5. CASE work[w].cb # t
    <3>1. late \subseteq late'
      BY <1>1
    <3> QED
      BY <1>3, <1>4, <2>1, <2>2, <2>3, <2>5, <3>1
  <2> QED
    BY <2>4, <2>5
<1>10. LateOK'
  <2>1. late' \subseteq late \cup {t} /\ \A s \in late : s \in Queries \ {t}
    BY <1>1, <1>2 DEF Tokens, LateOK
  <2> QED
    BY <1>4, <2>1 DEF Tokens, LateOK
<1>11. Once'
  <2>1. \A s \in Queries \ late' : s \notin late
    BY <1>1
  <2> QED
    BY <1>4, <2>1 DEF Tokens, Once
<1> QED
  BY <1>6, <1>7, <1>8, <1>9, <1>10, <1>11 DEF Tokens

(* The callback of a query whose resource is in the cache.                 *)
LEMMA StartCachedTokens ==
  ASSUME IInv, Tokens, NEW t \in Queries, NEW k \in Keys, StartCached(t, k)
  PROVE  Tokens'
<1>1. /\ handle[t] = None /\ call[t] = 0 /\ cancel[t] = "no"
      /\ call' = [call EXCEPT ![t] = @ + 1]
      /\ UNCHANGED <<q, work, byId, handle, cancel, late>>
  BY DEF StartCached, table
<1>2. call'[t] = 1 /\ \A s \in Queries \ {t} : call'[s] = call[s]
  BY <1>1 DEF IInv, Types, ClientTypes
<1>3. Waiting' = Waiting
  BY <1>1, StillWaiting DEF Roots
<1>4. TodosOK' /\ CallbacksOK' /\ LoadedOK' /\ LateOK'
  BY <1>1, <1>3 DEF Tokens, TodosOK, CallbacksOK, LoadedOK, LateOK, Distinct, Kids, Children
<1>5. HandlesOK'
  BY <1>1, <1>2, <1>3 DEF Tokens, HandlesOK
<1>6. Once'
  BY <1>1, <1>2 DEF Tokens, Once
<1> QED
  BY <1>4, <1>5, <1>6 DEF Tokens

(* The timer heap and on_timeout: a worker that is not telling anybody has *)
(* nothing in its list, and the timer of a node is not its callback.       *)
LEMMA NotTelling ==
  ASSUME Types, TodosOK, NEW w \in Workers, work[w].pc # "notify"
  PROVE  work[w].todo = <<>> /\ work[w].cb = None
  BY DEF Types, WorkTypes, TodosOK

(* A worker that takes up, or gives up, a timeout.                         *)
LEMMA TimerTokens ==
  ASSUME IInv, Tokens, NEW w \in Workers, work[w].pc # "notify", NEW r,
         r.pc # "notify", r.todo = <<>>, r.cb = None, work' = [work EXCEPT ![w] = r],
         \A n \in Nodes : q'[n].child = q[n].child /\ q'[n].cb = q[n].cb,
         UNCHANGED <<byId, client>>
  PROVE  Tokens'
<1>1. work[w].todo = <<>> /\ work[w].cb = None
  BY NotTelling DEF IInv, Tokens
<1>2. work'[w] = r /\ \A v \in Workers \ {w} : work'[v] = work[v]
  BY DEF IInv, Types, WorkTypes
<1> QED
  BY <1>1, <1>2, TokensStay DEF IInv

(* pj_timer_heap_poll.                                                     *)
LEMMA ElapseTokens ==
  ASSUME IInv, Tokens, NEW w \in Workers, NEW n \in Nodes, Elapse(w, n)
  PROVE  Tokens'
<1> PICK r : r = [Idle EXCEPT !.pc = "elapsed", !.node = n, !.of = q[n].id]
  OBVIOUS
<1>1. /\ work[w].pc = "idle" /\ work' = [work EXCEPT ![w] = r]
      /\ UNCHANGED <<q, byId, client>>
  BY DEF Elapse, table
<1>2. r.pc = "elapsed" /\ r.todo = <<>> /\ r.cb = None
  BY DEF Idle
<1> QED
  BY <1>1, <1>2, TimerTokens

(* on_timeout, of a query that was answered meanwhile.                     *)
LEMMA TimeoutStaleTokens ==
  ASSUME IInv, Tokens, NEW w \in Workers, TimeoutStale(w)
  PROVE  Tokens'
<1>1. /\ work[w].pc = "elapsed" /\ work' = [work EXCEPT ![w] = Idle]
      /\ UNCHANGED <<q, byId, client>>
  BY DEF TimeoutStale, Resume, table
<1>2. Idle.pc = "idle" /\ Idle.todo = <<>> /\ Idle.cb = None
  BY DEF Idle
<1> QED
  BY <1>1, <1>2, TimerTokens

(* on_timeout, of a query that is transmitted once more.                   *)
LEMMA RetransmitTokens ==
  ASSUME IInv, Tokens, NEW w \in Workers, Retransmit(w)
  PROVE  Tokens'
<1> PICK n : n = work[w].node
  OBVIOUS
<1>1. /\ work[w].pc = "elapsed" /\ work' = [work EXCEPT ![w] = Idle] /\ n \in Nodes
      /\ q' = [q EXCEPT ![n].timer = 1, ![n].cnt = @ + 1]
      /\ UNCHANGED <<byId, client>>
  BY DEF Retransmit, Resume, table, IInv, Types, WorkTypes
<1>2. Idle.pc = "idle" /\ Idle.todo = <<>> /\ Idle.cb = None
  BY DEF Idle
<1>3. \A m \in Nodes : q'[m].child = q[m].child /\ q'[m].cb = q[m].cb
  <2> PICK c : c = q[n].cnt + 1
    OBVIOUS
  <2> DEFINE r == [q[n] EXCEPT !.timer = 1, !.cnt = c]
  <2>1. r.child = q[n].child /\ r.cb = q[n].cb
    BY <1>1, NodeFields DEF IInv, Types, QueryNodes
  <2>2. q'[n] = r /\ \A m \in Nodes \ {n} : q'[m] = q[m]
    BY <1>1, NodeFields DEF IInv, Types, NodeTypes, QueryNodes
  <2> HIDE DEF r
  <2> QED
    BY <2>1, <2>2
<1> QED
  BY <1>1, <1>2, <1>3, TimerTokens

(* A family leaves the tables: its nodes wait in the list of a worker now. *)
LEMMA ForgetTokens ==
  ASSUME IInv, Tokens, NEW w \in Workers, work[w].pc # "notify", NEW n \in Roots,
         Forget(n), NEW status \in {"timeout", "ok", "failed"}, Notify(w, n, status),
         NEW x \in {0, 1}, q' = [q EXCEPT ![n].timer = x],
         UNCHANGED <<last_id, free, fresh, client>>
  PROVE  Tokens'
<1>1. n \in Nodes /\ Roots \subseteq Nodes /\ n \in Heads /\ Heads \subseteq Nodes
  BY HeadsType DEF IInv, Types, Heads
<1>2. \A m \in Nodes : q'[m].child = q[m].child /\ q'[m].cb = q[m].cb
  <2> DEFINE r == [q[n] EXCEPT !.timer = x]
  <2>1. r.child = q[n].child /\ r.cb = q[n].cb
    BY <1>1, NodeFields DEF IInv, Types, QueryNodes
  <2>2. q'[n] = r /\ \A m \in Nodes \ {n} : q'[m] = q[m]
    BY <1>1 DEF IInv, Types, NodeTypes
  <2> HIDE DEF r
  <2> QED
    BY <2>1, <2>2
<1>3. /\ work'[w].pc = "notify" /\ work'[w].node = n /\ work'[w].todo = Family(n)
      /\ work'[w].cb = None /\ \A v \in Workers \ {w} : work'[v] = work[v]
  BY <1>1, NotifyType DEF IInv, Types
<1>4. Roots' = Roots \ {n}
  <2>1. \A m \in Nodes : SameMembers(m)
    BY <1>1, TimerWritten DEF IInv, Types
  <2>2. Begun' = Begun
    BY DEF Begun, client
  <2> QED
    BY <1>3, <2>1, <2>2, Forgotten DEF IInv
<1>5. \A h \in Nodes : Kids(h)' = Kids(h)
  BY <1>2 DEF Kids, Children
<1>6. work[w].todo = <<>> /\ ToSet(work[w].todo) = {}
  BY NotTelling, NoTable DEF IInv, Tokens, ToSet
<1>7. ToSet(Family(n)) = Kids(n) /\ Distinct(Family(n))
  BY <1>1, FamilyType, FamilyFits DEF IInv, Types, Kids
<1>8. Waiting' = Waiting
  <2>1. ASSUME NEW m \in Nodes, NEW h \in Roots, m \in Kids(h) PROVE m \in Waiting'
    <3>1. CASE h = n
      BY <1>3, <1>7, <2>1, <3>1 DEF Waiting
    <3>2. CASE h # n
      BY <1>1, <1>4, <1>5, <2>1, <3>2 DEF Waiting
    <3> QED
      BY <3>1, <3>2
  <2>2. ASSUME NEW m \in Nodes, NEW v \in Workers, m \in ToSet(work[v].todo) PROVE m \in Waiting'
    <3>1. v # w
      BY <1>6, <2>2
    <3> QED
      BY <1>3, <2>2, <3>1 DEF Waiting
  <2>3. ASSUME NEW m \in Nodes, NEW h \in Roots', m \in Kids(h) PROVE m \in Waiting
    BY <1>4, <2>3 DEF Waiting
  <2>4. ASSUME NEW m \in Nodes, NEW v \in Workers, m \in ToSet(work'[v].todo) PROVE m \in Waiting
    <3>1. CASE v = w
      BY <1>3, <1>7, <2>4, <3>1 DEF Waiting
    <3>2. CASE v # w
      BY <1>3, <2>4, <3>2 DEF Waiting
    <3> QED
      BY <3>1, <3>2
  <2>5. Waiting \subseteq Waiting'
    <3> SUFFICES ASSUME NEW m \in Waiting PROVE m \in Waiting'
      OBVIOUS
    <3>1. m \in Nodes /\ ((\E h \in Roots : m \in Kids(h)) \/ (\E v \in Workers : m \in ToSet(work[v].todo)))
      BY DEF Waiting
    <3> QED
      BY <2>1, <2>2, <3>1
  <2>6. Waiting' \subseteq Waiting
    <3> SUFFICES ASSUME NEW m \in Waiting' PROVE m \in Waiting
      OBVIOUS
    <3>1. /\ m \in Nodes
          /\ (\E h \in Roots' : m \in Kids(h)') \/ (\E v \in Workers : m \in ToSet(work'[v].todo))
      BY DEF Waiting
    <3>2. (\E h \in Roots' : m \in Kids(h)) \/ (\E v \in Workers : m \in ToSet(work'[v].todo))
      BY <1>1, <1>4, <1>5, <3>1
    <3> QED
      BY <2>3, <2>4, <3>1, <3>2
  <2> QED
    BY <2>5, <2>6
<1>9. TodosOK'
  <2>1. ASSUME NEW v \in Workers, v # w, work[v].pc = "notify"
        PROVE  Kids(work[v].node)' = Kids(work[v].node)
    BY <1>2, <1>3, <2>1 DEF IInv, Types, WorkTypes, Kids, Children
  <2>2. Kids(work[w].node)' = Kids(n)
    BY <1>1, <1>2, <1>3 DEF Kids, Children
  <2> SUFFICES ASSUME NEW v \in Workers
               PROVE  IF work'[v].pc = "notify"
                      THEN Distinct(work'[v].todo) /\ ToSet(work'[v].todo) \subseteq Kids(work[v].node)'
                      ELSE work'[v].todo = <<>>
    BY DEF TodosOK, Distinct
  <2>3. CASE v = w
    BY <1>3, <1>7, <2>2, <2>3
  <2>4. CASE v # w
    BY <1>3, <2>1, <2>4 DEF Tokens, TodosOK
  <2> QED
    BY <2>3, <2>4
<1>10. \A v \in Workers : work'[v].cb # None =>
         Head(work'[v].todo) \in Waiting /\ work'[v] = work[v]
  <2>1. \A v \in Workers : work[v].cb # None => work[v].todo # <<>>
    BY DEF IInv, Types, WorkTypes
  <2> QED
    BY <1>3, <2>1, WaitingType DEF IInv, Tokens
<1>11. Waiting \subseteq Nodes
  BY DEF Waiting
<1> QED
  BY <1>2, <1>8, <1>9, <1>10, <1>11, SameTokens DEF IInv

(* on_timeout, of a query that has failed.                                 *)
LEMMA TimeOutTokens ==
  ASSUME IInv, Tokens, NEW w \in Workers, TimeOut(w)
  PROVE  Tokens'
<1> PICK n : n = work[w].node
  OBVIOUS
<1>1. /\ work[w].pc = "elapsed" /\ Pending(n) /\ Forget(n) /\ Notify(w, n, "timeout") /\ n \in Nodes
      /\ UNCHANGED <<last_id, free, fresh, client>>
  BY DEF TimeOut, IInv, Types, WorkTypes
<1>2. \/ q' = [q EXCEPT ![n].timer = 0]
      \/ \E o \in Transmissions(n) : q' = [q EXCEPT ![n].timer = o.timer]
  BY DEF TimeOut
<1>3. \E x \in {0, 1} : q' = [q EXCEPT ![n].timer = x]
  <2>1. \A o \in Transmissions(n) : o.timer \in {0, 1}
    BY OutcomeIs
  <2> QED
    BY <1>2, <2>1
<1>4. n \in Roots
  BY <1>1, PendingRoot DEF IInv, NodesOK
<1> QED
  BY <1>1, <1>3, <1>4, ForgetTokens

(* on_read_complete, up to the callbacks.                                  *)
LEMMA ReceiveTokens ==
  ASSUME IInv, Tokens, NEW w \in Workers, NEW m, NEW rcode, Receive(w, m, rcode)
  PROVE  Tokens'
<1>1. work[w].pc = "idle" /\ UNCHANGED <<last_id, free, fresh, client>>
  BY DEF Receive
<1>2. CASE rcode = "garbage" \/ m.id \notin DOMAIN byId
  <2>1. UNCHANGED <<q, byId, work, client>>
    BY <1>2 DEF Receive
  <2> QED
    BY <2>1, TokensStay DEF IInv
<1>3. CASE ~(rcode = "garbage" \/ m.id \notin DOMAIN byId)
  <2> PICK n, s : n = byId[m.id] /\ s = IF rcode = "ok" THEN "ok" ELSE "failed"
    OBVIOUS
  <2>1. q' = [q EXCEPT ![n].timer = 0] /\ Forget(n) /\ Notify(w, n, s)
    BY <1>3 DEF Receive
  <2>2. n \in Roots /\ s \in {"timeout", "ok", "failed"}
    BY <1>3 DEF Roots
  <2> QED
    BY <1>1, <2>1, <2>2, ForgetTokens
<1> QED
  BY <1>2, <1>3

(* A family is recycled when nobody of it waits any more.                  *)
LEMMA RecycleTokens ==
  ASSUME IInv, Tokens, NEW w \in Workers, Told(w), Recycle(w), Resume(w),
         UNCHANGED <<last_id, byId, byRes, fresh, client>>
  PROVE  Tokens'
<1> PICK n : n = work[w].node
  OBVIOUS
<1>1. /\ work[w].pc = "notify" /\ work[w].todo = <<>> /\ ToSet(work[w].todo) = {}
      /\ n \in BeingTold /\ n \in Heads /\ n \in Nodes /\ Heads \subseteq Nodes
  BY HeadsType, NoTable DEF Told, BeingTold, Heads, ToSet, IInv, Types
<1>2. work'[w] = Idle /\ \A v \in Workers \ {w} : work'[v] = work[v]
  BY DEF Resume, IInv, Types, WorkTypes
<1>3. Idle.pc = "idle" /\ Idle.todo = <<>> /\ Idle.cb = None
  BY DEF Idle
<1>4. Roots' = Roots /\ \A m \in Roots : q'[m] = q[m]
  <2>1. Begun' = Begun
    BY DEF Begun, client
  <2> QED
    BY <1>1, <1>2, <1>3, <2>1, GivenBack DEF IInv
<1>5. \A m \in Nodes : m \notin Kids(n) => q'[m] = q[m]
  <2>1. ToSet(Family(n)) = Kids(n)
    BY <1>1, FamilyType DEF IInv, Types, Kids
  <2> QED
    BY <2>1 DEF Recycle, Zeroed
<1>6. \A v \in Workers : work'[v].todo = work[v].todo
  BY <1>1, <1>2, <1>3
<1>7. Waiting' = Waiting
  BY <1>4, <1>6, StillWaiting
<1>8. ASSUME NEW v \in Workers, v # w, work[v].pc = "notify"
      PROVE  work[v].node \in Heads /\ work[v].node # n
  BY <1>1, <1>8 DEF Heads, BeingTold, IInv, NodesOK, Shared
<1>9. \A m \in Waiting : m \in Nodes /\ m \notin Kids(n)
  <2> SUFFICES ASSUME NEW m \in Waiting, m \in Kids(n) PROVE FALSE
    BY DEF Waiting
  <2>1. CASE \E h \in Roots : m \in Kids(h)
    <3>1. \A h \in Roots : h \in Heads /\ h # n
      BY <1>1 DEF Heads, IInv, NodesOK, Shared
    <3> QED
      BY <1>1, <2>1, <3>1, KidsApart DEF IInv, NodesOK
  <2>2. CASE \E v \in Workers : m \in ToSet(work[v].todo)
    <3>1. PICK v \in Workers : m \in ToSet(work[v].todo)
      BY <2>2
    <3>2. v # w
      BY <1>1, <3>1
    <3>3. work[v].pc = "notify" /\ m \in Kids(work[v].node)
      BY <3>1, TodoFamily DEF IInv, Types, Tokens
    <3> QED
      BY <1>1, <1>8, <3>2, <3>3, KidsApart DEF IInv, NodesOK
  <2> QED
    BY <2>1, <2>2 DEF Waiting
<1>10. TodosOK'
  <2> SUFFICES ASSUME NEW v \in Workers
               PROVE  IF work'[v].pc = "notify"
                      THEN Distinct(work'[v].todo) /\ ToSet(work'[v].todo) \subseteq Kids(work[v].node)'
                      ELSE work'[v].todo = <<>>
    BY DEF TodosOK, Distinct
  <2>1. CASE v = w
    BY <1>2, <1>3, <2>1
  <2>2. CASE v # w /\ work[v].pc = "notify"
    <3>1. work[v].node \notin Kids(n)
      BY <1>1, <1>8, <2>2, KidsApart DEF IInv, NodesOK, Kids
    <3>2. Kids(work[v].node)' = Kids(work[v].node)
      BY <1>1, <1>2, <1>5, <1>8, <2>2, <3>1 DEF Kids, Children
    <3> QED
      BY <1>2, <2>2, <3>2 DEF Tokens, TodosOK
  <2>3. CASE v # w /\ work[v].pc # "notify"
    BY <1>2, <2>3 DEF Tokens, TodosOK
  <2> QED
    BY <2>1, <2>2, <2>3
<1>11. \A v \in Workers : work'[v].cb # None =>
         Head(work'[v].todo) \in Waiting /\ work'[v] = work[v]
  <2>1. \A v \in Workers : work[v].cb # None => work[v].todo # <<>>
    BY DEF IInv, Types, WorkTypes
  <2> QED
    BY <1>2, <1>3, <2>1, WaitingType DEF IInv, Tokens
<1>12. \A m \in Waiting : q'[m].cb = q[m].cb
  BY <1>5, <1>9
<1> QED
  BY <1>7, <1>10, <1>11, <1>12, SameTokens DEF IInv

(* A worker loads the callback of the next node, or passes over a node     *)
(* that has none.                                                          *)
LEMMA LoadCbTokens ==
  ASSUME IInv, Tokens, NEW w \in Workers, LoadCb(w)
  PROVE  Tokens'
<1> PICK n, old : n = Head(work[w].todo) /\ old = work[w].todo
  OBVIOUS
<1> PICK rest : rest = IF q[n].cb = None THEN Tail(old) ELSE old
  OBVIOUS
<1>1. /\ work[w].pc = "notify" /\ old # <<>> /\ work[w] \in Working /\ old \in Seq(Nodes)
      /\ UNCHANGED <<q, byId, client>>
  BY DEF LoadCb, IInv, Types, WorkTypes, Working, table
<1>2. n \in ToSet(old) /\ ToSet(old) = ToSet(Tail(old)) \cup {n} /\ Distinct(Tail(old))
  BY <1>1, TailSeq DEF Tokens, TodosOK
<1>3. /\ work'[w].pc = "notify" /\ work'[w].node = work[w].node /\ work'[w].cb = q[n].cb
      /\ work'[w].todo = rest /\ \A v \in Workers \ {w} : work'[v] = work[v]
  <2>1. work' = [work EXCEPT ![w].cb = q[n].cb, ![w].todo = IF q[Head(@)].cb = None THEN Tail(@) ELSE @]
    BY DEF LoadCb
  <2>2. work \in [Workers -> Working]
    BY DEF IInv, Types, WorkTypes
  <2> QED
    BY <1>1, <2>1, <2>2 DEF Working
<1>4. ToSet(rest) \subseteq ToSet(old) /\ Distinct(rest)
  BY <1>1, <1>2 DEF Tokens, TodosOK
<1>5. \A v \in Workers : ToSet(work'[v].todo) \subseteq ToSet(work[v].todo)
  BY <1>3, <1>4
<1>6. Roots' = Roots /\ \A h \in Nodes : Kids(h)' = Kids(h)
  BY <1>1 DEF Roots, Kids, Children
<1>7. Roots \subseteq Nodes
  BY HeadsType DEF IInv, Types
<1>8. Waiting' \subseteq Waiting
  BY <1>5, <1>6, <1>7 DEF Waiting
<1>9. ASSUME NEW m \in Waiting, m \notin Waiting' PROVE q[m].cb = None
  <2>1. m \in Nodes /\ ((\E h \in Roots : m \in Kids(h)) \/ (\E v \in Workers : m \in ToSet(work[v].todo)))
    BY DEF Waiting
  <2>2. PICK v \in Workers : m \in ToSet(work[v].todo)
    BY <1>6, <1>7, <1>9, <2>1 DEF Waiting
  <2>3. m \notin ToSet(work'[v].todo)
    BY <1>9, <2>1 DEF Waiting
  <2>4. v = w /\ m = n /\ rest # old
    BY <1>2, <1>3, <2>2, <2>3
  <2> QED
    BY <2>4
<1>10. TodosOK'
  <2> SUFFICES ASSUME NEW v \in Workers
               PROVE  IF work'[v].pc = "notify"
                      THEN Distinct(work'[v].todo) /\ ToSet(work'[v].todo) \subseteq Kids(work[v].node)'
                      ELSE work'[v].todo = <<>>
    BY DEF TodosOK, Distinct
  <2>1. Kids(work[v].node)' = Kids(work[v].node)
    BY <1>1, <1>3 DEF Kids, Children
  <2>2. IF work[v].pc = "notify" THEN Distinct(work[v].todo) /\ ToSet(work[v].todo) \subseteq Kids(work[v].node)
                                 ELSE work[v].todo = <<>>
    BY DEF Tokens, TodosOK
  <2>3. CASE v = w
    BY <1>1, <1>3, <1>4, <2>1, <2>2, <2>3
  <2>4. CASE v # w
    BY <1>3, <2>1, <2>2, <2>4
  <2> QED
    BY <2>3, <2>4
<1>11. \A v \in Workers : work'[v].cb # None =>
         /\ Head(work'[v].todo) \in Waiting'
         /\ \/ work'[v].cb = work[v].cb /\ Head(work'[v].todo) = Head(work[v].todo)
            \/ work'[v].cb = q[Head(work'[v].todo)].cb
  <2> SUFFICES ASSUME NEW v \in Workers, work'[v].cb # None
               PROVE  /\ Head(work'[v].todo) \in Waiting'
                      /\ \/ work'[v].cb = work[v].cb /\ Head(work'[v].todo) = Head(work[v].todo)
                         \/ work'[v].cb = q[Head(work'[v].todo)].cb
    OBVIOUS
  <2>1. work[v].todo # <<>> /\ work'[v].todo = work[v].todo
    BY <1>1, <1>3 DEF IInv, Types, WorkTypes
  <2>2. Head(work[v].todo) \in Waiting /\ Head(work[v].todo) \in ToSet(work'[v].todo)
    BY <2>1, WaitingType DEF IInv, Tokens
  <2>3. Head(work[v].todo) \in Waiting'
    BY <2>2 DEF Waiting
  <2>4. CASE v = w
    BY <1>3, <2>1, <2>3, <2>4
  <2>5. CASE v # w
    BY <1>3, <2>1, <2>3, <2>5
  <2> QED
    BY <2>4, <2>5
<1>12. \A m \in Waiting' : q'[m].cb = q[m].cb
  BY <1>1
<1> QED
  BY <1>1, <1>8, <1>9, <1>10, <1>11, <1>12, SameTokens DEF IInv

(* The callback itself: the query is told, unless cancelled since then,    *)
(* and its node waits nowhere else.                                        *)
LEMMA CallCbTokens ==
  ASSUME IInv, Tokens, NEW w \in Workers, CallCb(w)
  PROVE  Tokens'
<1> PICK t, n, old : t = work[w].cb /\ n = Head(work[w].todo) /\ old = work[w].todo
  OBVIOUS
<1>1. /\ t # None /\ work[w] \in Working
      /\ call' = [call EXCEPT ![t] = @ + 1] /\ handle' = [handle EXCEPT ![t] = None]
      /\ UNCHANGED <<q, byId, cancel, late>>
  BY DEF CallCb, IInv, Types, WorkTypes, table
<1>2. work[w].pc = "notify" /\ old # <<>> /\ t \in Queries /\ old \in Seq(Nodes)
  BY <1>1 DEF IInv, Types, WorkTypes, Working
<1>3. /\ work'[w].pc = "notify" /\ work'[w].node = work[w].node /\ work'[w].cb = None
      /\ work'[w].todo = Tail(old) /\ \A v \in Workers \ {w} : work'[v] = work[v]
  <2>1. work' = [work EXCEPT ![w].cb = None, ![w].todo = Tail(@)]
    BY DEF CallCb
  <2>2. work \in [Workers -> Working]
    BY DEF IInv, Types, WorkTypes
  <2> QED
    BY <1>1, <1>2, <2>1, <2>2 DEF Working
<1>4. ToSet(old) = ToSet(Tail(old)) \cup {n} /\ Distinct(Tail(old)) /\ n \in Nodes
  BY <1>2, TailSeq DEF Tokens, TodosOK
<1>5. /\ \A h \in Roots : n \notin Kids(h)
      /\ \A v \in Workers \ {w} : n \notin ToSet(work[v].todo)
      /\ n \notin ToSet(Tail(old)) /\ n \in Waiting
  BY <1>2, HeadAlone, WaitingType DEF IInv, Tokens
<1>6. /\ handle'[t] = None /\ call'[t] = call[t] + 1
      /\ \A s \in Queries \ {t} : handle'[s] = handle[s] /\ call'[s] = call[s]
  BY <1>1, <1>2 DEF IInv, Types, ClientTypes
<1>7. /\ Roots' = Roots /\ Roots \subseteq Nodes /\ \A h \in Nodes : Kids(h)' = Kids(h)
      /\ Waiting \subseteq Nodes
  <2>1. Roots \subseteq Nodes
    BY HeadsType DEF IInv, Types
  <2> QED
    BY <1>1, <2>1 DEF Roots, Kids, Children, Waiting
<1>8. Waiting' = Waiting \ {n}
  <2>1. ASSUME NEW m \in Waiting, m # n PROVE m \in Waiting'
    <3>1. m \in Nodes /\ ((\E h \in Roots : m \in Kids(h)) \/ (\E v \in Workers : m \in ToSet(work[v].todo)))
      BY DEF Waiting
    <3>2. CASE \E h \in Roots : m \in Kids(h)
      BY <1>7, <3>1, <3>2 DEF Waiting
    <3>3. CASE \E v \in Workers : m \in ToSet(work[v].todo)
      <4>1. PICK v \in Workers : m \in ToSet(work[v].todo)
        BY <3>3
      <4>2. m \in ToSet(work'[v].todo)
        BY <1>3, <1>4, <2>1, <4>1
      <4> QED
        BY <3>1, <4>2 DEF Waiting
    <3> QED
      BY <3>1, <3>2, <3>3
  <2>2. ASSUME NEW m \in Waiting' PROVE m \in Waiting /\ m # n
    <3>1. m \in Nodes /\ ((\E h \in Roots' : m \in Kids(h)') \/ (\E v \in Workers : m \in ToSet(work'[v].todo)))
      BY DEF Waiting
    <3>2. CASE \E h \in Roots : m \in Kids(h)
      BY <1>5, <3>1, <3>2 DEF Waiting
    <3>3. CASE \E v \in Workers : m \in ToSet(work'[v].todo)
      <4>1. PICK v \in Workers : m \in ToSet(work'[v].todo)
        BY <3>3
      <4>2. m \in ToSet(work[v].todo) /\ m # n
        BY <1>3, <1>4, <1>5, <4>1
      <4> QED
        BY <3>1, <4>2 DEF Waiting
    <3> QED
      BY <1>7, <3>1, <3>2, <3>3
  <2> QED
    BY <2>1, <2>2
<1>9. TodosOK'
  <2> SUFFICES ASSUME NEW v \in Workers
               PROVE  IF work'[v].pc = "notify"
                      THEN Distinct(work'[v].todo) /\ ToSet(work'[v].todo) \subseteq Kids(work[v].node)'
                      ELSE work'[v].todo = <<>>
    BY DEF TodosOK, Distinct
  <2>1. Kids(work[v].node)' = Kids(work[v].node)
    BY <1>1, <1>3 DEF Kids, Children
  <2>2. IF work[v].pc = "notify" THEN Distinct(work[v].todo) /\ ToSet(work[v].todo) \subseteq Kids(work[v].node)
                                 ELSE work[v].todo = <<>>
    BY DEF Tokens, TodosOK
  <2>3. CASE v = w
    BY <1>2, <1>3, <1>4, <2>1, <2>2, <2>3
  <2>4. CASE v # w
    BY <1>3, <2>1, <2>2, <2>4
  <2> QED
    BY <2>3, <2>4
<1>10. /\ \/ t \in late /\ handle[t] = None /\ q[n].cb = None
          \/ t \notin late /\ handle[t] = n /\ q[n].cb = t /\ call[t] = 0 /\ cancel[t] = "no"
  <2>1. (t \in late /\ q[n].cb = None) \/ handle[t] = n
    BY <1>1 DEF Tokens, LoadedOK
  <2>2. n # None
    BY <1>4, Parameters
  <2> QED
    BY <1>2, <2>1, <2>2 DEF Tokens, LateOK, HandlesOK
<1>11. HandlesOK'
  <2> SUFFICES ASSUME NEW s \in Queries, handle'[s] # None
               PROVE  /\ handle'[s] \in Waiting' /\ q[handle'[s]].cb = s
                      /\ call'[s] = 0 /\ cancel[s] = "no"
    BY <1>1 DEF HandlesOK
  <2>1. s # t /\ handle'[s] = handle[s] /\ call'[s] = call[s]
    BY <1>6
  <2>2. handle[s] \in Waiting /\ q[handle[s]].cb = s /\ call[s] = 0 /\ cancel[s] = "no"
    BY <2>1 DEF Tokens, HandlesOK
  <2>3. handle[s] # n
    BY <1>10, <2>1, <2>2, Parameters
  <2> QED
    BY <1>8, <2>1, <2>2, <2>3
<1>12. CallbacksOK'
  <2> SUFFICES ASSUME NEW m \in Waiting', q[m].cb # None PROVE handle'[q[m].cb] = m
    BY <1>1 DEF CallbacksOK
  <2>1. m \in Waiting /\ m # n /\ m \in Nodes
    BY <1>7, <1>8
  <2>2. q[m].cb \in Queries /\ handle[q[m].cb] = m
    BY <2>1, NodeFields DEF IInv, Types, Tokens, CallbacksOK
  <2>3. q[m].cb # t
    BY <1>10, <2>1, <2>2, Parameters
  <2> QED
    BY <1>6, <2>2, <2>3
<1>13. LoadedOK'
  <2> SUFFICES ASSUME NEW v \in Workers, work'[v].cb # None
               PROVE  \/ work'[v].cb \in late /\ q[Head(work'[v].todo)].cb = None
                      \/ handle'[work'[v].cb] = Head(work'[v].todo)
    BY <1>1 DEF LoadedOK
  <2>1. v # w /\ work'[v] = work[v]
    BY <1>3
  <2>2. work[v].cb \in Queries /\ work[v].cb # None /\ work[v].todo # <<>>
    BY <2>1 DEF IInv, Types, WorkTypes, Working
  <2>3. \/ work[v].cb \in late /\ q[Head(work[v].todo)].cb = None
        \/ handle[work[v].cb] = Head(work[v].todo)
    BY <2>2 DEF Tokens, LoadedOK
  <2>4. Head(work[v].todo) \in ToSet(work[v].todo) /\ Head(work[v].todo) \in Nodes
    BY <1>7, <2>2, WaitingType DEF IInv, Tokens
  <2>5. Head(work[v].todo) # n /\ Head(work[v].todo) # None
    BY <1>5, <2>1, <2>4, Parameters
  <2>6. CASE work[v].cb = t
    BY <1>10, <2>1, <2>3, <2>5, <2>6
  <2>7. CASE work[v].cb # t
    BY <1>6, <2>1, <2>2, <2>3, <2>7
  <2> QED
    BY <2>6, <2>7
<1>14. LateOK'
  BY <1>1, <1>6 DEF Tokens, LateOK
<1>15. Once'
  <2> SUFFICES ASSUME NEW s \in Queries, s \notin late
               PROVE  call'[s] <= IF cancel[s] = "silent" THEN 0 ELSE 1
    BY <1>1 DEF Once
  <2>1. CASE s = t
    BY <1>6, <1>10, <2>1
  <2>2. CASE s # t
    BY <1>6, <2>2 DEF Tokens, Once
  <2> QED
    BY <2>1, <2>2
<1> QED
  BY <1>9, <1>11, <1>12, <1>13, <1>14, <1>15 DEF Tokens

(* pj_dns_resolver_destroy tells the pending queries, and nobody after it. *)
LEMMA DestroyOnce ==
  ASSUME IInv, Tokens, NEW notify \in BOOLEAN, Destroy(notify)
  PROVE  Once'
<1> DEFINE told == IF notify THEN {q[n].cb : n \in Kin} ELSE {}
<1>1. /\ call' = [t \in Queries |-> IF t \in told THEN call[t] + 1 ELSE call[t]]
      /\ UNCHANGED <<cancel, late>>
  BY DEF Destroy
<1>2. ASSUME NEW t \in Queries, t \in told PROVE call[t] = 0 /\ cancel[t] = "no"
  <2>1. PICK n \in Kin : q[n].cb = t
    BY <1>2
  <2>2. PICK i \in DOMAIN byId : n \in ToSet(Family(byId[i]))
    BY DEF Kin
  <2> PICK h : h = byId[i]
    OBVIOUS
  <2>3. h \in Roots /\ h \in Nodes
    BY HeadsType DEF Roots, IInv, Types
  <2>4. n \in Kids(h) /\ n \in Nodes
    <3>1. ToSet(Family(h)) = Kids(h) /\ Family(h) \in Seq(Nodes)
      BY <2>3, FamilyType DEF IInv, Types, Kids
    <3> QED
      BY <2>2, <3>1 DEF ToSet
  <2>5. n \in Waiting
    BY <2>3, <2>4 DEF Waiting
  <2>6. t # None
    BY Parameters
  <2>7. handle[t] = n
    BY <2>1, <2>5, <2>6 DEF Tokens, CallbacksOK
  <2>8. n # None
    BY <2>4, Parameters
  <2> QED
    BY <2>7, <2>8 DEF Tokens, HandlesOK
<1> HIDE DEF told
<1> QED
  BY <1>1, <1>2 DEF Tokens, Once

(* Nobody waits at first.                                                  *)
LEMMA InitTold == Init => ToldInv
<1> SUFFICES ASSUME Init PROVE Tokens /\ Once
  BY DEF ToldInv
<1>1. TodosOK /\ LoadedOK
  <2>1. \A w \in Workers : work[w].pc = "idle" /\ work[w].todo = <<>> /\ work[w].cb = None
    BY DEF Init, Idle
  <2> QED
    BY <2>1 DEF TodosOK, LoadedOK
<1>2. HandlesOK /\ LateOK
  BY DEF Init, HandlesOK, LateOK
<1>3. CallbacksOK
  <2>1. \A n \in Nodes : q[n].cb = None
    BY DEF Init, NoNode
  <2> QED
    BY <2>1 DEF CallbacksOK, Waiting
<1>4. Once
  BY DEF Init, Once
<1> QED
  BY <1>1, <1>2, <1>3, <1>4 DEF Tokens

(* While the resolver is alive its tokens are right; after that, with a    *)
(* heap of its own, no worker is left to call anybody.                     *)
LEMMA AliveTokens ==
  ASSUME IInv, Tokens, Next, alive'
  PROVE  Tokens'
<1>1. ASSUME NEW t \in Queries, Application(t) \/ CachedDone(t) PROVE Tokens'
  <2>1. CASE CachedDone(t)
    <3>1. UNCHANGED <<q, byId, work, client>>
      BY <2>1 DEF CachedDone, table
    <3> QED
      BY <3>1, TokensStay DEF IInv
  <2> QED
    BY <1>1, <2>1, StartCachedTokens, StartChildTokens, StartRootTokens, CancelQueryTokens
       DEF Application
<1>2. ASSUME NEW k \in Keys, NEW zero \in BOOLEAN, AddEntry(k, zero) PROVE Tokens'
  <2>1. UNCHANGED <<q, byId, work, client>>
    BY <1>2 DEF AddEntry, table
  <2> QED
    BY <2>1, TokensStay DEF IInv
<1>3. ASSUME NEW S, SetNs(S) PROVE Tokens'
  <2>1. UNCHANGED <<q, byId, work, client>>
    BY <1>3 DEF SetNs, table
  <2> QED
    BY <2>1, TokensStay DEF IInv
<1>4. ASSUME NEW w \in Workers, OnTimeout(w) \/ OnRead(w) \/ LoadCb(w) \/ CallCb(w) PROVE Tokens'
  <2>1. CASE TimeoutDone(w) \/ \E zero \in BOOLEAN : ReadDone(w, zero)
    BY <2>1, RecycleTokens DEF TimeoutDone, ReadDone
  <2>2. CASE OnTimeout(w)
    BY <2>1, <2>2, TimeoutStaleTokens, RetransmitTokens, TimeOutTokens DEF OnTimeout
  <2>3. CASE OnRead(w)
    BY <2>1, <2>3, ReceiveTokens DEF OnRead
  <2> QED
    BY <1>4, <2>2, <2>3, LoadCbTokens, CallCbTokens
<1>5. ASSUME NEW w \in Workers, NEW n \in Nodes, Elapse(w, n) PROVE Tokens'
  BY <1>5, ElapseTokens
<1>6. ASSUME NEW notify \in BOOLEAN, Destroy(notify) PROVE FALSE
  BY <1>6 DEF Destroy
<1> QED
  BY <1>1, <1>2, <1>3, <1>4, <1>5, <1>6 DEF Next

(* A destroyed resolver with a heap of its own has no worker under way     *)
(* that could call anybody.                                                *)
LEMMA DeadTokens ==
  ASSUME IInv, ToldInv, Next, own_timer, ~alive
  PROVE  Once'
<1>1. \A w \in Workers : work[w].pc = "idle" /\ work[w].cb = None
  BY DEF IInv, Ended, Types, WorkTypes
<1>2. UNCHANGED <<call, cancel, late>>
  <2>1. ASSUME NEW t \in Queries, Application(t) \/ CachedDone(t) PROVE UNCHANGED <<call, cancel, late>>
    BY <2>1 DEF Application, StartCached, StartChild, StartRoot, StartMissed, CancelQuery,
                CachedDone, client
  <2>2. ASSUME NEW w \in Workers, OnTimeout(w) \/ OnRead(w) \/ LoadCb(w) \/ CallCb(w)
        PROVE  FALSE
    <3>1. ~LoadCb(w) /\ ~CallCb(w) /\ ~OnTimeout(w)
      BY <1>1 DEF LoadCb, CallCb, OnTimeout, TimeoutStale, Retransmit, TimeOut, TimeoutDone, Told
    <3>2. ~OnRead(w)
      BY <1>1 DEF OnRead, Receive, ReadDone, Told
    <3> QED
      BY <2>2, <3>1, <3>2
  <2>3. ASSUME NEW w \in Workers, NEW n \in Nodes, Elapse(w, n) PROVE FALSE
    BY <2>3 DEF Elapse
  <2> QED
    BY <2>1, <2>2, <2>3 DEF Next, AddEntry, SetNs, Destroy
<1>3. Once
  BY DEF ToldInv
<1> QED
  BY <1>2, <1>3 DEF Once

(* Every step keeps the tokens.                                            *)
LEMMA NextTold == IInv /\ ToldInv /\ [Next]_vars => ToldInv'
<1> SUFFICES ASSUME IInv, ToldInv, [Next]_vars PROVE ToldInv'
  OBVIOUS
<1>1. CASE UNCHANGED vars
  <2>1. UNCHANGED <<q, byId, work, client, alive, own_timer, call, cancel, late>>
    BY <1>1 DEF vars, table, client
  <2>2. alive => Tokens'
    BY <2>1, TokensStay DEF IInv, ToldInv
  <2>3. Once' = Once
    BY <2>1 DEF Once
  <2> QED
    BY <2>1, <2>2, <2>3 DEF ToldInv
<1>2. CASE Next
  <2>1. own_timer' = own_timer /\ (alive' = alive \/ \E notify \in BOOLEAN : Destroy(notify))
    BY <1>2, Lifetime
  <2>2. alive' => alive
    BY <2>1 DEF Destroy
  <2>3. CASE alive'
    BY <1>2, <2>2, <2>3, AliveTokens DEF ToldInv, Tokens
  <2>4. CASE ~alive' /\ alive
    <3>1. PICK notify \in BOOLEAN : Destroy(notify)
      BY <2>1, <2>4
    <3> QED
      BY <2>4, <3>1, DestroyOnce DEF ToldInv
  <2>5. CASE ~alive' /\ ~alive
    BY <1>2, <2>1, <2>5, DeadTokens DEF ToldInv
  <2> QED
    BY <2>3, <2>4, <2>5
<1> QED
  BY <1>1, <1>2

(* The callback of a query runs at most once, and not at all when the      *)
(* query was cancelled silently before a worker had loaded it: whatever    *)
(* the answers, timeouts, retransmissions and cancellations in between     *)
(* (pj_dns_resolver_start_query, on_timeout, on_read_complete), and        *)
(* however late a shared heap delivers a timeout.                          *)
THEOREM CallbacksRunOnce == Spec => []ToldOnce
<1>1. IInv /\ ToldInv => ToldOnce
  BY DEF ToldInv, Tokens, Once, ToldOnce
<1> QED
  BY InitHolds, NextHolds, InitTold, NextTold, <1>1, PTL DEF Spec
=============================================================================
