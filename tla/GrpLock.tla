------------------------------- MODULE GrpLock -------------------------------
(***************************************************************************)
(* The group lock of PJLIB (second half of lock.c): a recursive mutex, a   *)
(* reference count and a list of destroy handlers shared by the components *)
(* of a session, to which external locks can be chained so that taking the *)
(* group lock takes them all in one order.                                 *)
(*                                                                         *)
(* Threads run the functions of lock.c one lock operation or one access to *)
(* the atomic count at a time; thr[t] is where thread t is in a call.  The *)
(* clients behave as the callers in PJLIB and PJNATH do: the creator takes *)
(* the first reference, a component uses the lock only while it has a      *)
(* reference or holds it, and releases what it acquired.  The mutexes are  *)
(* those of the operating system.  pj_grp_lock_destroy and _replace, which *)
(* ignore the count and have no caller, are left out.                      *)
(***************************************************************************)
EXTENDS Integers, Sequences, FiniteSets, SequencesExt

CONSTANTS Threads, NoThread,
          ExtLocks,       \* external locks that may be chained
          Pos,            \* the position each is chained at
          Handlers,       \* destroy handlers that may be registered
          MaxRef,         \* bound: references one thread keeps
          MaxHold         \* bound: nesting of acquisitions

Own == "own_lock"
End == "end_of_list"      \* the list head, met at either end
Locks == {Own} \cup ExtLocks
Prio(l) == IF l = Own THEN 0 ELSE Pos[l]

ASSUME GrpLockAssumption ==
  /\ NoThread \notin Threads
  /\ {Own, End} \cap ExtLocks = {}
  /\ Pos \in [ExtLocks -> Int]
  /\ MaxRef \in Nat /\ MaxHold \in Nat

VARIABLES
  mutex,          \* owner and recursion count of each mutex
  lock_list,      \* the locks to take, in order
  owner, owner_cnt,
  ref_cnt,
  destroy_list,   \* registered handlers
  ran,            \* handlers destroy has called
  alive,          \* glock->pool is not NULL
  thr             \* each thread: its place in a call and what its client has
vars == <<mutex, lock_list, owner, owner_cnt, ref_cnt, destroy_list, ran, alive, thr>>

Jobs == {"use", "add_handler", "del_handler", "chain_lock", "unchain_lock"}
NoArg == "none"

Threads0 == [t \in Threads |-> [pc |-> "idle", lck |-> End, job |-> "use",
                               arg |-> NoArg, refs |-> 0, hold |-> 0, direct |-> {}]]

(* pj_grp_lock_create: the count starts at 0.                              *)
Init == /\ mutex = [l \in Locks |-> [owner |-> NoThread, count |-> 0]]
        /\ lock_list = <<Own>>
        /\ owner = NoThread /\ owner_cnt = 0
        /\ ref_cnt = 0
        /\ destroy_list = <<>> /\ ran = <<>>
        /\ alive = TRUE
        /\ thr = Threads0

-----------------------------------------------------------------------------
(* The list links.  pj_list_erase links the erased node to itself.         *)
FirstIn(list) == list[1]
LastIn(list)  == list[Len(list)]
Index(list, l) ==
  CHOOSE i \in DOMAIN list : list[i] = l /\ \A j \in 1 .. i - 1 : list[j] # l

NextIsEnd(list, l) == End                       \* fault: only the first lock
NextIn(list, l) ==
  IF l \notin ToSet(list) THEN l
  ELSE IF l = LastIn(list) THEN End ELSE list[Index(list, l) + 1]
PrevIn(list, l) ==
  IF l \notin ToSet(list) THEN l
  ELSE IF l = FirstIn(list) THEN End ELSE list[Index(list, l) - 1]

(* The search for a lock or a handler stops at the first match, which is   *)
(* erased.                                                                 *)
Erased(list, l) ==
  IF l \in ToSet(list) THEN RemoveAt(list, Index(list, l)) ELSE list

(* Insert before the first lock whose prio is not below pos.               *)
InsertedFirst(list, l) == <<l>> \o list         \* fault: the position is ignored
Inserted(list, l) ==
  LET below == {i \in DOMAIN list : \A j \in 1 .. i : Prio(list[j]) < Prio(l)}
  IN  InsertAt(list, Cardinality(below) + 1, l)

(* Recursive mutexes.  An unlock by a thread that is not the owner fails   *)
(* (EPERM) and changes nothing.                                            *)
Free(l, t) == mutex[l].owner \in {NoThread, t}
Locked(m, l, t, n) == [m EXCEPT ![l] = [owner |-> t, count |-> @.count + n]]
Unlocked(m, l, t, n) ==
  IF m[l].owner # t THEN m
  ELSE [m EXCEPT ![l] = [owner |-> IF @.count > n THEN t ELSE NoThread,
                         count |-> IF @.count > n THEN @.count - n ELSE 0]]

At(t, pc) == thr[t].pc = pc
Goto(t, pc, l) == thr' = [thr EXCEPT ![t].pc = pc, ![t].lck = l]
MayUse(t) == thr[t].refs > 0 \/ thr[t].hold > 0

-----------------------------------------------------------------------------
(* A call that takes the lock: pj_grp_lock_acquire or, for another job,    *)
(* the function that brackets its body with acquire and release.  A client *)
(* that holds an external lock takes the group lock only in lock order.    *)
Call(t, job, arg, pc) ==
  /\ At(t, "idle") /\ MayUse(t)
  /\ thr[t].hold < MaxHold
  /\ \A l \in thr[t].direct : Prio(l) < 0
  /\ thr' = [thr EXCEPT ![t].pc = pc, ![t].lck = FirstIn(lock_list),
                        ![t].job = job, ![t].arg = arg]
  /\ UNCHANGED <<mutex, lock_list, owner, owner_cnt, ref_cnt, destroy_list, ran, alive>>

Acquire(t)    == Call(t, "use", NoArg, "acquire")
TryAcquire(t) == Call(t, "use", NoArg, "tryacquire")
AddHandler(t, h) == /\ h \notin ToSet(destroy_list)
                    /\ Call(t, "add_handler", h, "acquire")
DelHandler(t, h) == Call(t, "del_handler", h, "acquire")
Chaining(t) ==
  (At(t, "acquire") \/ At(t, "add_ref") \/ At(t, "body")) /\ thr[t].job = "chain_lock"
ChainLock(t, l) ==
  /\ l \notin ToSet(lock_list) /\ \A u \in Threads : l \notin thr[u].direct
  /\ \A u \in Threads : ~(Chaining(u) /\ thr[u].arg = l)
  /\ Call(t, "chain_lock", l, "acquire")
UnchainLock(t, l) == Call(t, "unchain_lock", l, "acquire")

(* One pj_lock_acquire or successful pj_lock_tryacquire of the walk.       *)
LockNext(t) ==
  /\ At(t, "acquire") \/ At(t, "tryacquire")
  /\ thr[t].lck # End /\ Free(thr[t].lck, t)
  /\ mutex' = Locked(mutex, thr[t].lck, t, 1)
  /\ Goto(t, thr[t].pc, NextIn(lock_list, thr[t].lck))
  /\ UNCHANGED <<lock_list, owner, owner_cnt, ref_cnt, destroy_list, ran, alive>>

(* A failed pj_lock_tryacquire: give the locks taken so far back.          *)
TryFails(t) ==
  /\ At(t, "tryacquire")
  /\ thr[t].lck # End /\ ~Free(thr[t].lck, t)
  /\ Goto(t, "undo", PrevIn(lock_list, thr[t].lck))
  /\ UNCHANGED <<mutex, lock_list, owner, owner_cnt, ref_cnt, destroy_list, ran, alive>>

(* grp_lock_set_owner_thread.                                              *)
SetOwner(t) ==
  /\ At(t, "acquire") \/ At(t, "tryacquire")
  /\ thr[t].lck = End
  /\ IF owner = NoThread THEN owner' = t /\ owner_cnt' = 1
     ELSE owner_cnt' = owner_cnt + 1 /\ UNCHANGED owner
  /\ Goto(t, "add_ref", End)
  /\ UNCHANGED <<mutex, lock_list, ref_cnt, destroy_list, ran, alive>>

(* pj_grp_lock_add_ref at the end of an acquisition; then the caller's     *)
(* critical section or the body of the call.                               *)
HeldUncounted(cnt) == cnt                       \* fault: no reference taken
Held(cnt) == cnt + 1

RefHeld(t) ==
  /\ At(t, "add_ref")
  /\ ref_cnt' = Held(ref_cnt)
  /\ thr' = [thr EXCEPT ![t].hold = @ + 1,
                        ![t].pc = IF thr[t].job = "use" THEN "idle" ELSE "body"]
  /\ UNCHANGED <<mutex, lock_list, owner, owner_cnt, destroy_list, ran, alive>>

InBody(t, job) == At(t, "body") /\ thr[t].job = job /\ Goto(t, "release", End)

HandlerBody(t) ==
  /\ \/ /\ InBody(t, "add_handler")
        /\ destroy_list' = Append(destroy_list, thr[t].arg)
     \/ /\ InBody(t, "del_handler")
        /\ destroy_list' = Erased(destroy_list, thr[t].arg)
  /\ UNCHANGED <<mutex, lock_list, owner, owner_cnt, ref_cnt, ran, alive>>

(* The chained lock is taken once per nesting level, then listed.          *)
ChainBody(t) ==
  /\ InBody(t, "chain_lock")
  /\ Free(thr[t].arg, t)
  /\ mutex' = Locked(mutex, thr[t].arg, t, owner_cnt)
  /\ lock_list' = Inserted(lock_list, thr[t].arg)
  /\ UNCHANGED <<owner, owner_cnt, ref_cnt, destroy_list, ran, alive>>

UnchainBody(t) ==
  /\ InBody(t, "unchain_lock")
  /\ IF thr[t].arg \in ToSet(lock_list)
     THEN /\ lock_list' = Erased(lock_list, thr[t].arg)
          /\ mutex' = Unlocked(mutex, thr[t].arg, t, owner_cnt)
     ELSE UNCHANGED <<lock_list, mutex>>
  /\ UNCHANGED <<owner, owner_cnt, ref_cnt, destroy_list, ran, alive>>

-----------------------------------------------------------------------------
Release(t) ==
  /\ At(t, "idle") /\ thr[t].hold > 0
  /\ Goto(t, "release", End)
  /\ UNCHANGED <<mutex, lock_list, owner, owner_cnt, ref_cnt, destroy_list, ran, alive>>

(* grp_lock_unset_owner_thread.  (Fault: the owner goes at once.)          *)
OwnerAfterFirst(cnt) == NoThread
OwnerAfter(cnt) == IF cnt > 0 THEN owner ELSE NoThread

UnsetOwner(t) ==
  /\ At(t, "release")
  /\ owner_cnt' = owner_cnt - 1
  /\ owner' = OwnerAfter(owner_cnt - 1)
  /\ Goto(t, "unlock", LastIn(lock_list))
  /\ UNCHANGED <<mutex, lock_list, ref_cnt, destroy_list, ran, alive>>

(* One pj_lock_release of the walk back, in a release or after a failed    *)
(* pj_lock_tryacquire.                                                     *)
UnlockNext(t) ==
  /\ At(t, "unlock") \/ At(t, "undo")
  /\ thr[t].lck # End
  /\ mutex' = Unlocked(mutex, thr[t].lck, t, 1)
  /\ Goto(t, thr[t].pc, PrevIn(lock_list, thr[t].lck))
  /\ UNCHANGED <<lock_list, owner, owner_cnt, ref_cnt, destroy_list, ran, alive>>

TryReturns(t) ==
  /\ At(t, "undo") /\ thr[t].lck = End
  /\ Goto(t, "idle", End)
  /\ UNCHANGED <<mutex, lock_list, owner, owner_cnt, ref_cnt, destroy_list, ran, alive>>

(* grp_lock_dec_ref, at the end of a release or called by the client.      *)
IsLastEarly(cnt) == cnt <= 1                    \* fault: off by one
IsLastNever(cnt) == FALSE                       \* fault: the lock is leaked
IsLast(cnt) == cnt = 0

DecRefTo(t, has) ==
  /\ ref_cnt' = ref_cnt - 1
  /\ thr' = [thr EXCEPT ![t] = [has EXCEPT !.pc =
               IF IsLast(ref_cnt - 1) THEN "destroy" ELSE "idle"]]
  /\ UNCHANGED <<mutex, lock_list, owner, owner_cnt, destroy_list, ran, alive>>

ReleaseDecRef(t) ==
  /\ At(t, "unlock") /\ thr[t].lck = End
  /\ DecRefTo(t, [thr[t] EXCEPT !.hold = @ - 1])

DecRef(t) ==
  /\ At(t, "idle") /\ thr[t].refs > 0
  /\ DecRefTo(t, [thr[t] EXCEPT !.refs = @ - 1])

(* pj_grp_lock_add_ref, for the caller or on behalf of a component (a      *)
(* timer entry, an ioqueue key) that another thread serves.  The creator   *)
(* takes the first reference.                                              *)
AddRef(t, u) ==
  /\ alive
  /\ At(t, "idle") /\ (MayUse(t) \/ \A v \in Threads : thr[v] = Threads0[v] /\ ref_cnt = 0)
  /\ thr[u].refs < MaxRef
  /\ ref_cnt' = ref_cnt + 1
  /\ thr' = [thr EXCEPT ![u].refs = @ + 1]
  /\ UNCHANGED <<mutex, lock_list, owner, owner_cnt, destroy_list, ran, alive>>

(* grp_lock_destroy: the handlers in order, then the lock itself.          *)
DestroyHandler(t) ==
  /\ At(t, "destroy")
  /\ Len(ran) < Len(destroy_list)
  /\ ran' = Append(ran, destroy_list[Len(ran) + 1])
  /\ UNCHANGED <<mutex, lock_list, owner, owner_cnt, ref_cnt, destroy_list, alive, thr>>

DestroyEnd(t) ==
  /\ At(t, "destroy")
  /\ Len(ran) = Len(destroy_list)
  /\ alive' = FALSE
  /\ Goto(t, "idle", End)
  /\ UNCHANGED <<mutex, lock_list, owner, owner_cnt, ref_cnt, destroy_list, ran>>

(* An external lock used by itself, in lock order.                         *)
DirectLock(t, l) ==
  /\ At(t, "idle") /\ l \notin thr[t].direct /\ Free(l, t)
  /\ thr[t].refs > 0
  /\ Prio(l) < 0 => thr[t].hold = 0
  /\ mutex' = Locked(mutex, l, t, 1)
  /\ thr' = [thr EXCEPT ![t].direct = @ \cup {l}]
  /\ UNCHANGED <<lock_list, owner, owner_cnt, ref_cnt, destroy_list, ran, alive>>

DirectUnlock(t, l) ==
  /\ At(t, "idle") /\ l \in thr[t].direct
  /\ mutex' = Unlocked(mutex, l, t, 1)
  /\ thr' = [thr EXCEPT ![t].direct = @ \ {l}]
  /\ UNCHANGED <<lock_list, owner, owner_cnt, ref_cnt, destroy_list, ran, alive>>

(* Everything has been given back and the lock is gone.                    *)
Finished ==
  /\ ~alive /\ \A t \in Threads : At(t, "idle") /\ thr[t].direct = {}
  /\ UNCHANGED vars

(* What a thread does without a decision of its client.                    *)
Internal(t) ==
  \/ LockNext(t) \/ TryFails(t) \/ SetOwner(t) \/ RefHeld(t)
  \/ HandlerBody(t) \/ ChainBody(t) \/ UnchainBody(t)
  \/ UnsetOwner(t) \/ UnlockNext(t) \/ TryReturns(t) \/ ReleaseDecRef(t)
  \/ DestroyHandler(t) \/ DestroyEnd(t)

Client(t) ==
  \/ Acquire(t) \/ TryAcquire(t) \/ Release(t) \/ DecRef(t)
  \/ \E h \in Handlers : AddHandler(t, h) \/ DelHandler(t, h)
  \/ \E l \in ExtLocks : ChainLock(t, l) \/ UnchainLock(t, l)
                         \/ DirectLock(t, l) \/ DirectUnlock(t, l)
  \/ \E u \in Threads : AddRef(t, u)

Next == Finished \/ \E t \in Threads : Internal(t) \/ Client(t)

Spec == Init /\ [][Next]_vars

(* The scheduler runs every thread that can run.                           *)
FairSpec == Spec /\ \A t \in Threads : WF_vars(Internal(t))

-----------------------------------------------------------------------------
ThreadStates ==
  [pc : {"idle", "acquire", "tryacquire", "undo", "add_ref", "body", "release", "unlock",
         "destroy"},
   lck : Locks \cup {End}, job : Jobs, arg : Handlers \cup ExtLocks \cup {NoArg},
   refs : Nat, hold : Nat, direct : SUBSET ExtLocks]
Mutexes == [owner : Threads \cup {NoThread}, count : Nat]
TypeOK ==
  /\ mutex \in [Locks -> Mutexes]
  /\ lock_list \in Seq(Locks) /\ lock_list # <<>>
  /\ owner \in Threads \cup {NoThread} /\ owner_cnt \in Nat
  /\ ref_cnt \in Nat
  /\ destroy_list \in Seq(Handlers) /\ ran \in Seq(Handlers)
  /\ alive \in BOOLEAN
  /\ thr \in [Threads -> ThreadStates]

(* The count is exactly the references kept plus the acquisitions not yet  *)
(* returned, however the threads interleave.                               *)
References == UNION {{t} \X (1 .. thr[t].refs + thr[t].hold) : t \in Threads}
RefCountExact ==
  ref_cnt = Cardinality(References)

(* As an invariant of a run: the count, in states of the right types.      *)
RefsExact == TypeOK /\ RefCountExact

(* A thread inside its critical section is the recorded owner.             *)
HolderIsOwner ==
  \A t \in Threads :
    (At(t, "idle") \/ At(t, "body")) /\ thr[t].hold > 0
      => owner = t /\ owner_cnt = thr[t].hold

(* lock.h: chaining synchronises a lock with the group lock, so the owner  *)
(* of the group lock owns every lock of the list.                          *)
OwnerHoldsAll ==
  owner # NoThread => \A l \in ToSet(lock_list) : mutex[l].owner = owner

(* Both directions of ownership, while locks are taken one by one and the  *)
(* list is changed under way.                                              *)
Ownership == HolderIsOwner /\ OwnerHoldsAll

(* lock.h: locks are taken in the order of their positions, those with a   *)
(* negative one before the group lock.  So no thread waits for a lock      *)
(* while it holds a later one: what rules out a cycle of waiting threads.  *)
Wanted(t) == IF At(t, "acquire") THEN thr[t].lck
             ELSE IF At(t, "body") /\ thr[t].job = "chain_lock" THEN thr[t].arg
             ELSE End
LockOrder ==
  \A t \in Threads : Wanted(t) # End /\ ~Free(Wanted(t), t) =>
    \A l \in Locks : mutex[l].owner = t => Prio(l) <= Prio(Wanted(t))

(* The lock is destroyed only when no other thread is in a call on it,     *)
(* holds it or has a reference, and by then every mutex, chained ones and  *)
(* unchained ones included, has been given back as often as it was taken.  *)
QuietDestroy ==
  \A t \in Threads : (At(t, "destroy") \/ ~alive) =>
    /\ \A u \in Threads \ {t} : At(u, "idle")
    /\ \A u \in Threads : thr[u].refs = 0 /\ thr[u].hold = 0
    /\ \A l \in Locks : mutex[l].count =
         Cardinality({u \in Threads : mutex[l].owner = u /\ l \in thr[u].direct})

(* Once the last reference is gone the lock does get destroyed.            *)
Abandoned == /\ owner_cnt = 0 /\ thr # Threads0
             /\ \A t \in Threads : ~MayUse(t)
DestroyCompletes == Abandoned ~> ~alive
=============================================================================
