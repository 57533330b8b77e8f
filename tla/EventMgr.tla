------------------------------ MODULE EventMgr ------------------------------
(***************************************************************************)
(* The event manager (pjmedia/event.c): subscribers are told of the events *)
(* of a publisher, by the publishing thread (publish) or, for an event     *)
(* that is only posted, by the worker of the manager.                      *)
(*                                                                         *)
(* list and free are the lists of subscriptions, sub[n] the members of     *)
(* node n, a user being a callback with its user data.  A subscription     *)
(* goes to the end of the list, which is thus in the order of no, the      *)
(* number of the subscription (of the nodes of free the order is left      *)
(* out).  queue is the ring of posted events and pubq the one of the       *)
(* publication in progress.                                                *)
(* th and pub are the two distributions of event_mgr_distribute_events:    *)
(* node is the subscription being told and next the member th_next_sub or  *)
(* pub_next_sub.  The worker releases the mutex to call back, the          *)
(* publisher keeps it, so pub.by is the owner of the mutex across steps.   *)
(* While it is in a callback a thread may do whatever an application does. *)
(*                                                                         *)
(* Events are numbered in the order their queue took them.  steady and     *)
(* seen are history: the subscriptions that have been there since the      *)
(* distribution of the event began, and those of them that it has been     *)
(* told to; missed is whether one ended before it was told to them all.    *)
(***************************************************************************)
EXTENDS Naturals

CONSTANTS Apps, Worker,   \* threads of the application, the worker thread
          Nodes,          \* memory of the subscriptions
          Users, Pubs,    \* callbacks with their user data, event publishers
          MAX_EVENTS,
          MaxPublish,     \* bound: events taken
          MaxSubscribe,   \* bound: subscriptions made
          None

ASSUME EventMgrAssumption ==
  /\ MAX_EVENTS \in Nat \ {0} /\ MaxPublish \in Nat /\ MaxSubscribe \in Nat
  /\ Worker \notin Apps /\ None \notin Apps \cup {Worker} \cup Users \cup Pubs \cup Nodes
  /\ Nodes \subseteq Nat /\ None \notin [epub : Pubs, no : Nat]

VARIABLES list, free, sub, queue, pubq, sem, is_quitting, th, pub, posted, published, made, missed
counts == <<posted, published>>
vars == <<list, free, sub, queue, pubq, sem, is_quitting, th, pub, counts, made, missed>>

Threads == Apps \cup {Worker}
End == 0     \* the head of the list, which ends every walk
ASSUME EndAssumption == End \notin Nodes

-----------------------------------------------------------------------------
(* event_queue: a ring of MAX_EVENTS events, full or empty when head meets *)
(* tail.                                                                   *)
EmptyQueue == [events |-> [i \in 0..(MAX_EVENTS - 1) |-> None], head |-> 0, tail |-> 0,
               is_full |-> FALSE]
After(i) == (i + 1) % MAX_EVENTS

(* event_queue_add_event, of a queue that is not full.                     *)
Added(r, e) == [r EXCEPT !.events[r.tail] = e, !.tail = After(@),
                         !.is_full = After(r.tail) = r.head]
(* The event at the head has been distributed.                             *)
(* (Fault: the queue stays full.)                                          *)
DroppedFull(r) == [r EXCEPT !.head = After(@), !.events[r.head] = None]
Dropped(r) == [r EXCEPT !.head = After(@), !.is_full = FALSE, !.events[r.head] = None]
Length(r) == IF r.is_full THEN MAX_EVENTS ELSE (r.tail + MAX_EVENTS - r.head) % MAX_EVENTS

-----------------------------------------------------------------------------
Stopped == [at |-> "idle", by |-> None, node |-> End, next |-> End,
            steady |-> {}, seen |-> {}]

NoSub == [user |-> None, epub |-> None, no |-> 0]

Init == /\ list = {} /\ free = {} /\ sub = [n \in Nodes |-> NoSub]
        /\ queue = EmptyQueue /\ pubq = EmptyQueue
        /\ sem = 0 /\ is_quitting = FALSE
        /\ th = Stopped /\ pub = Stopped
        /\ posted = 0 /\ published = 0 /\ made = 0 /\ missed = FALSE

(* Whether thread t can have the mutex: a publisher keeps it, and has it   *)
(* again in its callbacks.                                                 *)
CanLock(t) == pub.by = None \/ (pub.by = t /\ pub.at = "told")
CanAct(t) == CanLock(t) /\ IF t = Worker THEN th.at = "told" ELSE ~is_quitting

(* The rest of the list from node n on, its first node, and the one after  *)
(* n.                                                                      *)
From(l, n) == IF n = End THEN {} ELSE {m \in l : sub[m].no >= sub[n].no}
First(l) == IF l = {} THEN End ELSE CHOOSE n \in l : \A m \in l : sub[n].no <= sub[m].no
Next1(l, n) == First(From(l, n) \ {n})

(* The walk of event_mgr_distribute_events, in state d, goes on at node n  *)
(* to the next subscription that is interested in event e, if any.         *)
Interested(n, e) == sub[n].epub \in {None, e.epub}
Walked(d, n, e) ==
  LET todo == {m \in From(list, n) : Interested(m, e)}
  IN  IF todo = {} THEN [d EXCEPT !.node = End, !.next = End]
      ELSE [d EXCEPT !.at = "telling", !.node = First(todo),
                     !.next = Next1(list, First(todo))]
Begun(by, e) == Walked([Stopped EXCEPT !.by = by, !.steady = list], First(list), e)
Done(d) == d.node = End
Misses(d, e) == Done(d) /\ \E n \in d.steady : Interested(n, e) /\ n \notin d.seen
HeadOf(r) == r.events[r.head]

-----------------------------------------------------------------------------
(* pjmedia_event_subscribe: a new subscription goes to the end of the      *)
(* list, in a node that has been freed or, if there is none, a new one.    *)
Unused == IF free # {} THEN free ELSE Nodes \ list
Subscribe(t, u, e) ==
  /\ CanAct(t) /\ made < MaxSubscribe
  /\ ~\E n \in list : sub[n].user = u /\ sub[n].epub = e
  /\ Unused # {}
  /\ LET n == CHOOSE m \in Unused : TRUE
     IN  /\ sub' = [sub EXCEPT ![n] = [user |-> u, epub |-> e, no |-> made + 1]]
         /\ list' = list \cup {n} /\ free' = free \ {n}
  /\ made' = made + 1
  /\ UNCHANGED <<queue, pubq, sem, is_quitting, th, pub, counts, missed>>

(* pjmedia_event_unsubscribe; None stands for any user or any publisher.   *)
(* A walk that would go on at a removed node goes on behind it.  What a    *)
(* removed node held is forgotten here, nobody reads it.                   *)
Matches(n, u, e) == u \in {None, sub[n].user} /\ e \in {None, sub[n].epub}
Keep(d, gone) ==
  [d EXCEPT !.next = First(From(list, @) \ gone),
            !.steady = @ \ gone, !.seen = @ \ gone]
(* (Fault: only the walk of the worker is kept valid.)                     *)
KeptPubStale(gone) == /\ th' = Keep(th, gone)
                      /\ pub' = [pub EXCEPT !.steady = @ \ gone, !.seen = @ \ gone]
Kept(gone) == th' = Keep(th, gone) /\ pub' = Keep(pub, gone)

Unsubscribe(t, u, e) ==
  LET gone == {n \in list : Matches(n, u, e)}
  IN  /\ CanAct(t) /\ gone # {}
      /\ list' = list \ gone /\ free' = free \cup gone
      /\ Kept(gone)
      /\ sub' = [n \in Nodes |-> IF n \in gone THEN NoSub ELSE sub[n]]
      /\ UNCHANGED <<queue, pubq, sem, is_quitting, counts, made, missed>>

-----------------------------------------------------------------------------
(* pjmedia_event_publish with PJMEDIA_EVENT_PUBLISH_POST_EVENT.  An event  *)
(* for a full queue is lost, here and below: nothing changes.              *)
Event(p, count) == [epub |-> p, no |-> count + 1]
MayTake == posted + published < MaxPublish
(* (Fault: the worker is woken only for the first event of the queue.)     *)
PostedFirst == IF Length(queue) = 0 THEN sem + 1 ELSE sem
Posted == sem + 1
Post(t, p) ==
  /\ CanAct(t) /\ MayTake
  /\ ~queue.is_full
  /\ queue' = Added(queue, Event(p, posted))
  /\ sem' = Posted
  /\ posted' = posted + 1
  /\ UNCHANGED <<list, free, sub, pubq, is_quitting, th, pub, published, made, missed>>

(* Without it: the first publication distributes its event and those of    *)
(* the publications nested in its callbacks, which only queue theirs.      *)
Publish(t, p) ==
  /\ pub.by = None /\ CanAct(t) /\ MayTake
  /\ pub' = [Stopped EXCEPT !.by = t, !.at = "between"]
  /\ pubq' = Added(EmptyQueue, Event(p, published))
  /\ published' = published + 1
  /\ UNCHANGED <<list, free, sub, queue, sem, is_quitting, th, posted, made, missed>>

PublishNested(t, p) ==
  /\ pub.by = t /\ CanAct(t) /\ MayTake
  /\ ~pubq.is_full
  /\ pubq' = Added(pubq, Event(p, published))
  /\ published' = published + 1
  /\ UNCHANGED <<list, free, sub, queue, sem, is_quitting, th, pub, posted, made, missed>>

(* The callback of the subscription is called.  The worker calls it with   *)
(* the mutex released, with what it has read before.                       *)
Tell(d) == [d EXCEPT !.at = "told", !.seen = IF d.node \in d.steady THEN @ \cup {d.node} ELSE @]
TellPub == /\ pub.at = "telling"
           /\ pub' = Tell(pub)
           /\ UNCHANGED <<list, free, sub, queue, pubq, sem, is_quitting, th, counts, made, missed>>
TellTh == /\ th.at = "telling"
          /\ th' = Tell(th)
          /\ UNCHANGED <<list, free, sub, queue, pubq, sem, is_quitting, pub, counts, made, missed>>

(* The next event of the publication, and the return of a callback.        *)
Proceed(d) ==
  LET q == Dropped(pubq)
  IN  /\ missed' = (missed \/ Misses(d, HeadOf(pubq)))
      /\ IF ~Done(d) THEN pub' = d /\ UNCHANGED pubq
         ELSE IF Length(q) = 0 THEN pub' = Stopped /\ pubq' = EmptyQueue
         ELSE pub' = [Stopped EXCEPT !.by = pub.by, !.at = "between"] /\ pubq' = q
NextPub == /\ pub.at = "between"
           /\ Proceed(Begun(pub.by, HeadOf(pubq)))
           /\ UNCHANGED <<list, free, sub, queue, sem, is_quitting, th, counts, made>>
ReturnPub == /\ pub.at = "told"
             /\ Proceed(Walked(pub, pub.next, HeadOf(pubq)))
             /\ UNCHANGED <<list, free, sub, queue, sem, is_quitting, th, counts, made>>

-----------------------------------------------------------------------------
(* event_worker_thread.                                                    *)
Wake == /\ th.at = "idle" /\ sem > 0
        /\ sem' = sem - 1
        /\ th' = IF is_quitting THEN [th EXCEPT !.at = "ended"] ELSE [th EXCEPT !.at = "woken"]
        /\ UNCHANGED <<list, free, sub, queue, pubq, is_quitting, pub, counts, made, missed>>

Distribute(d) == /\ missed' = (missed \/ Misses(d, HeadOf(queue)))
                 /\ IF Done(d) THEN th' = Stopped /\ queue' = Dropped(queue)
                               ELSE th' = d /\ UNCHANGED queue
BeginTh == /\ th.at = "woken" /\ CanLock(Worker)
           /\ Distribute(Begun(None, HeadOf(queue)))
           /\ UNCHANGED <<list, free, sub, pubq, sem, is_quitting, pub, counts, made>>

ReturnTh == /\ th.at = "told" /\ pub.by = None
            /\ Distribute(Walked(th, th.next, HeadOf(queue)))
            /\ UNCHANGED <<list, free, sub, pubq, sem, is_quitting, pub, counts, made>>

(* pjmedia_event_mgr_destroy, by an application that is not in a callback  *)
(* of the manager and no longer uses it, up to the end of the worker.      *)
Destroy(t) == /\ t \in Apps /\ pub.by = None /\ ~is_quitting
              /\ is_quitting' = TRUE /\ sem' = sem + 1
              /\ UNCHANGED <<list, free, sub, queue, pubq, th, pub, counts, made, missed>>

Client(t) == \/ \E u \in Users, e \in Pubs \cup {None} : Subscribe(t, u, e)
             \/ \E u \in Users \cup {None}, e \in Pubs \cup {None} : Unsubscribe(t, u, e)
             \/ \E p \in Pubs : Post(t, p) \/ Publish(t, p) \/ PublishNested(t, p)
WorkerStep == Wake \/ BeginTh \/ TellTh \/ ReturnTh
PubStep == NextPub \/ TellPub \/ ReturnPub
Next == \/ \E t \in Threads : Client(t) \/ Destroy(t)
        \/ WorkerStep \/ PubStep

Spec == Init /\ [][Next]_vars

(* Callbacks return, and a thread that waits for the mutex gets it.        *)
Fairness == WF_vars(PubStep) /\ SF_vars(WorkerStep)
FairSpec == Spec /\ Fairness

-----------------------------------------------------------------------------
(* A walk stands in the list, and each subscription that was there when it *)
(* began and still is has been told of the event, is about to be or is     *)
(* ahead, and only one of these, whatever the callbacks and the other      *)
(* threads have subscribed and unsubscribed meanwhile.                     *)
Walking(d) == d.at \in {"telling", "told"}
Sound(d, e) ==
  Walking(d) =>
    /\ d.next \in list \cup {End}
    /\ \A n \in d.steady :
         Interested(n, e) =>
           LET ahead == n \in From(list, d.next)
               now   == d.at = "telling" /\ n = d.node
           IN  /\ n \in list
               /\ n \in d.seen \/ now \/ ahead
               /\ ~(n \in d.seen /\ (now \/ ahead)) /\ ~(now /\ ahead)
NobodyMissed == ~missed /\ Sound(th, HeadOf(queue)) /\ Sound(pub, HeadOf(pubq))

(* A queue holds the events it took, in the order it took them: the ring   *)
(* loses and repeats none at the seam, nor when it has been full, nor when *)
(* a callback publishes while the first event is being told.               *)
At(r, i) == r.events[(r.head + i) % MAX_EVENTS]
Holds(r, last) == \A i \in 0..(Length(r) - 1) :
                    At(r, i) # None /\ At(r, i).no = last - Length(r) + 1 + i
QueuesOrdered == /\ Holds(queue, posted)
                 /\ pub.by # None => Length(pubq) > 0 /\ Holds(pubq, published)

(* Until the manager quits, the semaphore counts the posted events that    *)
(* the worker has not been woken for.                                      *)
WakeupsMatch ==
  ~is_quitting =>
    Length(queue) = sem + IF th.at \in {"woken", "telling", "told"} THEN 1 ELSE 0

(* The ring and the semaphore together: the worker is woken once for each  *)
(* event of the ring, and finds it at the head.                            *)
QueuesSound == QueuesOrdered /\ WakeupsMatch

(* The posted events are told, the ones that callbacks post as well, until *)
(* the manager quits: then its worker ends, and destroy returns.           *)
PostedAreTold == []<>(IF is_quitting THEN th.at = "ended" ELSE Length(queue) = 0)
=============================================================================
