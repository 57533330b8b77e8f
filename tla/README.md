# A TLA+ model of the media stack of MediaDemo

MediaDemo is an Android demo around the media half of PJSIP. Its own core is C, under
`src/app/src/main/cpp`: `pjlib` (operating system layer, locks, timers, I/O queue, containers),
`pjlib-util` (DNS, STUN and text helpers) and `pjmedia` (streams, jitter buffer, SDP negotiation,
conference, clocks), glued to Java by `native-lib.cpp`. `third_party` is vendored codec and signal
processing code; `pjnath` (STUN, TURN, ICE) lies beside it but is not in the CMake build.

This directory holds a specification of the parts of that code whose difficulty is in their logic:
concurrency, circular arrays, wrapping numbers, reference counts. All paths and lines below are
relative to `src/app/src/main/cpp`.

## Inventory

| Component | State | Operations | Interacts with | What is hard |
|---|---|---|---|---|
| Jitter buffer, `pjmedia/src/pjmedia/jbuf.c` | circular frame list (`head`, `size`, `origin`, `discarded_num`), burst and effective level, prefetch count, discard plan | put, get, peek, remove, reset, configuration | the RTP receiver puts, the playback clock gets, both under the `jb_mutex` of `stream.c` / `vid_stream.c` | wrap of the array and of the numbering; unsigned counters; late, duplicated and far frames; a discard plan kept over several calls |
| Group lock, `pjlib/src/pj/lock.c` | ordered list of locks, owner and nesting count, atomic reference count, destroy handlers | acquire, try, release, add/del handler, add/dec reference, chain, unchain | every session of `pjnath`, `resolver.c`, `ssl_sock_ossl.c`, timers, ioqueue keys | locks taken one by one while another thread changes the list; the last reference |
| Timer heap, `pjlib/src/pj/timer.c` | binary heap, id array that is also the list of free ids | schedule, cancel, poll with callbacks, growth | any thread schedules and cancels; the polling thread calls back with the heap unlocked; group lock references per entry | the time between removal and the end of a callback; ids reused; the unlocked test in schedule |
| I/O queue, `pjlib/src/pj/ioqueue_select.c`, `ioqueue_common_abs.c` | keys with pending operations, active / closing / free lists, fd sets, reference count per key | register, unregister, recv, send, accept, connect, poll | worker threads poll, any thread starts operations; callbacks; group locks | events collected under the lock and dispatched without it; keys recycled |
| Active socket, `activesock.c` | loops of asynchronous operations on one key | start, send, close | ioqueue | early completion, closing in a callback |
| SDP negotiator, `pjmedia/src/pjmedia/sdp_neg.c` | state, active / local / remote / negotiated descriptions | create and modify offers, set answers, negotiate, cancel | the call's media setup | which operation is legal when; what a failure leaves behind |
| Event manager, `event.c` | subscriptions, bounded queue of posted events | subscribe, unsubscribe, publish | video ports and streams, a worker thread | a subscription changed by the callback it triggers |
| Clock, `clock_thread.c`; delay buffer, `delaybuf.c` | next tick; adaptive level | start, stop, wait; put, get | conference, sound ports | missed ticks, drift |
| Streams, `stream.c`, `vid_stream.c`, `rtp.c`, `rtcp.c` | sequence tracking, jitter buffer, codec | receive, play, send reports | transports, jitter buffer | the locks around the jitter buffer (assumed here) |
| Conference bridge, `conference.c`, `conf_switch.c` | ports and connections | add, connect, remove, mix | sound device thread, application | a port removed while it is mixed |
| Media transports, `transport_*.c` | attached user, keys | attach, detach, send | ioqueue | detach during a callback |
| DNS resolver, `pjlib-util/.../resolver.c` | pending queries, cache, name servers | query, cancel, poll, timeout | timer heap, ioqueue, group lock | retransmission against a late answer |
| Pools and containers, OS layer, parsers, codecs, devices, vendored code, the demo's entry points | | | | not modelled, see the end |

## Modules

| Module | Models |
|---|---|
| `JbufFrameList` | the frame list: every `jb_framelist_*` function as an operator on a record |
| `JitterBuffer` | the jitter buffer: one action for each call of `pjmedia_jbuf_*` that changes it |
| `JbufQueue` | abstract specification: a bounded queue of numbered places that may give up one place per call |
| `JitterBufferProofs` | proofs: the frame list's operators; types and levels; what the window holds; that `JitterBuffer` implements `JbufQueue`; the loop that removes frames |
| `GrpLock`, `MCGrpLock` | the group lock, one lock operation or access to the count per action |
| `GrpLockProofs` | proofs about the group lock |
| `TimerHeap`, `MCTimerHeap` | the timer heap, its threads and its callbacks; TLC instances and the check of the heap operations |
| `TimerQueue` | abstract specification: a set of armed timers, the earliest due one taken first |
| `TimerHeapProofs` | proofs: `reheap_up`, `reheap_down`, `remove_node`, `insert_node`; ids, free list and references; that `TimerHeap` implements `TimerQueue` |
| `Ioqueue`, `MCIoqueue` | the I/O queue with its select() back end, polling threads and calling threads, the sockets as environment; TLC instances |
| `IoqueueProofs` | proofs about reference counts, locks and callbacks of the I/O queue |
| `ActiveSock` | the active socket: reads, sends and close over what it sees of the I/O queue |
| `ActiveSockProofs` | proofs about the active socket |
| `SdpDescr` | session descriptions, and the functions of `sdp_neg.c` that compute one from others, as operators |
| `SdpNeg`, `MCSdpNeg` | two negotiators and the messages between them; TLC instances |
| `SdpNegProofs` | proofs about their types, exchanges and versions |
| `Resolver` | the DNS resolver: pending queries, timeouts, answers, callbacks and cache |
| `ResolverProofs` | proofs about the DNS resolver |
| `EventMgr` | the event manager: subscriptions, both distributions, both queues, the worker |
| `EventMgrProofs` | proofs about its queues and its walks over the subscriptions |

### Jitter buffer

`fl` is `jb_framelist_t` and `jb` is `struct pjmedia_jbuf` without the `jb_` prefixes. A call is one
action because the streams make every call that touches the list while they hold `jb_mutex`
(`stream.c:546-798`, `1910-2051`, `vid_stream.c:787-841`, `1544-1570`). `out` is what the last call
returned. Each action is the whole call: `Put` is the stored frame, the second attempt after
`MakeRoom`, the levels, and `jbuf_update` with the adaptation and the discard algorithm. The
function pointer `jb_discard_algo` is the string `jb.algo`.

A slot's content is the sequence number of its packet, or `NoFrame` where `content_len` is 0. Frame
bytes, `bit_info`, `ts`, and the statistics (`jb_delay`, `jb_burst`, `jb_lost`, `jb_discard`,
`jb_empty`), which nothing in the buffer reads back, are left out. The comparison of `origin + size`
as an unsigned number is kept (`AtWrap`), since `origin` starts at the negative `INVALID_OFFSET`.
The four skipping and removing loops are written by their results (`LeadingDiscarded`, `Oldest`,
`SlotsHolding`); the one that corrects an unsigned count as it goes, in `pjmedia_jbuf_remove_frame`,
is also followed round by round (`RemoveByRounds`) and compared with the result in `RemovalSound`.

The refinement mapping stands at the end of `JitterBuffer` (`Queue`, `ImplementsQueue`): the queue's
places are the slots from the head on (`Queued`), its first number is `origin`.

The assumption `JitterBufferAssumption` has frame times up to `PJMEDIA_JBUF_DISC_MIN_GAP` (200 ms):
with a longer one `min_shrink_gap` would be 0.

### Group lock

`thr[t]` is the place of thread `t` in a call of `lock.c`. The walk over the lock list is one action
per lock, because the other threads run in between; the count is atomic, so `add_ref` and `dec_ref`
are one action each. Once all locks are held, the owner is recorded (`SetOwner`), then the reference
added (`RefHeld`); a release undoes both in the order of the code: owner, locks, reference. Calls
that bracket a body with acquire and release (`add_handler`, `del_handler`, `chain_lock`,
`unchain_lock`) go through the same actions with a `job`.

Clients are external and behave as the callers do: the creator takes the first reference at once
(`lock.c:434` creates the count with 0, while `lock.h:174` says it is 1 at first; every caller adds
its own), a component uses the lock only while it has a reference or holds it, releases what it
acquired, and an external lock is chained while nobody is using it otherwise. A client that uses a
chained lock directly respects the order of the locks, or the properties would say nothing about
`lock.c`. `grp_lock_destroy` releases the chained locks `owner_cnt` times; the count is 0 there, and
the releases are left out. `pj_grp_lock_destroy` and `pj_grp_lock_replace` ignore references and have
no caller here; they are left out, as are the debug counters.

### Timer heap

`ht` is `pj_timer_heap_t`, `entry[e]` the private fields of an entry, `refs` the count of the group
lock the entries are scheduled with. The heap's lock makes its critical sections atomic; what the
code does outside them is a step of its own: the test of `_timer_id` and the clock in
`schedule_w_grp_lock` (`Schedule`, then `Insert`), and the callback in a poll (`Take`,
`CallbackReturns`, `PollNext`), during which the id stays out of the free list. A callback may call
`Schedule` and `Cancel` in turn. Times are relative to the present, so that states repeat; `Tick`
ages them. Reading past the end of `timer_ids` gives any value of `Beyond`. `Serialised` says
whether clients put a lock of their own around the calls for one entry.

As in the code, an entry found running is refused by `Schedule`, and a callback may schedule its own
entry again, which then gets another id.

### I/O queue

`ioqueue_select.c` includes `ioqueue_common_abs.c`, and is the back end the CMake build takes. The
variables are those of `pj_ioqueue_t` and of its keys: the three lists of keys, `count`, the
descriptor sets (`fdset`, by event), per key `fd`, `closing`, `ref_count`, `connecting`, `grp_lock`,
whether the callbacks are set (`cb`), and the lists of pending operations (`list`); `op` holds the
mark and the progress of each `pj_ioqueue_op_key_t`. `lock` is the owner of each key lock or group
lock (both recursive), `refs` what the queue has added to a group lock's count.

`poll[t]` is the place of thread `t` in `pj_ioqueue_poll`: copying the sets (`PollStart`), select()
(`Select`), collecting at most `PJ_IOQUEUE_MAX_CAND_EVENTS` events with their references (`Collect`),
then for each event the dispatch functions (`Skip`, `ServeConnect`, `ServeRead`, `ServeWrite` with
`Transfer`), the callback (`Deliver`, `CallbackReturns`), the reference of the key (`Release`) and
that of its group lock (`Deref`). `api[t]` is the place in a call made by a client or by a callback;
the tests before a key's lock is taken, the part under the lock and, in `pj_ioqueue_unregister`, the
parts before and after the reference is dropped are steps of their own. With the configured
constants the bound on processed events in one poll never binds, as no more are collected.

Abstractions. A section under `ioqueue->lock` is one step, since it is the innermost lock. A stretch
under a key's lock that no other thread can observe is one step; a write is two, because a datagram
leaves its list before it is sent. Data is counted in units: one per read or accept, `OpSize` per
stream write. The environment moves data and room, ends connects well or badly, and opens a closed
descriptor's number again, so that descriptors are reused while polls are under way. An operation left
marked by a closed key is cleared by `pj_ioqueue_op_key_init`, as users do.

Assumptions, each of which the code makes too. `PJ_IOQUEUE_KEY_FREE_DELAY` (500 ms) outlasts a call
in progress (`StillUsed`): after the last reference is dropped `pj_ioqueue_poll` still reads the key's
group lock, and nothing but the delay protects it. Callers keep a key from being unregistered
before a call has tested `closing`; every later interleaving with unregister is in the model. With
concurrency enabled the test of the callback pointer and the call are one step: `ioqueue.h:133-165`
makes the application exclude unregistration there. Callbacks of `pj_ioqueue_post_completion` make no
calls. Clients send on a connecting socket only if `SendsEarly`; the passing runs have it `FALSE`,
and `NoLostWakeup` would fail without it, since the end of a connect clears the bit a queued write needs.

### Active socket

`asock` is `pj_activesock_t`, `rd` its read operation, `op` the keys of the sends, and `peer` what
the other end has sent, in units numbered from 1. `PollRead`, `ReadCbTrue`, `ReadCbFalse` and
`ReadNext` are `ioqueue_on_read_complete`: the first event, the callback, then the loop that reads again
until `recv()` has nothing or `max_loop` forces the operation into the queue (`ForcedAsync`).
`WriteComplete` is `ioqueue_on_write_complete`, which sends what is left of a block that
`SetSendData` has recorded (`Linked`); its branch for a completion with less than the rest of the
block (`:733-746`) is left out, since this I/O queue completes an operation only when it fails or is
written whole (`ioqueue_common_abs.c:326-329`), as `SentWhole` checks. `closed` is history, the
threads a close has returned to, and `api[t]` the place of a thread in `pj_activesock_send` or
`pj_activesock_close`. A callback may
call both.

What the socket sees of `Ioqueue` is `key`: its list of pending operations, its lock and
whether it is registered. The default options are modelled: with `whole_data`, `pj_activesock_create`
turns the concurrency of the key off, so that a worker holds the key's lock while it calls back. That
lock is what `ClosedQuiet` rests on: unregistration waits for it, so that after a close has returned to
anybody no callback begins and the only ones still running are of workers that have closed the socket
themselves or stand in its unregistration. Assumed of callers: one block under way at a time
(`send_data` is one structure per socket, `activesock.c:673`), and callbacks that leave room in the
buffer (`MaxKeep < MaxSize`): after a full one `recv()` is asked for zero bytes, which `:498` takes
for the end of the connection.

### SDP negotiator

`SdpDescr` has what `sdp_neg.c` computes: `NewOffer` and `PaddedTo` the lines of a modified offer,
`match_offer` and `create_answer` the answer (preference, one codec or several, the payload types of the
offer in `SymmetricPt`), `process_answer` what the offerer makes of an answer, and
`update_media_direction` what both do to directions. A media line is its type, whether its port is 0, its direction (a set of "send" and "recv") and its
formats in order, a format its payload type, encoding and parameter. `SdpNeg` has `neg[a]`, the
`struct pjmedia_sdp_neg` of each end, and one action per function of the negotiator, with its
`initial_sdp_tmp` for the negotiation that fails.

The network is external: a set of messages, delivered in any order, none lost; an offer that
meets a negotiator in another state is rejected, as a user agent does with 491 (glare), and an
offerer cancels on a rejection. Since the uses of the negotiator in `pjsua_media.c` are commented out,
the order of calls is that of the contract in `sdp_neg.h`. Left out: `allow_asym` (0 for
every negotiator, nothing sets it), several transports, connection lines, static payload types, formats that are
not numbers, and callbacks that customise the matching of formats.

### DNS resolver

`q[n]` is a query node; `byId` and `byRes` are the hash tables of the pending ones, `free` the
recycled nodes, `timers` the nodes whose timer runs, `cache` and `ref` the cached answers with their
counts. `StartCached`, `StartChild` and `StartRoot` are the ways through `pj_dns_resolver_start_query`,
`CancelQuery`, `Destroy` and `SetNs` the calls of their names, `OnTimeout` and `OnRead` the callbacks of
the timer and of the socket; each stretch under the group lock is a step. The callbacks of the application run without the lock, and there
the worker loads the callback in one step (`LoadCb`) and calls it in the next (`CallCb`), down the list of
children. With its own timer heap the resolver polls it under the group lock, which the poller
keeps through the callbacks (`held`); the application's heap is polled without it. `Init` chooses one of both.

`net` keeps every request ever sent, and an answer to any of them may come at any time, again, late or never.
Expiry is a choice wherever the code compares with the clock. Left out:
the choice among active name servers by their delay, the IPv6 socket, entries that never
expire, the settings. Transaction ids do not wrap (`MaxId`). A recycled node is zeroed
when it is recycled rather than when it is given out again. `Intact` is a bound: a run ends where a
node is given out while its timer entry is in the heap, which a shared heap alone can bring about
(after a timeout taken for that of another query, `resolver.c:1579`), since `alloc_qnode` then zeroes an entry that the heap
still refers to. The assertion of `:1757` is not a guard of the model (see the limits below). The application gives up its handle when its callback
runs; one that is cancelled between the load and the call is still called (`late`). `Destroy` takes
place when nothing is under way.

### Event manager

`sub` and `list` are the subscriptions, `queue` the ring of posted events, `pubq` that of events
published while one is being told. `th` and `pub` are the two distributions, each with its place in
the list (`th_next_sub`, `pub_next_sub`), which `Unsubscribe` moves on where it removes that place. The
publisher keeps the mutex during callbacks, the worker releases it. A callback subscribes,
unsubscribes, publishes and posts; an event for a full queue is lost, as in the code. Freed
subscriptions go to the free list and are used again.

## Runs

| Run | Question | Bounds |
|---|---|---|
| `JbProgressive` | frame list invariants, removal after peeking, and refinement of `JbufQueue`, under the default algorithm | capacity 3; numbers 0..4 with the wrap at 4; misorder 2, dropout 3; frame times of one and two frames per gap; levels below 2 |
| `JbStatic` | making room, levels, read position, loss, with the static algorithm, fixed and adaptive prefetch | capacity 3; numbers 0..4; prefetch 1 |
| `GrpLockRun` | count, ownership, lock order, destruction, and that destruction happens | 2 threads, one external lock chained behind the group lock, 2 handlers, nesting 2, 1 reference kept per thread |
| `TimerConc` | ids, free list, references under 2 threads; the heap operations on every ordered heap of six entries | 2 timers, 2 delays, 2 entries per poll |
| `TimerLive` | growth, refinement of `TimerQueue`, no timer forgotten | 1 thread, 2 timers, 3 delays, 1 entry per poll |
| `IoqRecv` | references, lists, sets, exclusion of callbacks, with concurrency disabled | 2 pollers, 1 client; 2 keys, both with one group lock, 1 datagram descriptor, 2 operations, 2 events per poll |
| `IoqStream` | wakeups, order of bytes, nothing stalls, with concurrency enabled | 1 poller, 1 client; 1 key, 1 descriptor of any type, 2 operations of 2 units, room for 1 |
| `ActRun` | what reads deliver, whole blocks, quiet after close, the bounded loop | 2 workers, 1 client; 1 block of 3 units, room for 1; a buffer of 2 units of which 1 may be left; 3 units to read; `max_loop` 2 |
| `SdpRun` | agreement, fitting answers, versions and sessions, lines | 2 ends that number two codecs the other way round, audio and video in both orders, a line the other does not know, a description that cannot be answered; versions up to 4 |
| `DnsRun` | nodes and tables, callbacks once, cache, timeouts of the own heap, everybody answered | 2 queries for one name, 1 server, 2 transmissions, 2 workers, on a heap of its own or a shared one, 2 ids |
| `DnsOrphan` | finding, below | the same |
| `EventRun` | nobody missed or told twice, queues at their limit, posted events told | the application, the worker; 2 subscribers, 3 subscriptions at once and in all, 3 events, queues of 2 |

Why the bounds are enough. A buffer of three slots has a head that goes around, a gap, a frame
behind a discarded one and a full window; numbers 0..4 with `MAX_FRAME_INDEX` 4 include late,
duplicate, misordered, far and wrapped frames, each at every fill. `level` only grows between two
changes of direction, so `MaxLevel` ends a run of puts or gets that a real stream ends too. Two
threads suffice for every race in `lock.c`, whose steps treat all other threads alike; nesting 2
distinguishes the first acquisition and the last release. The smallest heap in which the entry that
fills a hole has to move up has six entries; random histories would reach few of them, so
`HeapOpsCorrect` takes all choices of six (and a seventh inserted) times out of four values.

The free ids of the timer heap stay inside the array only while the scheduled timers and the ids
held by callbacks together leave room (`timer.c:309` does not count the latter); the two instances
have timers + threads that fit, and clients that serialise their calls for one entry (`Serialised`):
two threads that schedule one entry at once both pass the test made before the heap is locked
(`timer.c:505`). The lock of `GrpLockRun` is chained behind the group lock: `chain_lock` itself takes
one that belongs in front out of order (`lock.c:665`), and a thread already waiting for the group's
own lock then becomes owner without it (`lock.c:290`); nothing in the repository chains one so.

One descriptor that is closed and opened again meets every race between a poll that has seen the old
socket and calls on the new one; the second key is then recycled under the first one's events. Two
pollers see the same event, which is what makes reference counts and exclusion hard; a stream that takes
half of an operation separates the first part of a write from the rest. `IoqStream` has one poller
and one sender because with two the order of bytes does not hold (see the limits below).

A block of three units over room for one is sent in a first part, a completion that resends and a
last one; a buffer of two units with one left over separates the loop's append from its first read.
Two loops are the least in which `max_loop` is neither the first nor unbounded. In `SdpRun` each
description offers both types, and the ends disagree about order, numbers and directions at once;
four versions are a first session, a change, one that is rejected or crosses, and its successor. Offers
are rejected there by the negotiation, too: one description of B has no codec of A's. No answer
is refused by its receiver (see `NoFailure` and the limits below). Two queries for
one name are a parent and its child, or a query and the one that gets its recycled node or its
cached answer; two transmissions are a first and a last one; three entries are what two callbacks
and the cache hold at most. A queue of two events with three published goes around and is full; with
three subscriptions one can end before, at and behind the place of a distribution.

Fairness. `GrpLock!FairSpec` has weak fairness of each thread's own steps: the operating system runs
a runnable thread; no client decision is fair. `TimerHeap!FairSpec` has time pass, and threads come
back to poll, as the worker threads of the stack do in their loops; strong fairness, because
cancels and further schedules disable a poll again and again. A callback does finitely much before
it returns. `Ioqueue!FairSpec` has weak fairness of polling and of calls once begun: workers loop over
`pj_ioqueue_poll`, the operating system runs them, and no lock is held for ever; the network and the
clients are not fair. `ActiveSock!FairSpec` has a worker go on with what it does, strongly
for the return of a callback, which other threads may be inside of a call with; nothing is assumed of the peer, so that
`WorkersReturn` holds with one that sends for ever. `Resolver!FairSpec` has timers elapse and
workers go on, as their poll loops do, and assumes nothing of the network. `EventMgr!FairSpec` has the publisher go
on, and strong fairness of the worker, whose mutex other threads take and give back again and again;
a mutex of the operating system does not starve a waiting thread for ever. `DestroyCompletes`, `NoTimerForgotten`,
`NoStall`, `WorkersReturn`, `AnsweredUnlessOrphaned` and `PostedAreTold` are checked under these only.

## What is proved

Every theorem is about `Spec` of the component's module and holds for all values of its constants that
satisfy the module's assumption; hypotheses beyond that are named here.

| Theorem | Module | States |
|---|---|---|
| `TypeCorrect`, `LevelsAreBounded`, `RoomAlwaysMade` | `JitterBufferProofs` | `TypeOK`, `LevelsBounded`, `RoomIsMade` |
| `WindowIsSound`, `DiscardsAreSound` | `JitterBufferProofs` | `WindowSound`; `DiscardsSound` if `STATIC \notin Algos` |
| `NothingIsReplayed`, `NothingIsLost` | `JitterBufferProofs` | the action properties `NoReplay`, `NoSilentLoss` |
| `QueueImplemented` | `JitterBufferProofs` | `ImplementsQueue`: the refinement of `JbufQueue` |
| `RemovalIsSound` | `JitterBufferProofs` | `RemovalSound` if `STATIC \notin Algos` |
| `RefsAreExact`, `HoldersAreOwners` | `GrpLockProofs` | `RefsExact`; the first part of `Ownership` |
| `OwnershipHolds`, `DestroyIsQuiet` | `GrpLockProofs` | `Ownership`, `QuietDestroy`, with every external lock behind the group lock |
| `LockOrderHolds` | `GrpLockProofs` | `LockOrder`, with every external lock at one position behind it |
| `RemoveStocked`, `InsertStocked` | `TimerHeapProofs` | what `remove_node` and `insert_node` make of any sound heap and its free list |
| `TimersAreSound`, `GroupRefsAreExact` | `TimerHeapProofs` | `IdsSound`, `GroupRefsExact`, if `Serialised` and `[]Room` |
| `TimerQueueImplemented` | `TimerHeapProofs` | `ImplementsQueue`: the refinement of `TimerQueue`, if `Serialised` and `[]Room` |
| `TimersThatFit` | `TimerHeapProofs` | all three without `Room`, if entries and threads are at most `Size + 1` |
| `ReadsAreSound`, `BlocksAreWhole`, `ClosedIsQuiet` | `ActiveSockProofs` | `ReadSound`, `SentWhole`, the action property `ClosedQuiet` |
| `UnregisterSafe`, `CallbacksOneAtATime` | `IoqueueProofs` | `UnregisterSound`, `CallbacksExclusive` |
| `TypeCorrect` | `SdpNegProofs` | `TypeOK` of `SdpNeg` |
| `SessionCorrect` | `SdpNegProofs` | `SessionSound`, if no negotiation of an answer fails (`NoFailure`) |
| `RingsAndWakeups`, `EverySubscriberTold` | `EventMgrProofs` | `QueuesSound`, `NobodyMissed` |
| `CallbacksRunOnce`, `CacheIsSound` | `ResolverProofs` | `ToldOnce`, `CacheSound` |
| `NodesAreSound`, `OwnTimeoutsAreOwn` | `ResolverProofs` | `NodesSound`; `TimeoutIsOwn`, which is about a timer heap of the resolver's own |

Each proof has an inductive invariant, which TLC checked on the component's run before; the lemmas that
a step preserves it come one to an action, and under each one step to a conjunct.

**Jitter buffer.** `IInv == TypeOK /\ LevelsIn(jb) /\ RoomIsMade`. `LevelsBounded` alone is not inductive:
`jbuf_calculate_jitter` may raise the prefetch count to `min_prefetch`, so the proof needs
`min_prefetch <= max_prefetch`, which `pjmedia_jbuf_set_fixed` and `_set_adaptive` establish. `RoomIsMade`
rests on a lemma about one round of `MakeRoom`: either the whole window went, and the numbering restarts
at the frame, or the frame's distance is now below the capacity.

`WInv == IInv /\ Sound(fl) /\ PlanOK(fl, jb)` adds what the window needs. `WindowSound` is not inductive
because a slot marked as missing must also be empty (`Emptied`), and `DiscardsSound` because no slot
beyond the plan of the progressive algorithm may be discarded (`PlanOK`). The hypothesis of
`DiscardsAreSound` is that of the code's limit at `jbuf.c:530`. All is said of slots by their distance from
the head, so that the lemmas about `jb_framelist_*` come down to four: the window moves on, is renumbered,
gets a frame, or has one marked.

The refinement maps `first` to `origin` and `q` to the window as a sequence (`View`). Initial states map to
initial states (`QueueInit`), then one lemma to a call (`PutMaps`, `GetMaps`, `RemoveMaps`): each is a step of
the queue or a stutter. A put is the longest: renumbering, making room, storing and the discard policy are
shown to be the operators of those names in `JbufQueue`.

`RemovalSound` is about lists of any size, where the removal loop makes any number of rounds. A state of
the loop is described by the numbers of slots removed before its last round and with it (`LoopState`). Until
it ends, more discarded slots were found than rounds made, so it ends within as many rounds as there are
slots (`LoopEnds`), and then it has removed the fewest slots that hold the frames asked for. That a peek
sees the frames that follow rests on where a frame is: the one slot at which so many frames lie before it
(`PlaceUnique`), found alike before and after the removal (`PeekIs`, `LeftPlace`).

**Group lock.** `IInv` says of each mutex whose place in its walk gives which thread how many levels of it
(`MutexesSound`, `Level`), of the recorded owner the same (`OwnerSound`), what its place in a call says of a
thread (`Places`), that the list is in order and has no lock twice (`ListSound`), that the count is the
number of references (`CountSound`), who may be chaining what (`ChainsSound`) and that the thread that
destroys is the last (`EndSound`). `Ownership` alone is not inductive: between two locks of a walk nothing
in it says which ones a thread has. Only locks *behind* the group lock have a `Level`, as the list changes
under a thread that waits in front of it: hence the hypotheses. TLC refutes `LockOrder` with two external
locks at different positions, where `chain_lock` itself takes the earlier one late, and `Ownership` with
one in front.

**Timer heap.** `IInv` says that the heap is sound between calls (`Sound`: ordered, and `timer_ids` its exact
inverse), that its free list runs once through the ids neither in use nor held by a poll (`Stocked`), that
polls hold different ids (`Apart`), that an entry between the test and the lock of `schedule_w_grp_lock` is
out of the heap and nobody else's (`SchedInv`), that an entry outside the heap is at rest (`EntryInv`), and
that the references are counted (`RefInv`). `IdsSound` alone is not inductive: a removed entry is put back
in order only because the rest is, and `push_freelist` after a callback keeps the list free of cycles only
because nobody else holds that id.

`reheap_up` and `reheap_down` are recursive functions. What they compute is proved by induction on
*sets* of slots (`Induction`, from the library's theorem on well-founded orders): the loop moves a hole
along a way of slots (`Climbed`, `Sunk`), so the entries are permuted (`Rearranged`), and in order again where
the node came to rest (`Climbs`, `Sinks`). The copies into `timer_ids` and the free list, followed as a
sequence of distinct ids (`Threaded`), are folds over the same slots. Together they give `RemoveStocked` and
`InsertStocked`, for every heap, and the steps of the threads rest on these two. For the refinement `due`
maps to the times of the entries in the heap and `running` to the node of each thread; the root being the
earliest entry is one more induction, up from any slot.

The two hypotheses are where the code stops being right. `Serialised`: two threads that schedule one entry
both pass the test made before the lock (`timer.c:505`). `Room`: whoever schedules finds a free id, which the
test of `schedule_entry` does not make sure of, as `timer.c:309` does not count the ids held by polls; the
code then reads past the end of `timer_ids`. `TimersThatFit` replaces `Room` by a bound on the constants:
the ids in use and held belong to different entries and threads, those that schedule excluded, so one is
left (`FitsRoom`). `TimerConc` satisfies it; `TimerLive` starts smaller, grows, and satisfies `Room`. The
entries and threads are assumed finite.

**Active socket.** `Types`; `Locks`: a worker in a callback has the key's lock; `Reads`: `ReadSound` and
that a waiting read operation has room, without which `recv()` for zero bytes would look like the end of
the stream; `Sends`: where the one block can be (in a call, in the key's list, or with the worker that
reports it) and that what has gone out and what is left add up; `Closes`: how `shutdown`, `key` and
`closing` follow one another; `Theirs`: once the key is taken away, a worker in a callback has closed the socket or
is about to unregister it, because the thread that took the key held its lock, and so waited for every callback
but its own. That is the half of `ClosedQuiet` about callbacks that run already.

**Event manager.** `QueuesSound` alone is not inductive: an event leaves a ring because a distribution is
under way, so the invariant has that the ring is not empty then, also after `is_quitting` when the
semaphore no longer counts.

`NobodyMissed` alone is not inductive either: that a subscriber which a distribution has passed was told
rests on the order of the list, in which a new subscription goes to the end. The model has the list as a set,
and the order as the number each subscription was given; `WInv` adds that these numbers
differ and are not above the count of subscriptions made (`Numbered`), and that a distribution waits for
nobody who has left the list (`Told`). The next place of a walk is then the least number above its own.

**I/O queue.** `IInv == TInv /\ LInv /\ FInv /\ WInv /\ RefCountExact /\ GroupRefsExact /\ SetsSound`. The
counts alone are not inductive. `LInv` says which place in a poll or a call holds which lock, and how often:
without it two unregistrations could both find `closing` unset. `FInv` says that a key without a descriptor is
free, closing or being closed, and that a thread which still uses a key keeps it off the free list: without it a
registration could reset the count of a key while a poll holds an event of it. `WInv` says that registered
keys have open sockets of their own, on which `SetsSound` rests. Most actions leave all references alone
(`Quiet`), and one lemma serves them; of the others each has a lemma that says what it does to the events that refer
to a key (`Held`) or a group (`Passing`) and to the keys registered with a group (`Owned`), so that the
counts are sums over disjoint sets. `CallbacksExclusive` follows from `LInv`: without concurrency a callback
holds the key's lock. The lists of keys are sets in the model, since nothing depends on their order but
which events are collected where there are more than a poll takes; `Collect` allows every order.

**SDP negotiator.** `TInv` has the types and which descriptions are there in which state (`Filled`); it needs
nothing of `create_answer` and `process_answer` but that they return descriptions. `XInv` says that an exchange
is in one place: its offer under way, or in the hands of the other end, or its answer or rejection
under way (`Exchange`). `FInv` is about the first exchange of a call, in which one end has a session before
the other. `VInv` relates what an end has said to the descriptions it holds, so that the next one has a
greater version (`Versions`). `OneSession` alone is not inductive, because versions are raised only relative to
the active description, which is that of an earlier exchange while an offer is pending. The hypothesis
`NoFailure` is where the code stops being right: `pjmedia_sdp_neg_negotiate` that fails for an answer goes
back to the earlier description and does not raise its version, as `pjmedia_sdp_neg_cancel_offer` does for the reason
given there (`sdp_neg.c:1426`), and the next offer has the version of the one that failed.
In `SdpRun` the hypothesis holds, since every answer of `create_answer` to these offers can be processed; what
fails there is the making of an answer.

**DNS resolver.** `IInv == Types /\ NodesOK /\ Ended /\ Borrowed /\ CacheSound`. `NodesOK` says that the free
nodes and the families (a pending query, or one whose callbacks are being made, with its children) are a
partition of the nodes (`Placed`), that no two workers have the same family (`Shared`), that each head has an
id of its own below `last_id` and every other node the id 0 (`Numbered`), and that no more nodes are in use
than calls were made (`Enough`). `NodesSound` alone is not inductive: `on_timeout` asks only whether the id
of its node is in the table, which is an answer about the node because of `Numbered`, and `alloc_qnode`
finds a node because of `Enough`. That it takes each place once is counted at the end (`PlacedOnce`). For the
cache the proof counts the users of every entry before and after a step; since there are as many
entries as keys and calls, and the key at hand has just given up its own, `update_res_cache` finds an
unused one (`FreeEntry`).

The timers need `TimersSound` besides: in a heap of the resolver's own, a timeout that a worker has taken out of
it carries the id of its node for as long as that node is pending, because the worker holds the group lock
meanwhile (`FreshlySettled`: no node is given out then). Of a shared heap neither the invariant nor
`TimeoutIsOwn` says anything, and there the code stops being right (`resolver.c:1579`, see the limits). `NodesSound` needs no such condition:
wherever a late timeout hits, the nodes go around as they should.

`ToldOnce` rests on `ToldInv`, which needs no hypothesis: from `start_query` until the callback or the
cancellation the handle names a node that waits and the node names the query (`HandlesOK`, `CallbacksOK`), the
lists of the workers hold a part of their families, each node once (`TodosOK`), and a callback that is
loaded is that of the next node or was cancelled since (`LoadedOK`). A node leaves this bond and the set
of waiting nodes in one step, `CallCb`, and no other worker can come to it.

The constants `Queries`, `Keys`, `Nodes` and `Entries` are assumed finite, as the bound of the pool and of
the calls of one run make them, and there are as many nodes as calls and as many entries as keys and
calls, since the code takes both from a pool that is assumed not to run out.

Where a proof needs the least element of a set (the first lock of a list with some property, the
first free slot), or an induction over the rounds of the removal loop, it takes the least element, or the
least counterexample, from the library's theorem on well-founded orders: the induction theorems themselves
are out of the prover's reach.

Only model-checked, and why:

- The liveness properties (`DestroyCompletes`, `NoTimerForgotten`, `NoStall`, `WorkersReturn`, `PostedAreTold`,
  `AnsweredUnlessOrphaned`): fairness and `ENABLED` are out of the prover's reach.
- `HeapOpsCorrect` of `MCTimerHeap`: it compares the operations with their descriptions on every heap of six
  entries; the proofs have `RemoveStocked` and `InsertStocked` for heaps of any size in its place.
- `Agreement`, `AnswerFits` and `LinesStay` of `SdpNeg`: they are about what `create_answer` and `process_answer`
  compute from lists of formats, by folds over these lists.
- `NoLostWakeup` and `BytesInOrder` of `Ioqueue`: they hold for clients that do not send while connecting, and for one
  poller and one sender, as the runs have them, and not for every value of the constants (see the limits below).

## What the runs found

`DnsOrphan` (`resolver.c:1034`): cancelling a query stops its timer although other queries may wait
for it as its children. If no answer arrives the node stays pending for ever, with its children and with
every later query for the name, against `resolver.h:117-118` and `resolver.c:126-127`. `DnsRun`
checks what remains: every query whose parent was not cancelled is answered (`AnsweredUnlessOrphaned`).

Limits of the code that showed while it was modelled. The passing runs stay inside them, by the named
assumptions and constants:

- `jbuf.c:530`: switching progressive, static, progressive leaves a stale plan; a slot is marked
  discarded twice, and the assertion of `:463` fails. The runs have one algorithm each.
- `jbuf.c:348`: a peeked frame's number is computed from the offset, not from the place found.
- `timer.c:309`: ids held by running callbacks are not counted; `timer.c:505`: entries are tested before
  the heap is locked (`Serialised`).
- `ioqueue_common_abs.c:803`: a thread that saw the write list empty may send into the middle of an
  operation queued since by another; `:327`: of two pollers that handle one writeable event the later may
  give up the rest of an operation; `:192`: the end of a connect clears the bit of a queued write (`SendsEarly`).
- `activesock.c:467`: a callback that leaves a full buffer ends the connection (`MaxKeep < MaxSize`);
  `:673`: one `send_data` for all sends.
- `sdp_neg.c:328-337`: `pjmedia_sdp_neg_modify_local_offer2` reads an active description that is NULL
  after a failed first negotiation (`MayOffer`); `:1336`: `PJ_ASSERT_RETURN` overwrites the status
  of a negotiation that left nothing active.
- `sdp_neg.c:1515`: after the negotiation of an answer has failed, the next offer has the version of the one that
  failed, which `:1426` avoids for a rejected one. An answer of this negotiator that it does not take itself:
  `match_offer` takes an absent number of channels and `1` for the same on either side (`:1184-1188`),
  `process_m_answer` only a `1` in the answer (`:799-800`). With `Caps` in which one end alone names the
  channel, TLC finds `SessionSound` violated; those of `SdpRun` have no such codec.
- `resolver.c:1579`: with a shared heap, polled without the group lock, an answer can come between the end of a
  timer and the lock of `on_timeout`, and another query get the node. The recheck asks for the id that
  the node has now, finds it pending, and retransmits or times out the new query with the timer of the old.
  Without `own_timer`, TLC finds `TimeoutIsOwn` violated in nine states.
- `resolver.c:1757`: `on_read_complete` asserts that the query's timer id is not 0, which it is after
  `pj_dns_resolver_cancel_query`; the query is let running (`:126-127`), and its answer may come. The model goes on as a
  build without assertions.
- `ioqueue_select.c:364`: when `ioctl(FIONBIO)` fails in `pj_ioqueue_register_sock2`, the key that was taken off
  the free list is put back nowhere (`:380-385`). `Register` has it succeed, as it does on an open socket.
- `resolver.c:514`: timers in a shared heap outlive the resolver (`Destroy` takes place when nothing is under way).
- `event.c:354`: the queue of published events is shared by all managers (there is one here).

## Not modelled

Of the modelled components, the parts left out are named above and in `PROJECT.json`. Not modelled:

- `conference.c` and the media transports: what is left of them under their mutexes is the mixing of
  samples and the exclusion of callbacks that `Ioqueue` and `ActiveSock` model. Ports that are removed while
  they are used would be the next component.
- `stream.c`, `vid_stream.c`, `rtp.c`, `rtcp.c`: sequential arithmetic on statistics around the
  jitter buffer, under the locks that `JitterBuffer` assumes.
- `clock_thread.c`, `delaybuf.c`: arithmetic on times and averages, with one thread or under one mutex.
- `srv_resolver.c`, `dns.c`, `dns_server.c`, HTTP, STUN and CLI helpers, SDP and file formats: sequential
  conversions and clients.
- Codecs, devices, signal processing and vendored code: their state is sample data.
- Containers, pools and thin wrappers of the operating system, which every model assumes to work.
- The demo's entry points, which configure the components above; `pjnath`, which is not built.
