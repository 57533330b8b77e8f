----------------------------- MODULE TimerQueue -----------------------------
(***************************************************************************)
(* What the timer heap promises, without the heap: a set of armed timers   *)
(* with their times to go.  A timer is armed at most once; a callback is   *)
(* started only for a timer that is armed, due and no later than any other *)
(* armed timer, and disarms it; a cancelled timer is not called back.      *)
(***************************************************************************)
EXTENDS Integers

CONSTANTS Timers, Threads, NoTimer, Delays

VARIABLES due,          \* [armed timers -> time to go]
          running       \* the timer whose callback each thread runs
vars == <<due, running>>

Without(d, e) == [f \in DOMAIN d \ {e} |-> d[f]]

Init == due = [e \in {} |-> 0] /\ running = [t \in Threads |-> NoTimer]

(* The clock may have moved on since the time was computed.                *)
Arm(e) ==
  /\ e \notin DOMAIN due
  /\ \E f \in DOMAIN due', d \in Delays : f = e /\ due'[f] <= d
  /\ Without(due', e) = due
  /\ UNCHANGED running

Cancel(e) == e \in DOMAIN due /\ due' = Without(due, e) /\ UNCHANGED running

Call(t, e) ==
  /\ running[t] = NoTimer
  /\ e \in DOMAIN due /\ due[e] <= 0
  /\ \A f \in DOMAIN due : due[e] <= due[f]
  /\ due' = Without(due, e)
  /\ running' = [running EXCEPT ![t] = e]

Return(t) == running[t] # NoTimer /\ running' = [running EXCEPT ![t] = NoTimer]
             /\ UNCHANGED due

Tick == due' = [e \in DOMAIN due |-> due[e] - 1] /\ UNCHANGED running

Next == \/ Tick
        \/ \E e \in Timers : Arm(e) \/ Cancel(e) \/ \E t \in Threads : Call(t, e)
        \/ \E t \in Threads : Return(t)

Spec == Init /\ [][Next]_vars
=============================================================================
