------------------------------ MODULE JbufQueue ------------------------------
(***************************************************************************)
(* What the jitter buffer promises, without its circular array and without *)
(* the arithmetic that decides when to drop: a queue of at most MaxCount   *)
(* places numbered from `first' on.  A frame is put at the place of its    *)
(* number, a get takes the oldest place, and a discard policy, left open   *)
(* here, may give up one place per call.                                   *)
(***************************************************************************)
EXTENDS Integers, Sequences, FiniteSets

CONSTANTS MaxCount, MaxMisorder, MaxDropout, WrapFrom, NoFrame, MaxSeq, NoOut

VARIABLES first, q, out
vars == <<first, q, out>>

Gap       == [type |-> "missing", frame |-> NoFrame]
Frame(s)  == [type |-> "normal", frame |-> s]
Places(f, s) == [first |-> f, q |-> s]
Now == Places(first, q)

Dropped(w, n) == IF n >= Len(w.q) THEN Places(w.first + Len(w.q), <<>>)
                 ELSE Places(w.first + n, SubSeq(w.q, n + 1, Len(w.q)))
Discarded(w, i) == [w EXCEPT !.q[i].type = "discarded"]

(* Nothing, the oldest place, or one place of the queue is given up.       *)
AfterPolicy(w) ==
  {w, Dropped(w, 1)} \cup {Discarded(w, i) : i \in DOMAIN w.q}

Become(w) == first' = w.first /\ q' = w.q

Init == first = -9999 /\ q = <<>> /\ out = NoOut

-----------------------------------------------------------------------------
Late(s)   == s < first /\ first - s < MaxMisorder
AtWrap    == first + Len(q) < 0 \/ first + Len(q) >= WrapFrom

(* The queue renumbered for frame s: kept, moved up against a number that  *)
(* wrapped, or emptied.                                                    *)
Renumbered(s) ==
  IF q = <<>> THEN Places(s, <<>>)
  ELSE IF s >= first THEN Now
  ELSE IF AtWrap THEN Places(s - Len(q), q)
  ELSE Places(s, <<>>)

(* The queue with a place for s within its capacity.                       *)
WithRoom(w, s) ==
  IF s - w.first < MaxCount THEN w
  ELSE IF s - w.first > MaxDropout \/ s - w.first - MaxCount + 1 >= Len(w.q)
       THEN Places(s, <<>>)
  ELSE Dropped(w, s - w.first - MaxCount + 1)

Stored(w, s) ==
  LET place == s - w.first + 1
      gaps == [i \in 1 .. place - 1 - Len(w.q) |-> Gap]
  IN  [w EXCEPT !.q = IF place <= Len(w.q) THEN [w.q EXCEPT ![place] = Frame(s)]
                      ELSE w.q \o gaps \o <<Frame(s)>>]

Accept(s) ==
  LET w == WithRoom(Renumbered(s), s)
      place == s - w.first + 1
  IN  /\ ~Late(s)
      /\ place > Len(w.q) \/ w.q[place] = Gap
      /\ \E w1 \in AfterPolicy(Stored(w, s)) : Become(w1)
      /\ out' = [NoOut EXCEPT !.type = "success"]

Refuse(s) ==
  /\ \/ Late(s) /\ out' = [NoOut EXCEPT !.type = "too_small"]
     \/ /\ s - first + 1 \in DOMAIN q
        /\ q[s - first + 1] # Gap
        /\ out' = [NoOut EXCEPT !.type = "exists"]
  /\ UNCHANGED <<first, q>>

(* Prefetching: nothing is played, and the policy may drop a frame.        *)
Hold == /\ out' = [NoOut EXCEPT !.type = "prefetch"]
        /\ \E w \in AfterPolicy(Now) : Become(w)

(* Discarded places are skipped; the place after them is played as missing. *)
Live == {i \in DOMAIN q : q[i].type # "discarded"}

PlayEmpty ==
  /\ Live = {}
  /\ \E w \in AfterPolicy(Dropped(Now, Len(q))) : Become(w)
  /\ out' = [NoOut EXCEPT !.type = "empty"]

Play ==
  \E i \in Live :
    /\ \A j \in 1 .. i - 1 : j \notin Live
    /\ \E w \in AfterPolicy(Dropped(Now, i)) : Become(w)
    /\ out' = [type  |-> IF i = 1 THEN q[1].type ELSE "missing",
               frame |-> IF i = 1 THEN q[1].frame ELSE NoFrame,
               seq   |-> first + i - 1]

(* The n oldest live places go, with discarded ones on the way.            *)
Remove(n) ==
  \E k \in 0 .. Len(q) :
    /\ \/ Cardinality(Live \cap 1 .. k) = n
       \/ k = Len(q) /\ Cardinality(Live) < n
    /\ out' = [NoOut EXCEPT !.type = "removed", !.seq = Cardinality(Live \cap 1 .. k)]
    /\ Become(Dropped(Now, k))

Flush == first' = -9999 /\ q' = <<>> /\ out' = NoOut
Configure == out' = NoOut /\ UNCHANGED <<first, q>>

Next == \/ \E s \in 0 .. MaxSeq : Accept(s) \/ Refuse(s)
        \/ Hold \/ PlayEmpty \/ Play
        \/ \E n \in 1 .. MaxCount : Remove(n)
        \/ Flush \/ Configure

Spec == Init /\ [][Next]_vars
=============================================================================
