---------------------------- MODULE SdpNegProofs ----------------------------
(***************************************************************************)
(* Theorems about the SDP negotiator, for all capabilities of the two ends *)
(* and whatever the functions of SdpDescr compute.                         *)
(***************************************************************************)
EXTENDS SdpNeg, TLAPS

(* The ids that descriptions have, the origins, and what is a description: *)
(* nothing is said about its media lines.                                  *)
Ids == UNION {{Caps[a][i] : i \in DOMAIN Caps[a]} : a \in Agents}
Origins == [id : Ids, version : Nat \ {0}]
IsSdp(s) == /\ s = [id |-> s.id, version |-> s.version, media |-> s.media]
            /\ s.id \in Ids /\ s.version \in Nat \ {0}
MaybeSdp(s) == s = NoSdp \/ IsSdp(s)

IsNeg(n) ==
  /\ n = [state |-> n.state, has_remote_answer |-> n.has_remote_answer,
          initial |-> n.initial, initial_tmp |-> n.initial_tmp,
          active_local |-> n.active_local, active_remote |-> n.active_remote,
          neg_local |-> n.neg_local, neg_remote |-> n.neg_remote]
  /\ n.state \in States /\ n.has_remote_answer \in BOOLEAN
  /\ MaybeSdp(n.initial) /\ MaybeSdp(n.initial_tmp)
  /\ MaybeSdp(n.active_local) /\ MaybeSdp(n.active_remote)
  /\ MaybeSdp(n.neg_local) /\ MaybeSdp(n.neg_remote)

IsMessage(m) == /\ m = Message(m.to, m.kind, m.sdp)
                /\ m.to \in Agents /\ m.kind \in {"offer", "answer", "reject"}
                /\ m.kind # "reject" => IsSdp(m.sdp)

(* What a negotiator has in each state, with what a failed negotiation or  *)
(* a rejected offer takes back.                                            *)
Filled(n) ==
  /\ n.has_remote_answer => n.state = "WAIT_NEGO"
  /\ n.state \in {"LOCAL_OFFER", "WAIT_NEGO"} => n.neg_local # NoSdp /\ n.initial # NoSdp
  /\ n.state \in {"REMOTE_OFFER", "WAIT_NEGO"} => n.neg_remote # NoSdp
  /\ (n.active_local = NoSdp) = (n.active_remote = NoSdp)
  /\ n.active_local # NoSdp =>
       /\ n.initial # NoSdp
       /\ n.state \in {"LOCAL_OFFER", "WAIT_NEGO"} => n.initial_tmp # NoSdp

TInv == /\ neg = [a \in Agents |-> neg[a]]
        /\ said \in [Agents -> Seq(Origins)]
        /\ \A m \in net : IsMessage(m)
        /\ \A a \in Agents : IsNeg(neg[a]) /\ Filled(neg[a])

LEMMA PeerIs ==
  ASSUME NEW a \in Agents
  PROVE  Peer(a) \in Agents /\ Peer(a) # a /\ \A b \in Agents : b = a \/ b = Peer(a)
<1>1. \E b \in Agents : b # a
  BY SdpNegAssumption DEF Agents
<1>2. Peer(a) \in Agents /\ Peer(a) # a
  BY <1>1 DEF Peer
<1>3. QED
  BY <1>2 DEF Agents

LEMMA SdpIsNotNull ==
  ASSUME NEW s, IsSdp(s)
  PROVE  s # NoSdp
BY DEF IsSdp, NoSdp

(* A description an application makes.                                     *)
LEMMA FreshIsSdp ==
  ASSUME NEW a \in Agents, NEW local \in Local(a)
  PROVE  IsSdp(local) /\ Origin(local) \in Origins
<1>1. PICK i \in DOMAIN Caps[a] : local = Fresh(a, Caps[a][i])
  BY DEF Local
<1>2. Caps[a][i] \in Ids
  BY <1>1 DEF Ids
<1>3. QED
  BY <1>1, <1>2 DEF Fresh, IsSdp, Origin, Origins

(* A description with other lines and another version is one.              *)
LEMMA SdpWith ==
  ASSUME NEW s, IsSdp(s), NEW media, NEW v \in Nat \ {0}
  PROVE  /\ IsSdp([s EXCEPT !.media = media])
         /\ [s EXCEPT !.media = media].id = s.id
         /\ [s EXCEPT !.media = media].version = s.version
         /\ IsSdp([s EXCEPT !.version = v])
         /\ [s EXCEPT !.version = v].id = s.id
         /\ [s EXCEPT !.version = v].version = v
<1>1. PICK i, w, m : s = [id |-> i, version |-> w, media |-> m]
  BY DEF IsSdp
<1>2. [s EXCEPT !.media = media] = [id |-> i, version |-> w, media |-> media]
  BY <1>1
<1>3. [s EXCEPT !.version = v] = [id |-> i, version |-> v, media |-> m]
  BY <1>1
<1>4. i \in Ids /\ w \in Nat \ {0}
  BY <1>1 DEF IsSdp
<1>5. QED
  BY <1>1, <1>2, <1>3, <1>4 DEF IsSdp

LEMMA SdpWithId ==
  ASSUME NEW s, IsSdp(s), NEW id \in Ids
  PROVE  /\ IsSdp([s EXCEPT !.id = id])
         /\ [s EXCEPT !.id = id].id = id
         /\ [s EXCEPT !.id = id].version = s.version
<1>1. PICK i, w, m : s = [id |-> i, version |-> w, media |-> m]
  BY DEF IsSdp
<1>2. [s EXCEPT !.id = id] = [id |-> id, version |-> w, media |-> m]
  BY <1>1
<1>3. QED
  BY <1>1, <1>2 DEF IsSdp

(* The origin of a description.                                            *)
LEMMA OriginOf ==
  ASSUME NEW s, IsSdp(s)
  PROVE  Origin(s) \in Origins /\ Origin(s).id = s.id /\ Origin(s).version = s.version
BY DEF IsSdp, Origin, Origins

-----------------------------------------------------------------------------
(* A negotiator, field by field.                                           *)
Fields(st, h, i, t, al, ar, nl, nr) ==
  [state |-> st, has_remote_answer |-> h, initial |-> i, initial_tmp |-> t,
   active_local |-> al, active_remote |-> ar, neg_local |-> nl, neg_remote |-> nr]

LEMMA FieldsOf ==
  ASSUME NEW n, IsNeg(n)
  PROVE  n = Fields(n.state, n.has_remote_answer, n.initial, n.initial_tmp,
                    n.active_local, n.active_remote, n.neg_local, n.neg_remote)
BY DEF IsNeg, Fields

(* What each operation makes of the negotiator of its agent, and that it   *)
(* leaves the other's alone.                                               *)
Becomes(a, r) == /\ neg' = [b \in Agents |-> IF b = a THEN r ELSE neg[b]]
                 /\ neg'[a] = r /\ \A b \in Agents : b # a => neg'[b] = neg[b]

LEMMA Assigned ==
  ASSUME NEW a \in Agents, TInv, NEW r, neg' = [neg EXCEPT ![a] = r]
  PROVE  Becomes(a, r)
BY DEF TInv, Becomes

LEMMA CreateLocalMakes ==
  ASSUME NEW a \in Agents, NEW local, TInv, CreateWithLocalOffer(a, local)
  PROVE  \E r : /\ Becomes(a, r)
                /\ r = Fields("LOCAL_OFFER", FALSE, local, NoSdp, NoSdp, NoSdp, local, NoSdp)
<1>1. PICK r : r = [NoNeg EXCEPT !.state = "LOCAL_OFFER", !.initial = local, !.neg_local = local]
  OBVIOUS
<1>2. r = Fields("LOCAL_OFFER", FALSE, local, NoSdp, NoSdp, NoSdp, local, NoSdp)
  BY <1>1 DEF NoNeg, Fields
<1>3. Becomes(a, r)
  BY <1>1, Assigned DEF CreateWithLocalOffer
<1>4. QED
  BY <1>2, <1>3

LEMMA CreateRemoteMakes ==
  ASSUME NEW a \in Agents, NEW m, NEW initial, TInv, CreateWithRemoteOffer(a, m, initial)
  PROVE  \E r : /\ Becomes(a, r)
                /\ r = Fields(IF initial = NoSdp THEN "REMOTE_OFFER" ELSE "WAIT_NEGO", FALSE,
                              initial, NoSdp, NoSdp, NoSdp, initial, m.sdp)
<1>1. PICK st : st = IF initial = NoSdp THEN "REMOTE_OFFER" ELSE "WAIT_NEGO"
  OBVIOUS
<1>2. PICK r : r = [NoNeg EXCEPT !.state = st, !.initial = initial,
                                 !.neg_local = initial, !.neg_remote = m.sdp]
  OBVIOUS
<1>3. r = Fields(st, FALSE, initial, NoSdp, NoSdp, NoSdp, initial, m.sdp)
  BY <1>2 DEF NoNeg, Fields
<1>4. Becomes(a, r)
  BY <1>1, <1>2, Assigned DEF CreateWithRemoteOffer
<1>5. QED
  BY <1>1, <1>3, <1>4

LEMMA ModifyMakes ==
  ASSUME NEW a \in Agents, NEW local, NEW change, TInv, ModifyLocalOffer(a, local, change)
  PROVE  Becomes(a, Fields("LOCAL_OFFER", neg[a].has_remote_answer,
                           Modified(neg[a].active_local, local, change), neg[a].initial,
                           neg[a].active_local, neg[a].active_remote,
                           Modified(neg[a].active_local, local, change), neg[a].neg_remote))
<1>1. PICK st, h, i, t, al, ar, nl, nr : neg[a] = Fields(st, h, i, t, al, ar, nl, nr)
  BY FieldsOf DEF TInv
<1>2. PICK n, r, x, g : /\ n = neg[a] /\ x = Modified(neg[a].active_local, local, change)
                       /\ r = [n EXCEPT !.state = "LOCAL_OFFER", !.initial_tmp = neg[a].initial,
                                      !.initial = x, !.neg_local = x]
  OBVIOUS
<1>3. Becomes(a, r)
  BY <1>1, <1>2, Assigned DEF ModifyLocalOffer, Fields
<1>4. r = Fields("LOCAL_OFFER", h, x, i, al, ar, x, nr)
  <2>1. n = Fields(st, h, i, t, al, ar, nl, nr) /\ neg[a].initial = i
    BY <1>1, <1>2 DEF Fields
  <2>2. r = [n EXCEPT !.state = "LOCAL_OFFER", !.initial_tmp = i, !.initial = x, !.neg_local = x]
    BY <1>2, <2>1
  <2>3. QED
    BY <2>1, <2>2 DEF Fields
<1>5. QED
  BY <1>1, <1>2, <1>3, <1>4 DEF Fields

LEMMA SendMakes ==
  ASSUME NEW a \in Agents, TInv, SendLocalOffer(a)
  PROVE  Becomes(a, Fields("LOCAL_OFFER", neg[a].has_remote_answer,
                           neg[a].initial, neg[a].initial,
                           neg[a].active_local, neg[a].active_remote,
                           neg[a].active_local, neg[a].neg_remote))
<1>1. PICK st, h, i, t, al, ar, nl, nr : neg[a] = Fields(st, h, i, t, al, ar, nl, nr)
  BY FieldsOf DEF TInv
<1>2. PICK n, r, x, g : /\ n = neg[a] /\ x = neg[a].active_local
                       /\ r = [n EXCEPT !.state = "LOCAL_OFFER", !.initial_tmp = neg[a].initial,
                                      !.neg_local = x]
  OBVIOUS
<1>3. Becomes(a, r)
  BY <1>1, <1>2, Assigned DEF SendLocalOffer, Fields
<1>4. r = Fields("LOCAL_OFFER", h, i, i, al, ar, x, nr)
  <2>1. n = Fields(st, h, i, t, al, ar, nl, nr) /\ neg[a].initial = i
    BY <1>1, <1>2 DEF Fields
  <2>2. r = [n EXCEPT !.state = "LOCAL_OFFER", !.initial_tmp = i, !.neg_local = x]
    BY <1>2, <2>1
  <2>3. QED
    BY <2>1, <2>2 DEF Fields
<1>5. QED
  BY <1>1, <1>2, <1>3, <1>4 DEF Fields

LEMMA RemoteAnswerMakes ==
  ASSUME NEW a \in Agents, NEW m, TInv, SetRemoteAnswer(a, m)
  PROVE  \E g : /\ g = TRUE
                /\ Becomes(a, Fields("WAIT_NEGO", g, neg[a].initial, neg[a].initial_tmp,
                                     neg[a].active_local, neg[a].active_remote,
                                     neg[a].neg_local, m.sdp))
<1>1. PICK st, h, i, t, al, ar, nl, nr : neg[a] = Fields(st, h, i, t, al, ar, nl, nr)
  BY FieldsOf DEF TInv
<1>2. PICK n, r, x, g : /\ n = neg[a] /\ x = m.sdp /\ g = TRUE
                       /\ r = [n EXCEPT !.state = "WAIT_NEGO", !.has_remote_answer = g,
                                      !.neg_remote = x]
  OBVIOUS
<1>3. Becomes(a, r)
  BY <1>1, <1>2, Assigned DEF SetRemoteAnswer, Fields
<1>4. r = Fields("WAIT_NEGO", g, i, t, al, ar, nl, x)
  <2>1. n = Fields(st, h, i, t, al, ar, nl, nr) /\ neg[a].initial = i
    BY <1>1, <1>2 DEF Fields
  <2>2. r = [n EXCEPT !.state = "WAIT_NEGO", !.has_remote_answer = g, !.neg_remote = x]
    BY <1>2, <2>1
  <2>3. QED
    BY <2>1, <2>2 DEF Fields
<1>5. Becomes(a, Fields("WAIT_NEGO", g, neg[a].initial, neg[a].initial_tmp,
                        neg[a].active_local, neg[a].active_remote, neg[a].neg_local, m.sdp))
  BY <1>1, <1>2, <1>3, <1>4 DEF Fields
<1>6. QED
  BY <1>2, <1>5, Zenon

LEMMA RemoteOfferMakes ==
  ASSUME NEW a \in Agents, NEW m, TInv, SetRemoteOffer(a, m)
  PROVE  Becomes(a, Fields("REMOTE_OFFER", neg[a].has_remote_answer,
                           neg[a].initial, neg[a].initial_tmp,
                           neg[a].active_local, neg[a].active_remote,
                           neg[a].neg_local, m.sdp))
<1>1. PICK st, h, i, t, al, ar, nl, nr : neg[a] = Fields(st, h, i, t, al, ar, nl, nr)
  BY FieldsOf DEF TInv
<1>2. PICK n, r, x, g : /\ n = neg[a] /\ x = m.sdp
                       /\ r = [n EXCEPT !.state = "REMOTE_OFFER", !.neg_remote = x]
  OBVIOUS
<1>3. Becomes(a, r)
  BY <1>1, <1>2, Assigned DEF SetRemoteOffer, Fields
<1>4. r = Fields("REMOTE_OFFER", h, i, t, al, ar, nl, x)
  <2>1. n = Fields(st, h, i, t, al, ar, nl, nr) /\ neg[a].initial = i
    BY <1>1, <1>2 DEF Fields
  <2>2. r = [n EXCEPT !.state = "REMOTE_OFFER", !.neg_remote = x]
    BY <1>2, <2>1
  <2>3. QED
    BY <2>1, <2>2 DEF Fields
<1>5. QED
  BY <1>1, <1>2, <1>3, <1>4 DEF Fields

LEMMA LocalAnswerMakes ==
  ASSUME NEW a \in Agents, NEW local, TInv, SetLocalAnswer(a, local)
  PROVE  IF neg[a].initial # NoSdp
         THEN Becomes(a, Fields("WAIT_NEGO", neg[a].has_remote_answer, neg[a].initial,
                                neg[a].initial, neg[a].active_local, neg[a].active_remote,
                                [local EXCEPT !.id = neg[a].initial.id], neg[a].neg_remote))
         ELSE Becomes(a, Fields("WAIT_NEGO", neg[a].has_remote_answer, local,
                                neg[a].initial_tmp, neg[a].active_local, neg[a].active_remote,
                                local, neg[a].neg_remote))
<1>1. PICK st, h, i, t, al, ar, nl, nr : neg[a] = Fields(st, h, i, t, al, ar, nl, nr)
  BY FieldsOf DEF TInv
<1>2. PICK r, n : n = neg[a] /\ r = Answered(n, local)
  OBVIOUS
<1>3. Becomes(a, r)
  BY <1>2, Assigned DEF SetLocalAnswer
<1>4. CASE neg[a].initial # NoSdp
  <2>1. PICK x : x = [local EXCEPT !.id = neg[a].initial.id]
    OBVIOUS
  <2>2. n = Fields(st, h, i, t, al, ar, nl, nr) /\ n.initial = i
    BY <1>1, <1>2 DEF Fields
  <2>3. r = [n EXCEPT !.state = "WAIT_NEGO", !.initial_tmp = i, !.neg_local = x]
    BY <1>2, <1>4, <2>1, <2>2 DEF Answered
  <2>4. r = Fields("WAIT_NEGO", h, i, i, al, ar, x, nr)
    BY <2>2, <2>3 DEF Fields
  <2>5. QED
    BY <1>1, <1>3, <1>4, <2>1, <2>4 DEF Fields
<1>5. CASE neg[a].initial = NoSdp
  <2>1. n = Fields(st, h, i, t, al, ar, nl, nr)
    BY <1>1, <1>2
  <2>2. r = [n EXCEPT !.state = "WAIT_NEGO", !.initial = local, !.neg_local = local]
    BY <1>2, <1>5 DEF Answered
  <2>3. r = Fields("WAIT_NEGO", h, local, t, al, ar, local, nr)
    BY <2>1, <2>2 DEF Fields
  <2>4. QED
    BY <1>1, <1>3, <1>5, <2>3 DEF Fields
<1>6. QED
  BY <1>4, <1>5

LEMMA FinishedMakes ==
  ASSUME NEW n, NEW success, NEW local, NEW remote
  PROVE  Finished(n, success, local, remote) =
           IF success THEN Fields("DONE", FALSE, n.initial, NoSdp, local, remote, NoSdp, NoSdp)
           ELSE Fields("DONE", FALSE, n.initial_tmp, NoSdp,
                       n.active_local, n.active_remote, NoSdp, NoSdp)
BY DEF Finished, Ended, Fields

LEMMA CancelledMakes ==
  ASSUME NEW n
  PROVE  Cancelled(n) = Fields("DONE", FALSE, Restored(n), NoSdp,
                               IF n.state = "LOCAL_OFFER" /\ n.active_local # NoSdp
                               THEN [n.active_local EXCEPT !.version = @ + 1]
                               ELSE n.active_local,
                               n.active_remote, NoSdp, NoSdp)
BY DEF Cancelled, Ended, Fields

-----------------------------------------------------------------------------
LEMMA TypeStep ==
  ASSUME TInv, NEW a \in Agents, NEW r, Becomes(a, r), IsNeg(r), Filled(r),
         said' \in [Agents -> Seq(Origins)], \A m \in net' : IsMessage(m)
  PROVE  TInv'
BY DEF TInv, Becomes

LEMMA SayTyped ==
  ASSUME TInv, NEW a \in Agents, NEW s, Say(a, s), IsSdp(s)
  PROVE  said' \in [Agents -> Seq(Origins)]
<1>1. Origin(s) \in Origins
  BY OriginOf
<1>2. QED
  BY <1>1 DEF TInv, Say

LEMMA MessageTyped ==
  ASSUME NEW a \in Agents, NEW kind \in {"offer", "answer"}, NEW s, IsSdp(s)
  PROVE  /\ IsMessage(Message(Peer(a), kind, s))
         /\ IsMessage(Message(Peer(a), "reject", NoSdp))
BY PeerIs DEF IsMessage, Message

LEMMA ModifiedTyped ==
  ASSUME NEW s, IsSdp(s), NEW local, NEW change
  PROVE  /\ IsSdp(Modified(s, local, change))
         /\ Modified(s, local, change).id = s.id
         /\ Modified(s, local, change).version = s.version + 1
BY DEF Modified, IsSdp

LEMMA AnswerTyped ==
  ASSUME NEW n, IsNeg(n), Filled(n), n.state = "WAIT_NEGO", NEW media
  PROVE  /\ IsSdp(AnswerMade(n, media))
         /\ AnswerMade(n, media).id = n.neg_local.id
         /\ AnswerMade(n, media).version =
              (IF n.active_local # NoSdp THEN n.active_local ELSE n.initial).version + 1
<1>1. IsSdp(n.neg_local) /\ IsSdp(n.initial)
  BY DEF IsNeg, Filled, MaybeSdp
<1>2. (IF n.active_local # NoSdp THEN n.active_local ELSE n.initial).version \in Nat
  BY <1>1 DEF IsNeg, MaybeSdp, IsSdp
<1>3. PICK v : v = (IF n.active_local # NoSdp THEN n.active_local ELSE n.initial).version + 1
  OBVIOUS
<1>4. v \in Nat \ {0}
  BY <1>2, <1>3
<1>5. PICK i, w, m : n.neg_local = [id |-> i, version |-> w, media |-> m]
  BY <1>1 DEF IsSdp
<1>6. [n.neg_local EXCEPT !.media = media] = [id |-> i, version |-> w, media |-> media]
  BY <1>5
<1>7. [[id |-> i, version |-> w, media |-> media] EXCEPT !.version = v]
        = [id |-> i, version |-> v, media |-> media]
  OBVIOUS
<1>8. AnswerMade(n, media) = [id |-> i, version |-> v, media |-> media]
  BY <1>3, <1>6, <1>7, Zenon DEF AnswerMade
<1>9. i \in Ids /\ n.neg_local.id = i
  BY <1>1, <1>5 DEF IsSdp
<1>10. AnswerMade(n, media).version = v /\ AnswerMade(n, media).id = i
  BY <1>8
<1>11. IsSdp(AnswerMade(n, media))
  BY <1>4, <1>8, <1>9 DEF IsSdp
<1>12. QED
  BY <1>3, <1>9, <1>10, <1>11

LEMMA TInvInit == Init => TInv
<1> SUFFICES ASSUME Init PROVE TInv
  OBVIOUS
<1>1. IsNeg(NoNeg) /\ Filled(NoNeg)
  BY DEF IsNeg, Filled, NoNeg, MaybeSdp, States
<1>2. \A a \in Agents : neg[a] = NoNeg
  BY DEF Init
<1>3. said \in [Agents -> Seq(Origins)]
  BY DEF Init
<1>4. QED
  BY <1>1, <1>2, <1>3 DEF Init, TInv

(* The types are kept, whatever the negotiations come to.                  *)
LEMMA TInvStep == TInv /\ [Next]_vars => TInv'
<1> SUFFICES ASSUME TInv, [Next]_vars PROVE TInv'
  OBVIOUS
<1>1. ASSUME NEW a \in Agents, NEW local \in Local(a), CreateWithLocalOffer(a, local)
      PROVE  TInv'
  <2>1. PICK r : /\ Becomes(a, r)
                 /\ r = Fields("LOCAL_OFFER", FALSE, local, NoSdp, NoSdp, NoSdp, local, NoSdp)
    BY <1>1, CreateLocalMakes
  <2>2. IsSdp(local) /\ local # NoSdp
    BY FreshIsSdp, SdpIsNotNull
  <2>3. IsNeg(r) /\ Filled(r)
    BY <2>1, <2>2 DEF Fields, IsNeg, Filled, MaybeSdp, States
  <2>4. said' \in [Agents -> Seq(Origins)]
    BY <1>1, <2>2, SayTyped DEF CreateWithLocalOffer
  <2>5. \A m \in net' : IsMessage(m)
    BY <1>1, <2>2, MessageTyped DEF CreateWithLocalOffer
  <2>6. QED
    BY <2>1, <2>3, <2>4, <2>5, TypeStep
<1>2. ASSUME NEW a \in Agents, NEW m \in net, NEW initial \in Local(a) \cup {NoSdp},
             CreateWithRemoteOffer(a, m, initial)
      PROVE  TInv'
  <2>1. PICK r : /\ Becomes(a, r)
                 /\ r = Fields(IF initial = NoSdp THEN "REMOTE_OFFER" ELSE "WAIT_NEGO", FALSE,
                               initial, NoSdp, NoSdp, NoSdp, initial, m.sdp)
    BY <1>2, CreateRemoteMakes
  <2>2. IsSdp(m.sdp) /\ m.sdp # NoSdp
    BY <1>2, SdpIsNotNull DEF CreateWithRemoteOffer, TInv, IsMessage
  <2>3. MaybeSdp(initial)
    BY FreshIsSdp DEF MaybeSdp
  <2>4. IsNeg(r) /\ Filled(r)
    BY <2>1, <2>2, <2>3 DEF Fields, IsNeg, Filled, MaybeSdp, States
  <2>5. said' \in [Agents -> Seq(Origins)] /\ \A k \in net' : IsMessage(k)
    BY <1>2 DEF CreateWithRemoteOffer, TInv
  <2>6. QED
    BY <2>1, <2>4, <2>5, TypeStep
<1>3. ASSUME NEW a \in Agents, NEW local, NEW change, ModifyLocalOffer(a, local, change)
      PROVE  TInv'
  <2> DEFINE offer == Modified(neg[a].active_local, local, change)
             r == Fields("LOCAL_OFFER", neg[a].has_remote_answer, offer, neg[a].initial,
                         neg[a].active_local, neg[a].active_remote, offer, neg[a].neg_remote)
  <2>1. Becomes(a, r)
    BY <1>3, ModifyMakes
  <2>2. IsSdp(neg[a].active_local) /\ IsNeg(neg[a]) /\ Filled(neg[a])
    BY <1>3 DEF ModifyLocalOffer, MayOffer, TInv, IsNeg, MaybeSdp
  <2>3. IsSdp(offer) /\ offer # NoSdp
    BY <2>2, ModifiedTyped, SdpIsNotNull
  <2>4. neg[a].state = "DONE" /\ neg[a].active_local # NoSdp
    BY <1>3 DEF ModifyLocalOffer, MayOffer
  <2> HIDE DEF offer
  <2>5. IsNeg(r) /\ Filled(r)
    BY <2>2, <2>3, <2>4 DEF Fields, IsNeg, Filled, MaybeSdp, States
  <2>6. said' \in [Agents -> Seq(Origins)]
    BY <1>3, <2>3, SayTyped DEF ModifyLocalOffer, offer
  <2>7. \A m \in net' : IsMessage(m)
    BY <1>3, <2>3, MessageTyped DEF ModifyLocalOffer, offer, TInv
  <2>8. QED
    BY <2>1, <2>5, <2>6, <2>7, TypeStep
<1>4. ASSUME NEW a \in Agents, SendLocalOffer(a)
      PROVE  TInv'
  <2> DEFINE r == Fields("LOCAL_OFFER", neg[a].has_remote_answer, neg[a].initial,
                         neg[a].initial, neg[a].active_local, neg[a].active_remote,
                         neg[a].active_local, neg[a].neg_remote)
  <2>1. Becomes(a, r)
    BY <1>4, SendMakes
  <2>2. IsSdp(neg[a].active_local) /\ IsNeg(neg[a]) /\ Filled(neg[a])
    BY <1>4 DEF SendLocalOffer, MayOffer, TInv, IsNeg, MaybeSdp
  <2>3. neg[a].state = "DONE" /\ neg[a].active_local # NoSdp
    BY <1>4 DEF SendLocalOffer, MayOffer
  <2>4. IsNeg(r) /\ Filled(r)
    BY <2>2, <2>3 DEF Fields, IsNeg, Filled, MaybeSdp, States
  <2>5. said' \in [Agents -> Seq(Origins)]
    BY <1>4 DEF SendLocalOffer, TInv
  <2>6. \A m \in net' : IsMessage(m)
    BY <1>4, <2>2, MessageTyped DEF SendLocalOffer, TInv
  <2>7. QED
    BY <2>1, <2>4, <2>5, <2>6, TypeStep
<1>5. ASSUME NEW a \in Agents, NEW m \in net, SetRemoteAnswer(a, m)
      PROVE  TInv'
  <2>1. PICK g : /\ g = TRUE
                 /\ Becomes(a, Fields("WAIT_NEGO", g, neg[a].initial, neg[a].initial_tmp,
                                      neg[a].active_local, neg[a].active_remote,
                                      neg[a].neg_local, m.sdp))
    BY <1>5, RemoteAnswerMakes
  <2> DEFINE r == Fields("WAIT_NEGO", g, neg[a].initial, neg[a].initial_tmp,
                         neg[a].active_local, neg[a].active_remote, neg[a].neg_local, m.sdp)
  <2>2. IsSdp(m.sdp) /\ m.sdp # NoSdp
    BY <1>5, SdpIsNotNull DEF SetRemoteAnswer, TInv, IsMessage
  <2>3. IsNeg(neg[a]) /\ Filled(neg[a]) /\ neg[a].state = "LOCAL_OFFER"
    BY <1>5 DEF SetRemoteAnswer, TInv
  <2>4. IsNeg(r) /\ Filled(r)
    BY <2>1, <2>2, <2>3 DEF Fields, IsNeg, Filled, MaybeSdp, States
  <2>5. said' \in [Agents -> Seq(Origins)] /\ \A k \in net' : IsMessage(k)
    BY <1>5 DEF SetRemoteAnswer, TInv
  <2>6. QED
    BY <2>1, <2>4, <2>5, TypeStep
<1>6. ASSUME NEW a \in Agents, NEW m \in net, SetRemoteOffer(a, m)
      PROVE  TInv'
  <2> DEFINE r == Fields("REMOTE_OFFER", neg[a].has_remote_answer, neg[a].initial,
                         neg[a].initial_tmp, neg[a].active_local, neg[a].active_remote,
                         neg[a].neg_local, m.sdp)
  <2>1. Becomes(a, r)
    BY <1>6, RemoteOfferMakes
  <2>2. IsSdp(m.sdp) /\ m.sdp # NoSdp
    BY <1>6, SdpIsNotNull DEF SetRemoteOffer, TInv, IsMessage
  <2>3. IsNeg(neg[a]) /\ Filled(neg[a]) /\ neg[a].state = "DONE"
    BY <1>6 DEF SetRemoteOffer, TInv
  <2>4. IsNeg(r) /\ Filled(r)
    BY <2>2, <2>3 DEF Fields, IsNeg, Filled, MaybeSdp, States
  <2>5. said' \in [Agents -> Seq(Origins)] /\ \A k \in net' : IsMessage(k)
    BY <1>6 DEF SetRemoteOffer, TInv
  <2>6. QED
    BY <2>1, <2>4, <2>5, TypeStep
<1>7. ASSUME NEW a \in Agents, NEW m \in net, RefuseOffer(a, m)
      PROVE  TInv'
  <2>1. \A k \in net' : IsMessage(k)
    BY <1>7, PeerIs DEF RefuseOffer, TInv, IsMessage, Message
  <2>2. QED
    BY <1>7, <2>1 DEF RefuseOffer, TInv
<1>8. ASSUME NEW a \in Agents, NEW local \in Local(a), SetLocalAnswer(a, local)
      PROVE  TInv'
  <2>1. IsSdp(local) /\ local # NoSdp
    BY FreshIsSdp, SdpIsNotNull
  <2>2. /\ IsNeg(neg[a]) /\ Filled(neg[a])
        /\ neg[a].state \in {"REMOTE_OFFER", "WAIT_NEGO"} /\ ~neg[a].has_remote_answer
    BY <1>8 DEF SetLocalAnswer, TInv
  <2>3. said' \in [Agents -> Seq(Origins)] /\ \A k \in net' : IsMessage(k)
    BY <1>8 DEF SetLocalAnswer, TInv
  <2>4. CASE neg[a].initial # NoSdp
    <3> DEFINE x == [local EXCEPT !.id = neg[a].initial.id]
               r == Fields("WAIT_NEGO", neg[a].has_remote_answer, neg[a].initial,
                           neg[a].initial, neg[a].active_local, neg[a].active_remote,
                           x, neg[a].neg_remote)
    <3>1. Becomes(a, r)
      BY <1>8, <2>4, LocalAnswerMakes
    <3>2. IsSdp(neg[a].initial)
      BY <2>2, <2>4 DEF IsNeg, MaybeSdp
    <3>3. neg[a].initial.id \in Ids
      BY <3>2 DEF IsSdp
    <3>4. IsSdp(x)
      BY <2>1, <3>3, SdpWithId
    <3>5. x # NoSdp
      BY <3>4, SdpIsNotNull
    <3> HIDE DEF x
    <3>6. IsNeg(r) /\ Filled(r)
      BY <2>2, <2>4, <3>2, <3>4, <3>5 DEF Fields, IsNeg, Filled, MaybeSdp, States
    <3>7. QED
      BY <2>3, <3>1, <3>6, TypeStep DEF x
  <2>5. CASE neg[a].initial = NoSdp
    <3> DEFINE r == Fields("WAIT_NEGO", neg[a].has_remote_answer, local,
                           neg[a].initial_tmp, neg[a].active_local, neg[a].active_remote,
                           local, neg[a].neg_remote)
    <3>1. Becomes(a, r)
      BY <1>8, <2>5, LocalAnswerMakes
    <3>2. IsNeg(r) /\ Filled(r)
      BY <2>1, <2>2, <2>5 DEF Fields, IsNeg, Filled, MaybeSdp, States
    <3>3. QED
      BY <2>3, <3>1, <3>2, TypeStep
  <2>6. QED
    BY <2>4, <2>5
<1>9. ASSUME NEW a \in Agents, neg' = [neg EXCEPT ![a] = Cancelled(@)], UNCHANGED said,
             neg[a].state \in {"LOCAL_OFFER", "REMOTE_OFFER"}, \A m \in net' : IsMessage(m)
      PROVE  TInv'
  <2> DEFINE al == IF neg[a].state = "LOCAL_OFFER" /\ neg[a].active_local # NoSdp
                   THEN [neg[a].active_local EXCEPT !.version = @ + 1]
                   ELSE neg[a].active_local
             r == Fields("DONE", FALSE, Restored(neg[a]), NoSdp, al,
                         neg[a].active_remote, NoSdp, NoSdp)
  <2>1. Becomes(a, r)
    BY <1>9, Assigned, CancelledMakes
  <2>2. IsNeg(neg[a]) /\ Filled(neg[a])
    BY DEF TInv
  <2>3. MaybeSdp(al) /\ (al = NoSdp <=> neg[a].active_local = NoSdp)
    <3>1. CASE neg[a].active_local = NoSdp
      BY <2>2, <3>1 DEF IsNeg
    <3>2. CASE neg[a].active_local # NoSdp
      <4>1. IsSdp(neg[a].active_local) /\ neg[a].active_local.version + 1 \in Nat \ {0}
        BY <2>2, <3>2 DEF IsNeg, MaybeSdp, IsSdp
      <4>2. IsSdp([neg[a].active_local EXCEPT !.version = neg[a].active_local.version + 1])
        BY <4>1, SdpWith
      <4>3. IsSdp(al)
        BY <4>1, <4>2
      <4>4. QED
        BY <3>2, <4>3, SdpIsNotNull DEF MaybeSdp
    <3>3. QED
      BY <3>1, <3>2
  <2> HIDE DEF al
  <2>4. IsNeg(r) /\ Filled(r)
    BY <1>9, <2>2, <2>3 DEF Fields, IsNeg, Filled, MaybeSdp, States, Restored
  <2>5. QED
    BY <1>9, <2>1, <2>4, TypeStep DEF TInv, al
<1>10. ASSUME NEW a \in Agents, NEW m \in net, CancelLocalOffer(a, m)
       PROVE  TInv'
  BY <1>9, <1>10 DEF CancelLocalOffer, TInv
<1>11. ASSUME NEW a \in Agents, CancelRemoteOffer(a)
       PROVE  TInv'
  <2>1. \A m \in net' : IsMessage(m)
    BY <1>11, PeerIs DEF CancelRemoteOffer, TInv, IsMessage, Message
  <2>2. QED
    BY <1>9, <1>11, <2>1 DEF CancelRemoteOffer
<1>12. ASSUME NEW a \in Agents, NEW success, NEW local, NEW remote, IsSdp(local), IsSdp(remote),
              neg' = [neg EXCEPT ![a] = Finished(neg[a], success, local, remote)],
              neg[a].state = "WAIT_NEGO",
              said' \in [Agents -> Seq(Origins)], \A m \in net' : IsMessage(m)
       PROVE  TInv'
  <2>1. IsNeg(neg[a]) /\ Filled(neg[a]) /\ local # NoSdp /\ remote # NoSdp
    BY <1>12, SdpIsNotNull DEF TInv
  <2>2. CASE success
    <3> DEFINE r == Fields("DONE", FALSE, neg[a].initial, NoSdp, local, remote, NoSdp, NoSdp)
    <3>1. Becomes(a, r)
      BY <1>12, <2>2, Assigned, FinishedMakes
    <3>2. IsNeg(r) /\ Filled(r)
      BY <1>12, <2>1 DEF Fields, IsNeg, Filled, MaybeSdp, States
    <3>3. QED
      BY <1>12, <3>1, <3>2, TypeStep
  <2>3. CASE ~success
    <3> DEFINE r == Fields("DONE", FALSE, neg[a].initial_tmp, NoSdp, neg[a].active_local,
                           neg[a].active_remote, NoSdp, NoSdp)
    <3>1. Becomes(a, r)
      BY <1>12, <2>3, Assigned, FinishedMakes
    <3>2. IsNeg(r) /\ Filled(r)
      BY <1>12, <2>1 DEF Fields, IsNeg, Filled, MaybeSdp, States
    <3>3. QED
      BY <1>12, <3>1, <3>2, TypeStep
  <2>4. QED
    BY <2>2, <2>3
<1>13. ASSUME NEW a \in Agents, NegotiateAnswer(a)
       PROVE  TInv'
  <2>1. PICK res : neg' = [neg EXCEPT ![a] = Finished(neg[a], res.success,
                     [neg[a].neg_local EXCEPT !.media = res.local],
                     [neg[a].neg_remote EXCEPT !.media = res.remote])]
    BY <1>13 DEF NegotiateAnswer
  <2>2. IsSdp(neg[a].neg_local) /\ IsSdp(neg[a].neg_remote) /\ neg[a].state = "WAIT_NEGO"
    BY <1>13 DEF NegotiateAnswer, TInv, IsNeg, Filled, MaybeSdp
  <2>3. /\ IsSdp([neg[a].neg_local EXCEPT !.media = res.local])
        /\ IsSdp([neg[a].neg_remote EXCEPT !.media = res.remote])
    <3>1. 1 \in Nat \ {0}
      OBVIOUS
    <3>2. QED
      BY <2>2, <3>1, SdpWith
  <2>4. said' \in [Agents -> Seq(Origins)] /\ \A m \in net' : IsMessage(m)
    BY <1>13 DEF NegotiateAnswer, TInv
  <2>5. QED
    BY <1>12, <2>1, <2>2, <2>3, <2>4
<1>14. ASSUME NEW a \in Agents, NegotiateOffer(a)
       PROVE  TInv'
  <2>1. PICK res :
          LET answer == AnswerMade(neg[a], res.media)
          IN  /\ neg' = [neg EXCEPT ![a] = Finished(neg[a], res.success, answer,
                                                    neg[a].neg_remote)]
              /\ IF res.success
                 THEN /\ net' = net \cup {Message(Peer(a), "answer", answer)}
                      /\ Say(a, answer)
                 ELSE /\ net' = net \cup {Message(Peer(a), "reject", NoSdp)}
                      /\ UNCHANGED said
    BY <1>14 DEF NegotiateOffer
  <2> DEFINE answer == AnswerMade(neg[a], res.media)
  <2>2. IsSdp(neg[a].neg_remote) /\ neg[a].state = "WAIT_NEGO"
    BY <1>14 DEF NegotiateOffer, TInv, IsNeg, Filled, MaybeSdp
  <2>3. IsSdp(answer)
    BY <2>2, AnswerTyped DEF TInv
  <2> HIDE DEF answer
  <2>4. said' \in [Agents -> Seq(Origins)]
    BY <2>1, <2>3, SayTyped DEF TInv, answer
  <2>5. \A m \in net' : IsMessage(m)
    BY <2>1, <2>3, MessageTyped DEF TInv, answer
  <2>6. QED
    BY <1>12, <2>1, <2>2, <2>3, <2>4, <2>5 DEF answer
<1>15. ASSUME CallEnds
       PROVE  TInv'
  <2>1. IsNeg(NoNeg) /\ Filled(NoNeg)
    BY DEF IsNeg, Filled, NoNeg, MaybeSdp, States
  <2>2. \A a \in Agents : neg'[a] = NoNeg
    BY <1>15 DEF CallEnds
  <2>3. said' \in [Agents -> Seq(Origins)]
    BY <1>15 DEF CallEnds
  <2>4. QED
    BY <1>15, <2>1, <2>2, <2>3 DEF CallEnds, TInv
<1>16. CASE UNCHANGED vars
  BY <1>16 DEF vars, TInv
<1>17. QED
  BY <1>1, <1>2, <1>3, <1>4, <1>5, <1>6, <1>7, <1>8, <1>10, <1>11, <1>13, <1>14, <1>15,
     <1>16 DEF Next

(* Each end of a call, in each state, has the descriptions it relies on.   *)
THEOREM TypeCorrect == Spec => []TypeOK
<1>1. TInv => TypeOK
  BY DEF TInv, Filled, TypeOK, IsNeg
<1>2. QED
  BY <1>1, TInvInit, TInvStep, PTL DEF Spec


-----------------------------------------------------------------------------
(* The exchange an end has begun is in one place: its offer is under way,  *)
(* or in the other end's hands, or the answer or rejection is under way.   *)
Kinds(a, kinds) == \E m \in net : m.to = a /\ m.kind \in kinds
Handling(n) == n.state = "REMOTE_OFFER" \/ (n.state = "WAIT_NEGO" /\ ~n.has_remote_answer)
Offering(n) == n.state = "LOCAL_OFFER" \/ (n.state = "WAIT_NEGO" /\ n.has_remote_answer)

Exchange(a, b) ==
  /\ Kinds(b, {"offer"}) => ~Handling(neg[b])
  /\ Kinds(b, {"offer"}) \/ Handling(neg[b]) =>
       neg[a].state = "LOCAL_OFFER" /\ ~Kinds(a, {"answer", "reject"})
  /\ Kinds(a, {"answer", "reject"}) => neg[a].state = "LOCAL_OFFER"
  /\ \A m, k \in net :
       /\ m.to = a /\ k.to = a /\ m.kind # "offer" /\ k.kind # "offer" => m = k
       /\ m.to = b /\ k.to = b /\ m.kind = "offer" /\ k.kind = "offer" => m = k
XInv == \A a \in Agents : Exchange(a, Peer(a))

LEMMA BothExchanges ==
  ASSUME NEW a \in Agents
  PROVE  /\ XInv <=> Exchange(a, Peer(a)) /\ Exchange(Peer(a), a)
         /\ XInv' <=> Exchange(a, Peer(a))' /\ Exchange(Peer(a), a)'
<1>1. Peer(a) \in Agents /\ Peer(Peer(a)) = a /\ Agents = {a, Peer(a)}
  BY PeerIs
<1>2. QED
  BY <1>1 DEF XInv

LEMMA XInvStep == TInv /\ XInv /\ [Next]_vars => XInv'
<1> SUFFICES ASSUME TInv, XInv, [Next]_vars PROVE XInv'
  OBVIOUS
<1> USE DEF Message
<1>1. ASSUME NEW a \in Agents
      PROVE  /\ Exchange(a, Peer(a)) /\ Exchange(Peer(a), a)
             /\ Peer(a) \in Agents /\ Peer(a) # a
             /\ Exchange(a, Peer(a))' /\ Exchange(Peer(a), a)' => XInv'
             /\ \A m \in net : m.to = a \/ m.to = Peer(a)
             /\ Filled(neg[a]) /\ Filled(neg[Peer(a)])
  BY BothExchanges, PeerIs DEF TInv, IsMessage
<1>2. ASSUME NEW a \in Agents, NEW local \in Local(a), CreateWithLocalOffer(a, local)
      PROVE  XInv'
  <2>1. PICK r : /\ Becomes(a, r)
                 /\ r = Fields("LOCAL_OFFER", FALSE, local, NoSdp, NoSdp, NoSdp, local, NoSdp)
    BY <1>2, CreateLocalMakes
  <2>2. QED
    BY <1>1, <1>2, <2>1 DEF CreateWithLocalOffer, Becomes, Fields, Exchange, Kinds, Handling
<1>3. ASSUME NEW a \in Agents, NEW m \in net, NEW initial \in Local(a) \cup {NoSdp},
             CreateWithRemoteOffer(a, m, initial)
      PROVE  XInv'
  <2>1. PICK r : /\ Becomes(a, r)
                 /\ r = Fields(IF initial = NoSdp THEN "REMOTE_OFFER" ELSE "WAIT_NEGO", FALSE,
                               initial, NoSdp, NoSdp, NoSdp, initial, m.sdp)
    BY <1>3, CreateRemoteMakes
  <2>2. QED
    BY <1>1, <1>3, <2>1 DEF CreateWithRemoteOffer, Becomes, Fields, Exchange, Kinds, Handling
<1>4. ASSUME NEW a \in Agents, NEW r, Becomes(a, r), r.state = "LOCAL_OFFER", MayOffer(a),
             NEW offer, net' = net \cup {Message(Peer(a), "offer", offer)}
      PROVE  XInv'
  BY <1>1, <1>4 DEF MayOffer, Becomes, Exchange, Kinds, Handling
<1>5. ASSUME NEW a \in Agents, NEW local, NEW change, ModifyLocalOffer(a, local, change)
      PROVE  XInv'
  BY <1>4, <1>5, ModifyMakes DEF ModifyLocalOffer, Fields
<1>6. ASSUME NEW a \in Agents, SendLocalOffer(a)
      PROVE  XInv'
  BY <1>4, <1>6, SendMakes DEF SendLocalOffer, Fields
<1>7. ASSUME NEW a \in Agents, NEW m \in net, SetRemoteAnswer(a, m)
      PROVE  XInv'
  <2>1. PICK g : /\ g = TRUE
                 /\ Becomes(a, Fields("WAIT_NEGO", g, neg[a].initial, neg[a].initial_tmp,
                                      neg[a].active_local, neg[a].active_remote,
                                      neg[a].neg_local, m.sdp))
    BY <1>7, RemoteAnswerMakes
  <2>2. QED
    BY <1>1, <1>7, <2>1 DEF SetRemoteAnswer, Becomes, Fields, Exchange, Kinds, Handling
<1>8. ASSUME NEW a \in Agents, NEW m \in net, SetRemoteOffer(a, m)
      PROVE  XInv'
  <2>1. Becomes(a, Fields("REMOTE_OFFER", neg[a].has_remote_answer, neg[a].initial,
                         neg[a].initial_tmp, neg[a].active_local, neg[a].active_remote,
                         neg[a].neg_local, m.sdp))
    BY <1>8, RemoteOfferMakes
  <2>2. QED
    BY <1>1, <1>8, <2>1 DEF SetRemoteOffer, Becomes, Fields, Exchange, Kinds, Handling
<1>9. ASSUME NEW a \in Agents, NEW m \in net, RefuseOffer(a, m)
      PROVE  XInv'
  <2>1. PICK rej : rej = Message(Peer(a), "reject", NoSdp)
    OBVIOUS
  <2>2. rej.to = Peer(a) /\ rej.kind = "reject" /\ net' = (net \ {m}) \cup {rej}
    BY <1>9, <2>1 DEF RefuseOffer
  <2>3. m.to = a /\ m.kind = "offer" /\ neg' = neg
    BY <1>9 DEF RefuseOffer
  <2> HIDE DEF Message
  <2>4. Exchange(Peer(a), a)'
    <3>1. /\ ~Handling(neg[a]) /\ \A k \in net : ~(k.to = Peer(a) /\ k.kind # "offer")
          /\ neg[Peer(a)].state = "LOCAL_OFFER"
          /\ \A k \in net : k.to = a /\ k.kind = "offer" => k = m
      <4>1. \A k \in net : k.kind # "offer" => k.kind \in {"answer", "reject"}
        BY DEF TInv, IsMessage
      <4>2. Kinds(a, {"offer"}) /\ Exchange(Peer(a), a)
        BY <1>1, <1>9, <2>3 DEF Kinds
      <4>3. ~Handling(neg[a]) /\ ~Kinds(Peer(a), {"answer", "reject"})
        BY <4>2 DEF Exchange
      <4>4. neg[Peer(a)].state = "LOCAL_OFFER"
        BY <4>2 DEF Exchange
      <4>5. \A k \in net : k.to = a /\ k.kind = "offer" => k = m
        BY <1>9, <2>3, <4>2 DEF Exchange
      <4>6. QED
        BY <4>1, <4>3, <4>4, <4>5 DEF Kinds
    <3>2. \A k \in net' : /\ ~(k.to = a /\ k.kind = "offer")
                          /\ k.to = Peer(a) /\ k.kind # "offer" => k = rej
      BY <1>1, <2>2, <3>1
    <3>3. QED
      BY <1>1, <2>2, <2>3, <3>1, <3>2 DEF Exchange, Kinds
  <2>5. Exchange(a, Peer(a))'
    BY <1>1, <2>2, <2>3 DEF Exchange, Kinds
  <2>6. QED
    BY <1>1, <2>4, <2>5
<1>10. ASSUME NEW a \in Agents, NEW local, SetLocalAnswer(a, local)
       PROVE  XInv'
  <2>1. \E r : /\ Becomes(a, r) /\ r.state = "WAIT_NEGO"
               /\ r.has_remote_answer = neg[a].has_remote_answer
    <3>1. ASSUME NEW i, NEW t, NEW l,
                 Becomes(a, Fields("WAIT_NEGO", neg[a].has_remote_answer, i, t,
                                   neg[a].active_local, neg[a].active_remote, l, neg[a].neg_remote))
          PROVE  \E r : /\ Becomes(a, r) /\ r.state = "WAIT_NEGO"
                        /\ r.has_remote_answer = neg[a].has_remote_answer
      <4> DEFINE r == Fields("WAIT_NEGO", neg[a].has_remote_answer, i, t,
                             neg[a].active_local, neg[a].active_remote, l, neg[a].neg_remote)
      <4>1. r.state = "WAIT_NEGO" /\ r.has_remote_answer = neg[a].has_remote_answer
        BY DEF Fields
      <4>2. QED
        BY <3>1, <4>1
    <3>2. QED
      BY <1>10, <3>1, LocalAnswerMakes
  <2>2. PICK r : /\ Becomes(a, r) /\ r.state = "WAIT_NEGO"
                 /\ r.has_remote_answer = neg[a].has_remote_answer
    BY <2>1
  <2>3. QED
    BY <1>1, <1>10, <2>2 DEF SetLocalAnswer, Becomes, Exchange, Kinds, Handling
<1>11. ASSUME NEW a \in Agents, NEW r, Becomes(a, r), r.state = "DONE", Handling(neg[a]),
              NEW kind \in {"answer", "reject"}, NEW sdp,
              net' = net \cup {Message(Peer(a), kind, sdp)}
       PROVE  XInv'
  <2>1. PICK rej : rej = Message(Peer(a), kind, sdp)
    OBVIOUS
  <2>2. rej.to = Peer(a) /\ rej.kind = kind /\ net' = net \cup {rej}
    BY <1>11, <2>1
  <2>3. /\ ~Handling(neg'[a]) /\ neg'[a].state # "LOCAL_OFFER" /\ neg'[Peer(a)] = neg[Peer(a)]
        /\ neg[a].state # "LOCAL_OFFER"
    BY <1>1, <1>11 DEF Becomes, Handling
  <2> HIDE DEF Message
  <2>4. Exchange(Peer(a), a)'
    <3>1. /\ \A k \in net : ~(k.to = Peer(a) /\ k.kind # "offer")
          /\ neg[Peer(a)].state = "LOCAL_OFFER"
          /\ \A k \in net : ~(k.to = a /\ k.kind = "offer")
      <4>1. /\ neg[Peer(a)].state = "LOCAL_OFFER" /\ ~Kinds(a, {"offer"})
            /\ ~Kinds(Peer(a), {"answer", "reject"})
        BY <1>1, <1>11 DEF Exchange
      <4>2. \A k \in net : k.kind \in {"offer", "answer", "reject"}
        BY DEF TInv, IsMessage
      <4>3. QED
        BY <4>1, <4>2 DEF Kinds
    <3>2. \A k \in net' : /\ ~(k.to = a /\ k.kind = "offer")
                          /\ k.to = Peer(a) /\ k.kind # "offer" => k = rej
      BY <1>1, <1>11, <2>2, <3>1
    <3>3. QED
      BY <1>1, <2>2, <2>3, <3>1, <3>2 DEF Exchange, Kinds
  <2>5. Exchange(a, Peer(a))'
    BY <1>1, <1>11, <2>2, <2>3 DEF Exchange, Kinds
  <2>6. QED
    BY <1>1, <2>4, <2>5
<1>12. ASSUME NEW a \in Agents, NEW n
       PROVE  Cancelled(n).state = "DONE"
  BY DEF Cancelled, Ended
<1>13. ASSUME NEW a \in Agents, NEW m \in net, CancelLocalOffer(a, m)
       PROVE  XInv'
  <2>1. PICK r : Becomes(a, r) /\ r.state = "DONE"
    BY <1>12, <1>13, Assigned DEF CancelLocalOffer
  <2>2. QED
    BY <1>1, <1>13, <2>1 DEF CancelLocalOffer, Becomes, Exchange, Kinds, Handling
<1>14. ASSUME NEW a \in Agents, CancelRemoteOffer(a)
       PROVE  XInv'
  <2>1. PICK r : Becomes(a, r) /\ r.state = "DONE"
    BY <1>12, <1>14, Assigned DEF CancelRemoteOffer
  <2>2. QED
    BY <1>1, <1>14, <1>11, <2>1 DEF CancelRemoteOffer, Handling
<1>15. ASSUME NEW n, NEW success, NEW local, NEW remote
       PROVE  Finished(n, success, local, remote).state = "DONE"
  BY DEF Finished, Ended
<1>16. ASSUME NEW a \in Agents, NegotiateAnswer(a)
       PROVE  XInv'
  <2>1. PICK r : Becomes(a, r) /\ r.state = "DONE"
    <3>1. PICK res : neg' = [neg EXCEPT ![a] = Finished(neg[a], res.success,
                     [neg[a].neg_local EXCEPT !.media = res.local],
                     [neg[a].neg_remote EXCEPT !.media = res.remote])]
      BY <1>16 DEF NegotiateAnswer
    <3>2. PICK r : r = Finished(neg[a], res.success, [neg[a].neg_local EXCEPT !.media = res.local],
                                [neg[a].neg_remote EXCEPT !.media = res.remote])
      OBVIOUS
    <3>3. neg' = [neg EXCEPT ![a] = r]
      BY <3>1, <3>2
    <3>4. r.state = "DONE"
      BY <1>15, <3>2
    <3>5. Becomes(a, r) /\ r.state = "DONE"
      BY <3>3, <3>4, Assigned
    <3>6. QED
      BY <3>5
  <2>2. neg[a].state = "WAIT_NEGO" /\ neg[a].has_remote_answer /\ net' = net
    BY <1>16 DEF NegotiateAnswer
  <2>3. neg'[a].state = "DONE" /\ neg'[Peer(a)] = neg[Peer(a)]
    BY <1>1, <2>1 DEF Becomes
  <2>4. Exchange(Peer(a), a)'
    BY <1>1, <2>2, <2>3 DEF Exchange, Kinds, Handling
  <2>5. Exchange(a, Peer(a))'
    BY <1>1, <2>2, <2>3 DEF Exchange, Kinds, Handling
  <2>6. QED
    BY <1>1, <2>4, <2>5
<1>17. ASSUME NEW a \in Agents, NegotiateOffer(a)
       PROVE  XInv'
  <2>1. PICK r : Becomes(a, r) /\ r.state = "DONE"
    <3>1. PICK res : neg' = [neg EXCEPT ![a] = Finished(neg[a], res.success,
                               AnswerMade(neg[a], res.media), neg[a].neg_remote)]
      BY <1>17 DEF NegotiateOffer
    <3>2. PICK r : r = Finished(neg[a], res.success, AnswerMade(neg[a], res.media),
                                neg[a].neg_remote)
      OBVIOUS
    <3>3. neg' = [neg EXCEPT ![a] = r]
      BY <3>1, <3>2
    <3>4. r.state = "DONE"
      BY <1>15, <3>2
    <3>5. Becomes(a, r) /\ r.state = "DONE"
      BY <3>3, <3>4, Assigned
    <3>6. QED
      BY <3>5
  <2>2. PICK kind \in {"answer", "reject"} :
          \E sdp : net' = net \cup {Message(Peer(a), kind, sdp)}
    BY <1>17 DEF NegotiateOffer
  <2>3. neg[a].state = "WAIT_NEGO" /\ ~neg[a].has_remote_answer
    BY <1>17 DEF NegotiateOffer
  <2>4. QED
    BY <1>11, <2>1, <2>2, <2>3 DEF Handling
<1>18. ASSUME CallEnds
       PROVE  XInv'
  <2>1. \A a \in Agents : neg'[a].state = "NULL"
    BY <1>18 DEF CallEnds, NoNeg
  <2>2. QED
    BY <1>1, <1>18, <2>1 DEF CallEnds, XInv, Exchange, Kinds, Handling
<1>19. CASE UNCHANGED vars
  BY <1>19 DEF vars, XInv, Exchange, Kinds
<1>20. QED
  BY <1>2, <1>3, <1>5, <1>6, <1>7, <1>8, <1>9, <1>10, <1>13, <1>14, <1>16, <1>17, <1>18,
     <1>19 DEF Next

-----------------------------------------------------------------------------
(* The first exchange of a call: an end without a session, while the other *)
(* has one, is about to get it, and an answer comes from an end that has.  *)
Begun(a, b) ==
  /\ neg[a].state = "NULL" =>
       neg[a] = NoNeg /\ said[a] = <<>> /\ neg[b].active_local = NoSdp /\ ~Handling(neg[b])
  /\ neg[a].active_local = NoSdp /\ neg[b].active_local # NoSdp =>
       Offering(neg[a]) /\ (neg[a].state = "WAIT_NEGO" \/ Kinds(a, {"answer"}))
  /\ neg[b].active_local = NoSdp /\ Kinds(a, {"offer"}) => neg[a].state = "NULL"
  /\ neg[a].has_remote_answer \/ Kinds(a, {"answer"}) => neg[b].active_local # NoSdp
FInv == \A a \in Agents : Begun(a, Peer(a))

LEMMA BothFirsts ==
  ASSUME NEW a \in Agents
  PROVE  /\ FInv <=> Begun(a, Peer(a)) /\ Begun(Peer(a), a)
         /\ FInv' <=> Begun(a, Peer(a))' /\ Begun(Peer(a), a)'
<1>1. Peer(a) \in Agents /\ Peer(Peer(a)) = a /\ Agents = {a, Peer(a)}
  BY PeerIs
<1>2. QED
  BY <1>1 DEF FInv

(* No negotiation of an answer fails: it would undo the offer at one end   *)
(* of an exchange that the other end has concluded.                        *)
NoFailure ==
  \A a \in Agents :
    neg[a].state = "WAIT_NEGO" /\ neg[a].has_remote_answer =>
      process_answer(neg[a].neg_local.media, neg[a].neg_remote.media).success

LEMMA FInvStep == TInv /\ XInv /\ FInv /\ NoFailure /\ [Next]_vars => FInv'
<1> SUFFICES ASSUME TInv, XInv, FInv, NoFailure, [Next]_vars PROVE FInv'
  OBVIOUS
<1>1. ASSUME NEW a \in Agents
      PROVE  /\ Exchange(a, Peer(a)) /\ Exchange(Peer(a), a)
             /\ Begun(a, Peer(a)) /\ Begun(Peer(a), a)
             /\ Peer(a) \in Agents /\ Peer(a) # a
             /\ Begun(a, Peer(a))' /\ Begun(Peer(a), a)' => FInv'
             /\ Filled(neg[a]) /\ Filled(neg[Peer(a)])
             /\ IsNeg(neg[a])
  BY BothExchanges, BothFirsts, PeerIs DEF TInv
<1>2. ASSUME NEW a \in Agents, NEW local \in Local(a), CreateWithLocalOffer(a, local)
      PROVE  FInv'
  <2>1. PICK r : /\ Becomes(a, r)
                 /\ r = Fields("LOCAL_OFFER", FALSE, local, NoSdp, NoSdp, NoSdp, local, NoSdp)
    BY <1>2, CreateLocalMakes
  <2>2. /\ neg'[a].state = "LOCAL_OFFER" /\ ~neg'[a].has_remote_answer
        /\ neg'[a].active_local = NoSdp /\ neg'[Peer(a)] = NoNeg /\ said'[Peer(a)] = <<>>
    <3>1. neg[Peer(a)].state = "NULL" /\ said'[Peer(a)] = said[Peer(a)]
      BY <1>1, <1>2 DEF CreateWithLocalOffer, Say, TInv
    <3>2. neg[Peer(a)] = NoNeg /\ said[Peer(a)] = <<>>
      BY <1>1, <3>1 DEF Begun
    <3>3. r.state = "LOCAL_OFFER" /\ ~r.has_remote_answer /\ r.active_local = NoSdp
      BY <2>1 DEF Fields
    <3>4. QED
      BY <1>1, <2>1, <3>1, <3>2, <3>3 DEF Becomes
  <2>3. \A k \in net' : k.to = Peer(a) /\ k.kind = "offer"
    BY <1>2 DEF CreateWithLocalOffer, Message
  <2>4. QED
    BY <1>1, <2>2, <2>3 DEF Begun, Handling, Offering, Kinds, NoNeg
<1>3. ASSUME NEW a \in Agents, NEW m \in net, NEW initial \in Local(a) \cup {NoSdp},
             CreateWithRemoteOffer(a, m, initial)
      PROVE  FInv'
  <2>1. PICK r : /\ Becomes(a, r)
                 /\ r = Fields(IF initial = NoSdp THEN "REMOTE_OFFER" ELSE "WAIT_NEGO", FALSE,
                               initial, NoSdp, NoSdp, NoSdp, initial, m.sdp)
    BY <1>3, CreateRemoteMakes
  <2>2. /\ neg'[a].state # "NULL" /\ ~neg'[a].has_remote_answer
        /\ neg'[a].active_local = NoSdp /\ neg'[Peer(a)] = neg[Peer(a)]
    BY <1>1, <2>1 DEF Becomes, Fields
  <2>3. /\ neg[a].state = "NULL" /\ m.to = a /\ m.kind = "offer" /\ net' = net \ {m}
        /\ said' = said
    BY <1>3 DEF CreateWithRemoteOffer
  <2>4. /\ neg[Peer(a)].active_local = NoSdp /\ neg[Peer(a)].state = "LOCAL_OFFER"
        /\ ~Kinds(Peer(a), {"offer"})
    BY <1>1, <1>3, <2>3 DEF Begun, Exchange, Kinds
  <2>5. ~Kinds(a, {"answer"}) /\ neg[a] = NoNeg
    BY <1>1, <2>3, <2>4 DEF Begun
  <2>6. Begun(a, Peer(a))'
    BY <1>1, <1>3, <2>2, <2>3, <2>4, <2>5 DEF Begun, Exchange, Handling, Offering, Kinds
  <2>7. Begun(Peer(a), a)'
    BY <1>1, <1>3, <2>2, <2>3, <2>4, <2>5 DEF Begun, Exchange, Handling, Offering, Kinds, NoNeg
  <2>8. QED
    BY <1>1, <2>6, <2>7
<1>4. ASSUME NEW a \in Agents, MayOffer(a), NEW r, Becomes(a, r), r.state = "LOCAL_OFFER",
             r.has_remote_answer = neg[a].has_remote_answer,
             r.active_local = neg[a].active_local,
             NEW offer, net' = net \cup {Message(Peer(a), "offer", offer)},
             said'[Peer(a)] = said[Peer(a)]
      PROVE  FInv'
  <2>1. PICK k : /\ k = Message(Peer(a), "offer", offer) /\ k.to = Peer(a) /\ k.kind = "offer"
                 /\ net' = net \cup {k}
    BY <1>4 DEF Message
  <2>2. /\ neg[a].state = "DONE" /\ neg[a].active_local # NoSdp /\ ~neg[a].has_remote_answer
        /\ neg[Peer(a)].state # "NULL"
    BY <1>1, <1>4 DEF MayOffer, Begun, Filled
  <2>3. /\ neg'[a].state = "LOCAL_OFFER" /\ ~neg'[a].has_remote_answer
        /\ neg'[a].active_local # NoSdp /\ neg'[Peer(a)] = neg[Peer(a)]
    BY <1>1, <1>4, <2>2 DEF Becomes
  <2>4. Begun(a, Peer(a))'
    BY <1>1, <2>1, <2>2, <2>3 DEF Begun, Kinds
  <2>5. Begun(Peer(a), a)'
    BY <1>1, <2>1, <2>2, <2>3 DEF Begun, Handling, Offering, Kinds
  <2>6. QED
    BY <1>1, <2>4, <2>5
<1>5. ASSUME NEW a \in Agents, NEW local, NEW change, ModifyLocalOffer(a, local, change)
      PROVE  FInv'
  <2>1. said'[Peer(a)] = said[Peer(a)]
    BY <1>1, <1>5 DEF ModifyLocalOffer, Say, TInv
  <2>2. QED
    BY <1>4, <1>5, <2>1, ModifyMakes DEF ModifyLocalOffer, Fields
<1>6. ASSUME NEW a \in Agents, SendLocalOffer(a)
      PROVE  FInv'
  BY <1>4, <1>6, SendMakes DEF SendLocalOffer, Fields
<1>7. ASSUME NEW a \in Agents, NEW m \in net, SetRemoteAnswer(a, m)
      PROVE  FInv'
  <2>1. PICK g : /\ g = TRUE
                 /\ Becomes(a, Fields("WAIT_NEGO", g, neg[a].initial, neg[a].initial_tmp,
                                      neg[a].active_local, neg[a].active_remote,
                                      neg[a].neg_local, m.sdp))
    BY <1>7, RemoteAnswerMakes
  <2>2. /\ neg'[a].state = "WAIT_NEGO" /\ neg'[a].has_remote_answer
        /\ neg'[a].active_local = neg[a].active_local /\ neg'[Peer(a)] = neg[Peer(a)]
    BY <1>1, <2>1 DEF Becomes, Fields
  <2>3. /\ neg[a].state = "LOCAL_OFFER" /\ m.to = a /\ m.kind = "answer" /\ net' = net \ {m}
        /\ said' = said
    BY <1>7 DEF SetRemoteAnswer
  <2>4. Kinds(a, {"answer"}) /\ neg[Peer(a)].active_local # NoSdp
    BY <1>1, <1>7, <2>3 DEF Kinds, Begun
  <2>5. Begun(a, Peer(a))'
    BY <1>1, <2>2, <2>3, <2>4 DEF Begun, Handling, Offering, Kinds
  <2>6. Begun(Peer(a), a)'
    BY <1>1, <2>2, <2>3, <2>4 DEF Begun, Handling, Offering, Kinds
  <2>7. QED
    BY <1>1, <2>5, <2>6
<1>8. ASSUME NEW a \in Agents, NEW m \in net, SetRemoteOffer(a, m)
      PROVE  FInv'
  <2>1. Becomes(a, Fields("REMOTE_OFFER", neg[a].has_remote_answer, neg[a].initial,
                         neg[a].initial_tmp, neg[a].active_local, neg[a].active_remote,
                         neg[a].neg_local, m.sdp))
    BY <1>8, RemoteOfferMakes
  <2>2. /\ neg'[a].state = "REMOTE_OFFER" /\ neg'[a].has_remote_answer = neg[a].has_remote_answer
        /\ neg'[a].active_local = neg[a].active_local /\ neg'[Peer(a)] = neg[Peer(a)]
    BY <1>1, <2>1 DEF Becomes, Fields
  <2>3. /\ neg[a].state = "DONE" /\ m.to = a /\ m.kind = "offer" /\ net' = net \ {m}
        /\ said' = said
    BY <1>8 DEF SetRemoteOffer
  <2>4. /\ neg[Peer(a)].state = "LOCAL_OFFER" /\ ~Kinds(Peer(a), {"offer"})
        /\ ~neg[a].has_remote_answer /\ neg[Peer(a)].active_local # NoSdp
    BY <1>1, <1>8, <2>3 DEF Begun, Exchange, Kinds, Filled
  <2>5. neg[a].active_local # NoSdp
    BY <1>1, <2>3, <2>4 DEF Begun, Offering
  <2>6. Begun(a, Peer(a))'
    BY <1>1, <2>2, <2>3, <2>4, <2>5 DEF Begun, Kinds
  <2>7. Begun(Peer(a), a)'
    BY <1>1, <2>2, <2>3, <2>4, <2>5 DEF Begun, Kinds
  <2>8. QED
    BY <1>1, <2>6, <2>7
<1>9. ASSUME NEW a \in Agents, NEW m \in net, RefuseOffer(a, m)
      PROVE  FInv'
  <2>1. PICK rej : /\ rej.to = Peer(a) /\ rej.kind = "reject" /\ net' = (net \ {m}) \cup {rej}
    BY <1>9 DEF RefuseOffer, Message
  <2>2. m.kind = "offer" /\ neg' = neg /\ said' = said
    BY <1>9 DEF RefuseOffer
  <2>3. Begun(a, Peer(a))'
    BY <1>1, <1>9, <2>1, <2>2 DEF Begun, Kinds
  <2>4. Begun(Peer(a), a)'
    BY <1>1, <1>9, <2>1, <2>2 DEF Begun, Kinds
  <2>5. QED
    BY <1>1, <2>3, <2>4
<1>10. ASSUME NEW a \in Agents, NEW local, SetLocalAnswer(a, local)
       PROVE  FInv'
  <2>1. ASSUME NEW i, NEW t, NEW l,
               Becomes(a, Fields("WAIT_NEGO", neg[a].has_remote_answer, i, t,
                                 neg[a].active_local, neg[a].active_remote, l, neg[a].neg_remote))
        PROVE  /\ neg'[a].state = "WAIT_NEGO"
               /\ neg'[a].has_remote_answer = neg[a].has_remote_answer
               /\ neg'[a].active_local = neg[a].active_local /\ neg'[Peer(a)] = neg[Peer(a)]
    BY <1>1, <2>1 DEF Becomes, Fields
  <2>2. /\ neg'[a].state = "WAIT_NEGO"
        /\ neg'[a].has_remote_answer = neg[a].has_remote_answer
        /\ neg'[a].active_local = neg[a].active_local /\ neg'[Peer(a)] = neg[Peer(a)]
    BY <1>10, <2>1, LocalAnswerMakes
  <2>3. /\ Handling(neg[a]) /\ net' = net /\ said' = said /\ ~Offering(neg[a])
        /\ ~neg[a].has_remote_answer /\ neg[a].state # "NULL"
    BY <1>10 DEF SetLocalAnswer, Handling, Offering
  <2>4. neg[Peer(a)].state # "NULL"
    BY <1>1, <2>3 DEF Exchange
  <2>5. Begun(a, Peer(a))'
    BY <1>1, <2>2, <2>3, <2>4 DEF Begun, Kinds
  <2>6. Begun(Peer(a), a)'
    BY <1>1, <2>2, <2>3, <2>4 DEF Begun, Kinds
  <2>7. QED
    BY <1>1, <2>5, <2>6
<1>11. ASSUME NEW a \in Agents, neg' = [neg EXCEPT ![a] = Cancelled(neg[a])]
       PROVE  /\ neg'[a].state = "DONE" /\ ~neg'[a].has_remote_answer
              /\ neg'[a].active_local = NoSdp <=> neg[a].active_local = NoSdp
              /\ neg'[Peer(a)] = neg[Peer(a)]
  <2>1. PICK al : al = IF neg[a].state = "LOCAL_OFFER" /\ neg[a].active_local # NoSdp
                       THEN [neg[a].active_local EXCEPT !.version = @ + 1]
                       ELSE neg[a].active_local
    OBVIOUS
  <2>2. PICK r : r = Cancelled(neg[a])
    OBVIOUS
  <2>3. r = Fields("DONE", FALSE, Restored(neg[a]), NoSdp, al, neg[a].active_remote, NoSdp, NoSdp)
    BY <2>1, <2>2, CancelledMakes
  <2>4. al = NoSdp <=> neg[a].active_local = NoSdp
    <3>1. CASE neg[a].active_local = NoSdp
      BY <2>1, <3>1
    <3>2. CASE neg[a].active_local # NoSdp
      <4>1. IsSdp(neg[a].active_local)
        BY <1>1, <3>2 DEF IsNeg, MaybeSdp
      <4>2. IsSdp(neg[a].active_local) /\ neg[a].active_local.version + 1 \in Nat \ {0}
        BY <4>1 DEF IsSdp
      <4>3. IsSdp([neg[a].active_local EXCEPT !.version = neg[a].active_local.version + 1])
        BY <4>2, SdpWith
      <4>4. IsSdp(al)
        BY <2>1, <4>2, <4>3
      <4>5. QED
        BY <3>2, <4>4, SdpIsNotNull
    <3>3. QED
      BY <3>1, <3>2
  <2>5. Becomes(a, r)
    BY <1>11, <2>2, Assigned
  <2>6. QED
    BY <1>1, <2>3, <2>4, <2>5 DEF Becomes, Fields
<1>12. ASSUME NEW a \in Agents, NEW m \in net, CancelLocalOffer(a, m)
       PROVE  FInv'
  <2>1. /\ neg'[a].state = "DONE" /\ ~neg'[a].has_remote_answer
        /\ neg'[a].active_local = NoSdp <=> neg[a].active_local = NoSdp
        /\ neg'[Peer(a)] = neg[Peer(a)]
    BY <1>11, <1>12 DEF CancelLocalOffer
  <2>2. /\ neg[a].state = "LOCAL_OFFER" /\ m.to = a /\ m.kind = "reject" /\ net' = net \ {m}
        /\ said' = said
    BY <1>12 DEF CancelLocalOffer
  <2>3. ~Kinds(a, {"answer"})
    BY <1>1, <1>12, <2>2 DEF Exchange, Kinds
  <2>4. Begun(a, Peer(a))'
    BY <1>1, <2>1, <2>2, <2>3 DEF Begun, Handling, Offering, Kinds
  <2>5. Begun(Peer(a), a)'
    BY <1>1, <2>1, <2>2, <2>3 DEF Begun, Handling, Offering, Kinds
  <2>6. QED
    BY <1>1, <2>4, <2>5
<1>13. ASSUME NEW a \in Agents, Handling(neg[a]), neg'[Peer(a)] = neg[Peer(a)],
              neg'[a].state = "DONE", ~neg'[a].has_remote_answer,
              neg'[a].active_local = NoSdp <=> neg[a].active_local = NoSdp,
              net' = net \cup {Message(Peer(a), "reject", NoSdp)}, said' = said
       PROVE  FInv'
  <2>1. PICK rej : /\ rej.to = Peer(a) /\ rej.kind = "reject" /\ net' = net \cup {rej}
    BY <1>13 DEF Message
  <2>2. /\ ~Offering(neg[a]) /\ neg[Peer(a)].state = "LOCAL_OFFER" /\ neg[a].state # "NULL"
    BY <1>1, <1>13 DEF Exchange, Handling, Offering
  <2>3. Begun(a, Peer(a))'
    BY <1>1, <1>13, <2>1, <2>2 DEF Begun, Kinds
  <2>4. Begun(Peer(a), a)'
    BY <1>1, <1>13, <2>1, <2>2 DEF Begun, Kinds
  <2>5. QED
    BY <1>1, <2>3, <2>4
<1>14. ASSUME NEW a \in Agents, CancelRemoteOffer(a)
       PROVE  FInv'
  BY <1>11, <1>13, <1>14 DEF CancelRemoteOffer, Handling
<1>15. ASSUME NEW a \in Agents, NEW success, NEW local, NEW remote, IsSdp(local),
              neg' = [neg EXCEPT ![a] = Finished(neg[a], success, local, remote)]
       PROVE  /\ neg'[a].state = "DONE" /\ ~neg'[a].has_remote_answer
              /\ success => neg'[a].active_local # NoSdp
              /\ ~success => neg'[a].active_local = neg[a].active_local
              /\ neg'[Peer(a)] = neg[Peer(a)]
  <2>1. PICK r : r = Finished(neg[a], success, local, remote)
    OBVIOUS
  <2>2. Becomes(a, r)
    BY <1>15, <2>1, Assigned
  <2>3. r.state = "DONE" /\ ~r.has_remote_answer
    BY <2>1 DEF Finished, Ended
  <2>4. (success => r.active_local = local) /\ (~success => r.active_local = neg[a].active_local)
    BY <2>1 DEF Finished, Ended
  <2>5. local # NoSdp
    BY <1>15, SdpIsNotNull
  <2>6. QED
    BY <1>1, <2>2, <2>3, <2>4, <2>5 DEF Becomes
<1>16. ASSUME NEW a \in Agents, NegotiateAnswer(a)
       PROVE  FInv'
  <2>1. PICK res : /\ neg' = [neg EXCEPT ![a] = Finished(neg[a], res.success,
                              [neg[a].neg_local EXCEPT !.media = res.local],
                              [neg[a].neg_remote EXCEPT !.media = res.remote])]
                   /\ res = process_answer(neg[a].neg_local.media, neg[a].neg_remote.media)
    BY <1>16 DEF NegotiateAnswer
  <2>2. /\ neg[a].state = "WAIT_NEGO" /\ neg[a].has_remote_answer /\ net' = net /\ said' = said
        /\ IsSdp(neg[a].neg_local)
    BY <1>16 DEF NegotiateAnswer, TInv, IsNeg, Filled, MaybeSdp
  <2>3. res.success
    BY <2>1, <2>2 DEF NoFailure
  <2>4. IsSdp([neg[a].neg_local EXCEPT !.media = res.local])
    <3>1. 1 \in Nat \ {0}
      OBVIOUS
    <3>2. QED
      BY <2>2, <3>1, SdpWith
  <2>5. /\ neg'[a].state = "DONE" /\ ~neg'[a].has_remote_answer /\ neg'[a].active_local # NoSdp
        /\ neg'[Peer(a)] = neg[Peer(a)]
    BY <1>15, <2>1, <2>3, <2>4
  <2>6. neg[Peer(a)].active_local # NoSdp /\ neg[Peer(a)].state # "NULL"
    BY <1>1, <2>2 DEF Begun, NoNeg
  <2>7. Begun(a, Peer(a))'
    BY <1>1, <2>2, <2>5, <2>6 DEF Begun, Kinds
  <2>8. Begun(Peer(a), a)'
    BY <1>1, <2>2, <2>5, <2>6 DEF Begun, Kinds
  <2>9. QED
    BY <1>1, <2>7, <2>8
<1>17. ASSUME NEW a \in Agents, NegotiateOffer(a)
       PROVE  FInv'
  <2>1. PICK res :
          LET answer == AnswerMade(neg[a], res.media)
          IN  /\ neg' = [neg EXCEPT ![a] = Finished(neg[a], res.success, answer,
                                                    neg[a].neg_remote)]
              /\ IF res.success
                 THEN /\ net' = net \cup {Message(Peer(a), "answer", answer)}
                      /\ Say(a, answer)
                 ELSE /\ net' = net \cup {Message(Peer(a), "reject", NoSdp)}
                      /\ UNCHANGED said
    BY <1>17 DEF NegotiateOffer
  <2>2. PICK answer : answer = AnswerMade(neg[a], res.media)
    OBVIOUS
  <2>3. neg[a].state = "WAIT_NEGO" /\ ~neg[a].has_remote_answer /\ Handling(neg[a])
    BY <1>17 DEF NegotiateOffer, Handling
  <2>4. IsSdp(answer)
    BY <1>1, <2>2, <2>3, AnswerTyped
  <2>5. /\ neg'[a].state = "DONE" /\ ~neg'[a].has_remote_answer
        /\ res.success => neg'[a].active_local # NoSdp
        /\ ~res.success => neg'[a].active_local = neg[a].active_local
        /\ neg'[Peer(a)] = neg[Peer(a)]
    BY <1>15, <2>1, <2>2, <2>4
  <2>6. CASE ~res.success
    BY <1>13, <2>1, <2>3, <2>5, <2>6
  <2>7. CASE res.success
    <3>1. PICK k : k.to = Peer(a) /\ k.kind = "answer" /\ net' = net \cup {k}
      BY <2>1, <2>7 DEF Message
    <3>2. neg[Peer(a)].state = "LOCAL_OFFER" /\ ~Kinds(a, {"offer"}) /\ ~Kinds(Peer(a), {"offer"})
      BY <1>1, <2>3 DEF Exchange, Handling
    <3>3. Begun(a, Peer(a))'
      BY <1>1, <2>5, <2>7, <3>1, <3>2 DEF Begun, Kinds
    <3>4. Begun(Peer(a), a)'
      BY <1>1, <2>5, <2>7, <3>1, <3>2 DEF Begun, Kinds, Offering
    <3>5. QED
      BY <1>1, <3>3, <3>4
  <2>8. QED
    BY <2>6, <2>7
<1>18. ASSUME CallEnds
       PROVE  FInv'
  <2>1. /\ \A a \in Agents : neg'[a] = NoNeg /\ said'[a] = <<>>
        /\ net' = {}
    BY <1>18 DEF CallEnds
  <2>2. \A a \in Agents : Begun(a, Peer(a))'
    <3>1. NoNeg.active_local = NoSdp /\ ~NoNeg.has_remote_answer /\ ~Handling(NoNeg)
      BY DEF NoNeg, Handling
    <3>2. QED
      BY <1>1, <2>1, <3>1 DEF Begun, Kinds
  <2>3. QED
    BY <2>2 DEF FInv
<1>19. CASE UNCHANGED vars
  BY <1>19 DEF vars, FInv, Begun, Kinds
<1>20. QED
  BY <1>2, <1>3, <1>5, <1>6, <1>7, <1>8, <1>9, <1>10, <1>12, <1>14, <1>16, <1>17, <1>18,
     <1>19 DEF Next

-----------------------------------------------------------------------------
(* The origins an end has said against the descriptions it holds: the next *)
(* one it makes will have the same id and a higher version.                *)
Ordered(s) ==
  \A i, j \in DOMAIN s : i < j => s[i].id = s[j].id /\ s[i].version < s[j].version

Versions(n, s) ==
  /\ \A i \in DOMAIN s :
       /\ Offering(n) => s[i].id = n.neg_local.id /\ s[i].version <= n.neg_local.version
       /\ n.active_local # NoSdp =>
            s[i].id = n.active_local.id /\ (~Offering(n) => s[i].version <= n.active_local.version)
  /\ n.active_local = NoSdp /\ Handling(n) => s = <<>>
  /\ n.state = "WAIT_NEGO" \/ Offering(n) => n.neg_local.id = n.initial.id
  /\ n.active_local # NoSdp =>
       /\ n.initial.id = n.active_local.id
       /\ Offering(n) => n.neg_local.version <= n.active_local.version + 1
       /\ n.state \in {"LOCAL_OFFER", "WAIT_NEGO"} => n.initial_tmp.id = n.active_local.id
VInv == \A a \in Agents : Versions(neg[a], said[a]) /\ Ordered(said[a])

LEMMA AppendOrdered ==
  ASSUME NEW s \in Seq(Origins), Ordered(s), NEW o \in Origins,
         \A i \in DOMAIN s : s[i].id = o.id /\ s[i].version < o.version
  PROVE  Ordered(Append(s, o))
BY DEF Ordered

LEMMA VStep ==
  ASSUME VInv, NEW a \in Agents, NEW r, Becomes(a, r), NEW s,
         TInv, said' = [said EXCEPT ![a] = s], Versions(r, s), Ordered(s)
  PROVE  VInv'
BY DEF VInv, Becomes, TInv

LEMMA VStepSilent ==
  ASSUME VInv, NEW a \in Agents, NEW r, Becomes(a, r), TInv, said' = said, Versions(r, said[a])
  PROVE  VInv'
BY DEF VInv, Becomes

(* A negotiator that is neither offering nor handling an offer.            *)
LEMMA VersionsDone ==
  ASSUME NEW n, n.state = "DONE", NEW s,
         n.active_local # NoSdp =>
           /\ n.initial.id = n.active_local.id
           /\ \A i \in DOMAIN s :
                s[i].id = n.active_local.id /\ s[i].version <= n.active_local.version
  PROVE  Versions(n, s)
BY DEF Versions, Offering, Handling

LEMMA VInvStep == TInv /\ XInv /\ FInv /\ VInv /\ NoFailure /\ [Next]_vars => VInv'
<1> SUFFICES ASSUME TInv, XInv, FInv, VInv, NoFailure, [Next]_vars PROVE VInv'
  OBVIOUS
<1>1. ASSUME NEW a \in Agents
      PROVE  /\ Exchange(a, Peer(a)) /\ Exchange(Peer(a), a)
             /\ Begun(a, Peer(a)) /\ Begun(Peer(a), a)
             /\ Peer(a) \in Agents /\ Peer(a) # a
             /\ Filled(neg[a]) /\ IsNeg(neg[a]) /\ said[a] \in Seq(Origins)
             /\ Versions(neg[a], said[a]) /\ Ordered(said[a])
             /\ neg[a].active_local # NoSdp =>
                  IsSdp(neg[a].active_local) /\ neg[a].active_local.version \in Nat
  <2>1. neg[a].active_local # NoSdp => IsSdp(neg[a].active_local)
    BY DEF TInv, IsNeg, MaybeSdp
  <2>2. QED
    BY <2>1, BothExchanges, BothFirsts, PeerIs DEF TInv, VInv, IsSdp
<1>2. \A a \in Agents : \A i \in DOMAIN said[a] : said[a][i].version \in Nat
  <2> SUFFICES ASSUME NEW a \in Agents, NEW i \in DOMAIN said[a]
               PROVE  said[a][i].version \in Nat
    OBVIOUS
  <2>1. said[a][i] \in Origins
    BY <1>1
  <2>2. QED
    BY <2>1 DEF Origins
<1>3. ASSUME NEW a \in Agents, NEW local \in Local(a), CreateWithLocalOffer(a, local)
      PROVE  VInv'
  <2>1. PICK r : /\ Becomes(a, r)
                 /\ r = Fields("LOCAL_OFFER", FALSE, local, NoSdp, NoSdp, NoSdp, local, NoSdp)
    BY <1>3, CreateLocalMakes
  <2>2. /\ r.state = "LOCAL_OFFER" /\ ~r.has_remote_answer /\ r.initial = local
        /\ r.active_local = NoSdp /\ r.neg_local = local
    BY <2>1 DEF Fields
  <2>3. said[a] = <<>>
    BY <1>1, <1>3 DEF Begun, CreateWithLocalOffer
  <2>4. said' = [said EXCEPT ![a] = <<Origin(local)>>]
    BY <1>3, <2>3 DEF CreateWithLocalOffer, Say
  <2>5. /\ IsSdp(local) /\ Origin(local).id = local.id /\ Origin(local).version = local.version
        /\ local.version \in Nat
    BY FreshIsSdp, OriginOf DEF IsSdp
  <2>6. Versions(r, <<Origin(local)>>)
    BY <2>2, <2>5 DEF Versions, Offering, Handling
  <2>7. Ordered(<<Origin(local)>>)
    BY DEF Ordered
  <2>8. QED
    BY <2>1, <2>4, <2>6, <2>7, VStep
<1>4. ASSUME NEW a \in Agents, NEW m \in net, NEW initial \in Local(a) \cup {NoSdp},
             CreateWithRemoteOffer(a, m, initial)
      PROVE  VInv'
  <2>1. PICK st, r : /\ Becomes(a, r)
                     /\ r = Fields(st, FALSE, initial, NoSdp, NoSdp, NoSdp, initial, m.sdp)
                     /\ st \in {"REMOTE_OFFER", "WAIT_NEGO"}
    BY <1>4, CreateRemoteMakes
  <2>2. /\ r.state = st /\ ~r.has_remote_answer /\ r.initial = initial
        /\ r.active_local = NoSdp /\ r.neg_local = initial
    BY <2>1 DEF Fields
  <2>3. said[a] = <<>> /\ said' = said
    BY <1>1, <1>4 DEF Begun, CreateWithRemoteOffer
  <2>4. Versions(r, <<>>)
    BY <2>1, <2>2 DEF Versions, Offering
  <2>5. QED
    BY <2>1, <2>3, <2>4, VStepSilent
<1>5. ASSUME NEW a \in Agents, NEW local, NEW change, ModifyLocalOffer(a, local, change)
      PROVE  VInv'
  <2>1. PICK al, offer, i, r :
          /\ al = neg[a].active_local /\ offer = Modified(al, local, change)
          /\ i = neg[a].initial
          /\ r = Fields("LOCAL_OFFER", neg[a].has_remote_answer, offer, i, al,
                        neg[a].active_remote, offer, neg[a].neg_remote)
    OBVIOUS
  <2>2. Becomes(a, r) /\ said' = [said EXCEPT ![a] = Append(said[a], Origin(offer))]
    BY <1>5, <2>1, ModifyMakes DEF ModifyLocalOffer, Say
  <2>3. /\ r.state = "LOCAL_OFFER" /\ r.initial = offer /\ r.initial_tmp = i
        /\ r.active_local = al /\ r.neg_local = offer
    BY <2>1 DEF Fields
  <2>4. neg[a].state = "DONE" /\ al # NoSdp
    BY <1>5, <2>1 DEF ModifyLocalOffer, MayOffer
  <2>5. IsSdp(al) /\ al.version \in Nat
    BY <1>1, <2>1, <2>4
  <2>6. /\ IsSdp(offer) /\ offer.id = al.id /\ offer.version = al.version + 1
        /\ Origin(offer) \in Origins
        /\ Origin(offer).id = al.id /\ Origin(offer).version = al.version + 1
    BY <2>1, <2>5, ModifiedTyped, OriginOf
  <2>7. /\ i.id = al.id
        /\ \A k \in DOMAIN said[a] : said[a][k].id = al.id /\ said[a][k].version <= al.version
    BY <1>1, <2>1, <2>4 DEF Versions, Offering
  <2>8. Ordered(Append(said[a], Origin(offer)))
    BY <1>1, <1>2, <2>5, <2>6, <2>7, AppendOrdered
  <2>9. \A k \in DOMAIN Append(said[a], Origin(offer)) :
          /\ Append(said[a], Origin(offer))[k].id = al.id
          /\ Append(said[a], Origin(offer))[k].version <= al.version + 1
    BY <1>1, <1>2, <2>5, <2>6, <2>7
  <2>10. Versions(r, Append(said[a], Origin(offer)))
    BY <2>3, <2>4, <2>5, <2>6, <2>7, <2>9 DEF Versions, Offering, Handling
  <2>11. QED
    BY <2>2, <2>8, <2>10, VStep
<1>6. ASSUME NEW a \in Agents, SendLocalOffer(a)
      PROVE  VInv'
  <2>1. PICK al, i, r :
          /\ al = neg[a].active_local /\ i = neg[a].initial
          /\ r = Fields("LOCAL_OFFER", neg[a].has_remote_answer, i, i, al,
                        neg[a].active_remote, al, neg[a].neg_remote)
    OBVIOUS
  <2>2. Becomes(a, r) /\ said' = said
    BY <1>6, <2>1, SendMakes DEF SendLocalOffer
  <2>3. /\ r.state = "LOCAL_OFFER" /\ r.initial = i /\ r.initial_tmp = i
        /\ r.active_local = al /\ r.neg_local = al
    BY <2>1 DEF Fields
  <2>4. neg[a].state = "DONE" /\ al # NoSdp
    BY <1>6, <2>1 DEF SendLocalOffer, MayOffer
  <2>5. al.version \in Nat
    BY <1>1, <2>1, <2>4
  <2>6. /\ i.id = al.id
        /\ \A k \in DOMAIN said[a] : said[a][k].id = al.id /\ said[a][k].version <= al.version
    BY <1>1, <2>1, <2>4 DEF Versions, Offering
  <2>7. Versions(r, said[a])
    BY <2>3, <2>4, <2>5, <2>6 DEF Versions, Offering, Handling
  <2>8. QED
    BY <2>2, <2>7, VStepSilent
<1>7. ASSUME NEW a \in Agents, NEW m \in net, SetRemoteAnswer(a, m)
      PROVE  VInv'
  <2>1. PICK g : /\ g = TRUE
                 /\ Becomes(a, Fields("WAIT_NEGO", g, neg[a].initial, neg[a].initial_tmp,
                                      neg[a].active_local, neg[a].active_remote,
                                      neg[a].neg_local, m.sdp))
    BY <1>7, RemoteAnswerMakes
  <2>2. PICK r : r = Fields("WAIT_NEGO", g, neg[a].initial, neg[a].initial_tmp,
                            neg[a].active_local, neg[a].active_remote, neg[a].neg_local, m.sdp)
    OBVIOUS
  <2>3. /\ r.state = "WAIT_NEGO" /\ r.has_remote_answer /\ r.initial = neg[a].initial
        /\ r.initial_tmp = neg[a].initial_tmp /\ r.active_local = neg[a].active_local
        /\ r.neg_local = neg[a].neg_local
    BY <2>1, <2>2 DEF Fields
  <2>4. neg[a].state = "LOCAL_OFFER" /\ said' = said
    BY <1>7 DEF SetRemoteAnswer
  <2>5. Versions(r, said[a])
    BY <1>1, <2>3, <2>4 DEF Versions, Offering, Handling
  <2>6. QED
    BY <2>1, <2>2, <2>4, <2>5, VStepSilent
<1>8. ASSUME NEW a \in Agents, NEW m \in net, SetRemoteOffer(a, m)
      PROVE  VInv'
  <2>1. PICK r : r = Fields("REMOTE_OFFER", neg[a].has_remote_answer, neg[a].initial,
                            neg[a].initial_tmp, neg[a].active_local, neg[a].active_remote,
                            neg[a].neg_local, m.sdp)
    OBVIOUS
  <2>2. Becomes(a, r)
    BY <1>8, <2>1, RemoteOfferMakes
  <2>3. /\ r.state = "REMOTE_OFFER" /\ r.initial = neg[a].initial
        /\ r.active_local = neg[a].active_local
    BY <2>1 DEF Fields
  <2>4. neg[a].state = "DONE" /\ m.to = a /\ m.kind = "offer" /\ said' = said
    BY <1>8 DEF SetRemoteOffer
  <2>5. neg[Peer(a)].active_local # NoSdp
    BY <1>1, <1>8, <2>4 DEF Begun, Kinds
  <2>6. neg[a].active_local # NoSdp
    BY <1>1, <2>4, <2>5 DEF Begun, Offering
  <2>7. Versions(r, said[a])
    BY <1>1, <2>3, <2>4, <2>6 DEF Versions, Offering
  <2>8. QED
    BY <2>2, <2>4, <2>7, VStepSilent
<1>9. ASSUME NEW a \in Agents, NEW local \in Local(a), SetLocalAnswer(a, local)
      PROVE  VInv'
  <2>1. /\ Handling(neg[a]) /\ ~Offering(neg[a]) /\ said' = said /\ ~neg[a].has_remote_answer
    BY <1>9 DEF SetLocalAnswer, Handling, Offering
  <2>2. CASE neg[a].initial # NoSdp
    <3>1. PICK l, r : /\ l = [local EXCEPT !.id = neg[a].initial.id]
                      /\ r = Fields("WAIT_NEGO", neg[a].has_remote_answer, neg[a].initial,
                                    neg[a].initial, neg[a].active_local, neg[a].active_remote,
                                    l, neg[a].neg_remote)
      OBVIOUS
    <3>2. Becomes(a, r)
      BY <1>9, <2>2, <3>1, LocalAnswerMakes
    <3>3. /\ r.state = "WAIT_NEGO" /\ r.has_remote_answer = neg[a].has_remote_answer
          /\ r.initial = neg[a].initial /\ r.initial_tmp = neg[a].initial
          /\ r.active_local = neg[a].active_local /\ r.neg_local = l
      BY <3>1 DEF Fields
    <3>4. l.id = neg[a].initial.id
      <4>1. IsSdp(neg[a].initial)
        BY <1>1, <2>2 DEF IsNeg, MaybeSdp
      <4>2. IsSdp(local) /\ neg[a].initial.id \in Ids
        BY <4>1, FreshIsSdp DEF IsSdp
      <4>3. QED
        BY <3>1, <4>2, SdpWithId
    <3>5. Versions(r, said[a])
      BY <1>1, <2>1, <3>3, <3>4 DEF Versions, Offering, Handling
    <3>6. QED
      BY <2>1, <3>2, <3>5, VStepSilent
  <2>3. CASE neg[a].initial = NoSdp
    <3>1. PICK r : r = Fields("WAIT_NEGO", neg[a].has_remote_answer, local,
                              neg[a].initial_tmp, neg[a].active_local, neg[a].active_remote,
                              local, neg[a].neg_remote)
      OBVIOUS
    <3>2. Becomes(a, r)
      BY <1>9, <2>3, <3>1, LocalAnswerMakes
    <3>3. /\ r.state = "WAIT_NEGO" /\ r.has_remote_answer = neg[a].has_remote_answer
          /\ r.initial = local /\ r.active_local = neg[a].active_local /\ r.neg_local = local
      BY <3>1 DEF Fields
    <3>4. neg[a].active_local = NoSdp
      BY <1>1, <2>3 DEF Filled
    <3>5. Versions(r, said[a])
      BY <1>1, <2>1, <3>3, <3>4 DEF Versions, Offering, Handling
    <3>6. QED
      BY <2>1, <3>2, <3>5, VStepSilent
  <2>4. QED
    BY <2>2, <2>3
<1>10. ASSUME NEW a \in Agents, neg' = [neg EXCEPT ![a] = Cancelled(neg[a])], said' = said,
              neg[a].state \in {"LOCAL_OFFER", "REMOTE_OFFER"}
       PROVE  VInv'
  <2>1. PICK r : r = Cancelled(neg[a])
    OBVIOUS
  <2>2. Becomes(a, r)
    BY <1>10, <2>1, Assigned
  <2>3. /\ r.state = "DONE" /\ r.initial = Restored(neg[a])
        /\ r.active_local = IF neg[a].state = "LOCAL_OFFER" /\ neg[a].active_local # NoSdp
                            THEN [neg[a].active_local EXCEPT !.version = @ + 1]
                            ELSE neg[a].active_local
    BY <2>1 DEF Cancelled, Ended
  <2>4. CASE neg[a].active_local = NoSdp
    BY <2>2, <2>3, <2>4, <1>10, VersionsDone, VStepSilent
  <2>5. CASE neg[a].active_local # NoSdp /\ neg[a].state = "REMOTE_OFFER"
    <3>1. Versions(r, said[a])
      BY <1>1, <2>3, <2>5, VersionsDone DEF Versions, Offering, Restored
    <3>2. QED
      BY <1>10, <2>2, <3>1, VStepSilent
  <2>6. CASE neg[a].active_local # NoSdp /\ neg[a].state = "LOCAL_OFFER"
    <3>1. PICK al, nl : al = neg[a].active_local /\ nl = neg[a].neg_local
      OBVIOUS
    <3>2. IsSdp(al) /\ al.version \in Nat /\ IsSdp(nl) /\ nl.version \in Nat
      BY <1>1, <2>6, <3>1 DEF Filled, IsNeg, MaybeSdp, IsSdp
    <3>3. r.active_local.id = al.id /\ r.active_local.version = al.version + 1
      <4>1. al.version + 1 \in Nat \ {0}
        BY <3>2
      <4>2. r.active_local = [al EXCEPT !.version = al.version + 1]
        BY <2>3, <2>6, <3>1
      <4>3. QED
        BY <3>2, <4>1, <4>2, SdpWith
    <3>4. /\ Offering(neg[a]) /\ r.initial = neg[a].initial_tmp
      BY <2>3, <2>6 DEF Offering, Restored
    <3>5. /\ r.initial.id = al.id /\ nl.version <= al.version + 1
          /\ \A i \in DOMAIN said[a] : said[a][i].id = al.id /\ said[a][i].version <= nl.version
      BY <1>1, <2>6, <3>1, <3>4 DEF Versions
    <3>6. \A i \in DOMAIN said[a] :
            said[a][i].id = al.id /\ said[a][i].version <= al.version + 1
      BY <1>2, <3>2, <3>5
    <3>7. Versions(r, said[a])
      BY <2>3, <3>3, <3>5, <3>6, VersionsDone
    <3>8. QED
      BY <1>10, <2>2, <3>7, VStepSilent
  <2>7. QED
    BY <1>10, <2>4, <2>5, <2>6
<1>11. ASSUME NEW a \in Agents, NEW m \in net, CancelLocalOffer(a, m)
       PROVE  VInv'
  BY <1>10, <1>11 DEF CancelLocalOffer
<1>12. ASSUME NEW a \in Agents, CancelRemoteOffer(a)
       PROVE  VInv'
  BY <1>10, <1>12 DEF CancelRemoteOffer
<1>13. ASSUME NEW a \in Agents, NegotiateAnswer(a)
       PROVE  VInv'
  <2>1. PICK res : /\ neg' = [neg EXCEPT ![a] = Finished(neg[a], res.success,
                              [neg[a].neg_local EXCEPT !.media = res.local],
                              [neg[a].neg_remote EXCEPT !.media = res.remote])]
                   /\ res = process_answer(neg[a].neg_local.media, neg[a].neg_remote.media)
    BY <1>13 DEF NegotiateAnswer
  <2>2. PICK l, x, r : /\ l = [neg[a].neg_local EXCEPT !.media = res.local]
                       /\ x = [neg[a].neg_remote EXCEPT !.media = res.remote]
                       /\ r = Finished(neg[a], res.success, l, x)
    OBVIOUS
  <2>3. /\ neg[a].state = "WAIT_NEGO" /\ neg[a].has_remote_answer /\ said' = said
        /\ IsSdp(neg[a].neg_local)
    BY <1>13 DEF NegotiateAnswer, TInv, IsNeg, Filled, MaybeSdp
  <2>4. res.success
    BY <2>1, <2>3 DEF NoFailure
  <2>5. r.state = "DONE" /\ r.initial = neg[a].initial /\ r.active_local = l
    BY <2>2, <2>4 DEF Finished, Ended
  <2>6. IsSdp(l) /\ l.id = neg[a].neg_local.id /\ l.version = neg[a].neg_local.version
    <3>1. PICK local, media : local = neg[a].neg_local /\ media = res.local
      OBVIOUS
    <3>2. IsSdp(local) /\ 1 \in Nat \ {0}
      BY <2>3, <3>1
    <3>3. /\ IsSdp([local EXCEPT !.media = media])
          /\ [local EXCEPT !.media = media].id = local.id
          /\ [local EXCEPT !.media = media].version = local.version
      BY <3>2, SdpWith
    <3>4. l = [local EXCEPT !.media = media]
      BY <2>2, <3>1
    <3>5. QED
      BY <3>1, <3>3, <3>4
  <2>7. Becomes(a, r)
    <3>1. neg' = [neg EXCEPT ![a] = r]
      BY <2>1, <2>2
    <3>2. QED
      BY <3>1, Assigned
  <2>8. Versions(r, said[a])
    BY <1>1, <2>3, <2>5, <2>6, VersionsDone DEF Versions, Offering
  <2>9. QED
    BY <2>3, <2>7, <2>8, VStepSilent
<1>14. ASSUME NEW a \in Agents, NegotiateOffer(a)
       PROVE  VInv'
  <2>1. PICK res :
          LET answer == AnswerMade(neg[a], res.media)
          IN  /\ neg' = [neg EXCEPT ![a] = Finished(neg[a], res.success, answer,
                                                    neg[a].neg_remote)]
              /\ IF res.success
                 THEN /\ net' = net \cup {Message(Peer(a), "answer", answer)}
                      /\ Say(a, answer)
                 ELSE /\ net' = net \cup {Message(Peer(a), "reject", NoSdp)}
                      /\ UNCHANGED said
    BY <1>14 DEF NegotiateOffer
  <2>2. PICK answer, r : /\ answer = AnswerMade(neg[a], res.media)
                         /\ r = Finished(neg[a], res.success, answer, neg[a].neg_remote)
    OBVIOUS
  <2>3. /\ neg[a].state = "WAIT_NEGO" /\ ~neg[a].has_remote_answer /\ Handling(neg[a])
        /\ ~Offering(neg[a])
    BY <1>14 DEF NegotiateOffer, Handling, Offering
  <2>4. Becomes(a, r)
    <3>1. neg' = [neg EXCEPT ![a] = r]
      BY <2>1, <2>2
    <3>2. QED
      BY <3>1, Assigned
  <2>5. CASE ~res.success
    <3>1. /\ r.state = "DONE" /\ r.initial = neg[a].initial_tmp
          /\ r.active_local = neg[a].active_local /\ said' = said
      BY <2>1, <2>2, <2>5 DEF Finished, Ended
    <3>2. ASSUME neg[a].active_local # NoSdp
          PROVE  /\ r.initial.id = r.active_local.id
                 /\ \A i \in DOMAIN said[a] :
                      /\ said[a][i].id = r.active_local.id
                      /\ said[a][i].version <= r.active_local.version
      BY <1>1, <2>3, <3>1, <3>2 DEF Versions
    <3>3. Versions(r, said[a])
      BY <3>1, <3>2, VersionsDone
    <3>4. QED
      BY <2>4, <3>1, <3>3, VStepSilent
  <2>6. CASE res.success
    <3>1. /\ r.state = "DONE" /\ r.initial = neg[a].initial /\ r.active_local = answer
          /\ said' = [said EXCEPT ![a] = Append(said[a], Origin(answer))]
      BY <2>1, <2>2, <2>6 DEF Finished, Ended, Say
    <3>2. /\ IsSdp(answer) /\ answer.id = neg[a].neg_local.id /\ answer.version \in Nat
          /\ neg[a].active_local # NoSdp => answer.version = neg[a].active_local.version + 1
      BY <1>1, <2>2, <2>3, AnswerTyped, ZenonT(30) DEF IsSdp
    <3>3. /\ Origin(answer) \in Origins
          /\ Origin(answer).id = answer.id /\ Origin(answer).version = answer.version
      BY <3>2, OriginOf
    <3>4. answer.id = neg[a].initial.id
      BY <1>1, <2>3, <3>2 DEF Versions
    <3>5. \A k \in DOMAIN said[a] :
            said[a][k].id = answer.id /\ said[a][k].version < answer.version
      <4>1. CASE neg[a].active_local = NoSdp
        BY <1>1, <2>3, <4>1 DEF Versions
      <4>2. CASE neg[a].active_local # NoSdp
        BY <1>1, <1>2, <2>3, <3>2, <3>4, <4>2 DEF Versions
      <4>3. QED
        BY <4>1, <4>2
    <3>6. Ordered(Append(said[a], Origin(answer)))
      BY <1>1, <3>3, <3>5, AppendOrdered
    <3>7. \A k \in DOMAIN Append(said[a], Origin(answer)) :
            /\ Append(said[a], Origin(answer))[k].id = answer.id
            /\ Append(said[a], Origin(answer))[k].version <= answer.version
      BY <1>1, <1>2, <3>2, <3>3, <3>5
    <3>8. Versions(r, Append(said[a], Origin(answer)))
      BY <3>1, <3>4, <3>7, VersionsDone
    <3>9. QED
      BY <2>4, <3>1, <3>6, <3>8, VStep
  <2>7. QED
    BY <2>5, <2>6
<1>15. ASSUME CallEnds
       PROVE  VInv'
  <2>1. \A a \in Agents : neg'[a] = NoNeg /\ said'[a] = <<>>
    BY <1>15 DEF CallEnds
  <2>2. Versions(NoNeg, <<>>) /\ Ordered(<<>>)
    BY DEF Versions, Ordered, NoNeg, Offering, Handling
  <2>3. QED
    BY <2>1, <2>2 DEF VInv
<1>16. CASE UNCHANGED vars \/ \E a \in Agents, m \in net : RefuseOffer(a, m)
  BY <1>16 DEF vars, VInv, RefuseOffer
<1>17. QED
  BY <1>3, <1>4, <1>5, <1>6, <1>7, <1>8, <1>9, <1>11, <1>12, <1>13, <1>14, <1>15,
     <1>16 DEF Next

-----------------------------------------------------------------------------
IInv == TInv /\ XInv /\ FInv /\ VInv

LEMMA IInvInit == Init => IInv
<1> SUFFICES ASSUME Init PROVE IInv
  OBVIOUS
<1>1. TInv
  BY TInvInit
<1>2. /\ \A a \in Agents : neg[a] = NoNeg /\ said[a] = <<>>
      /\ net = {}
  BY DEF Init
<1>3. /\ NoNeg.active_local = NoSdp /\ ~NoNeg.has_remote_answer /\ ~Handling(NoNeg)
      /\ NoNeg.state = "NULL"
  BY DEF NoNeg, Handling
<1>4. XInv
  BY <1>2, <1>3, PeerIs DEF XInv, Exchange, Kinds
<1>5. FInv
  BY <1>2, <1>3, PeerIs DEF FInv, Begun, Kinds
<1>6. VInv
  BY <1>2, <1>3 DEF VInv, Versions, Ordered, Offering
<1>7. QED
  BY <1>1, <1>4, <1>5, <1>6 DEF IInv

(* The descriptions an end makes in a call keep their id and have ever     *)
(* higher versions, whatever is offered, refused, cancelled or fails in    *)
(* between, as long as no negotiation of an answer fails.                  *)
THEOREM SessionCorrect == Spec /\ []NoFailure => []SessionSound
<1>1. IInv /\ NoFailure /\ [Next]_vars => IInv'
  BY TInvStep, XInvStep, FInvStep, VInvStep DEF IInv
<1>2. IInv => OneSession
  BY DEF IInv, VInv, Ordered, OneSession
<1>3. Spec => []TypeOK
  BY TypeCorrect
<1>4. Spec /\ []NoFailure => []OneSession
  BY <1>1, <1>2, IInvInit, PTL DEF Spec
<1>5. TypeOK /\ OneSession => SessionSound
  BY DEF SessionSound
<1>6. QED
  BY <1>3, <1>4, <1>5, PTL
=============================================================================
