------------------------------- MODULE SdpNeg -------------------------------
(***************************************************************************)
(* The SDP negotiator (sdp_neg.c) on both ends of a call.                  *)
(*                                                                         *)
(* neg[a] is the struct pjmedia_sdp_neg of agent a, one action per         *)
(* function of the negotiator.  The signalling between the agents is       *)
(* external: net is the set of messages under way, an offer, the answer to *)
(* it or its rejection, in any order.  An offer that arrives while the     *)
(* negotiator cannot take one is rejected (glare), an agent may reject an  *)
(* offer it has taken, and a call without a session is given up.           *)
(*                                                                         *)
(* said[a] is history: the origins of the descriptions that agent a has    *)
(* made (modified offers and answers), oldest first.                       *)
(***************************************************************************)
EXTENDS SdpDescr, FiniteSets

CONSTANTS A, B,             \* the two agents
          Caps,             \* Caps[a]: the media lines agent a may put forward
          MediaChange,      \* flags given to modify_local_offer2
          Prefer, Multiple, \* agents that take the remote's order; several codecs
          MaxVersion        \* bound: no offer is started from a version this high

Agents == {A, B}
NoSdp == [id |-> <<>>, version |-> 0, media |-> <<>>]    \* a null pointer
Peer(a) == CHOOSE b \in Agents : b # a

ASSUME SdpNegAssumption ==
  /\ A # B /\ MediaChange \subseteq BOOLEAN /\ MaxVersion \in Nat
  /\ Prefer \subseteq Agents /\ Multiple \subseteq Agents

VARIABLES neg, net, said
vars == <<neg, net, said>>

NoNeg == [state |-> "NULL", has_remote_answer |-> FALSE,
          initial |-> NoSdp, initial_tmp |-> NoSdp,
          active_local |-> NoSdp, active_remote |-> NoSdp,
          neg_local |-> NoSdp, neg_remote |-> NoSdp]

Init == /\ neg = [a \in Agents |-> NoNeg]
        /\ net = {}
        /\ said = [a \in Agents |-> <<>>]

Message(to, kind, sdp) == [to |-> to, kind |-> kind, sdp |-> sdp]
Origin(sdp) == [id |-> sdp.id, version |-> sdp.version]

(* A description an application has just made: its lines stand for the     *)
(* random id of its origin.                                                *)
Fresh(a, media) == [id |-> media, version |-> 1, media |-> media]
Local(a) == {Fresh(a, Caps[a][i]) : i \in DOMAIN Caps[a]}

MayOffer(a) ==
  /\ neg[a].state = "DONE" /\ neg[a].active_local # NoSdp
  /\ \A b \in Agents : neg[b].active_local # NoSdp => neg[b].active_local.version < MaxVersion
Say(a, sdp) == said' = [said EXCEPT ![a] = Append(@, Origin(sdp))]

-----------------------------------------------------------------------------
(* pjmedia_sdp_neg_create_w_local_offer, for the first offer of a call.    *)
CreateWithLocalOffer(a, local) ==
  /\ neg[a].state = "NULL" /\ neg[Peer(a)].state = "NULL" /\ net = {}
  /\ Say(a, local)
  /\ neg' = [neg EXCEPT ![a] = [NoNeg EXCEPT !.state = "LOCAL_OFFER",
                                  !.initial = local, !.neg_local = local]]
  /\ net' = {Message(Peer(a), "offer", local)}

(* pjmedia_sdp_neg_create_w_remote_offer, initial may be NULL.             *)
CreateWithRemoteOffer(a, m, initial) ==
  /\ m.to = a /\ m.kind = "offer" /\ neg[a].state = "NULL"
  /\ neg' = [neg EXCEPT ![a] =
       [NoNeg EXCEPT !.state = IF initial = NoSdp THEN "REMOTE_OFFER" ELSE "WAIT_NEGO",
                     !.initial = initial, !.neg_local = initial, !.neg_remote = m.sdp]]
  /\ net' = net \ {m}
  /\ UNCHANGED said

(* pjmedia_sdp_neg_modify_local_offer2.  active_local_sdp is read without  *)
(* a test: agents without a session do not get here (MayOffer).            *)
Modified(old, local, change) ==
  [id |-> old.id, version |-> old.version + 1,
   media |-> IF change THEN PaddedTo(local.media, old.media) ELSE NewOffer(local.media, old.media)]

ModifyLocalOffer(a, local, change) ==
  LET offer == Modified(neg[a].active_local, local, change)
  IN  /\ MayOffer(a) /\ Say(a, offer)
      /\ neg' = [neg EXCEPT ![a] = [@ EXCEPT !.state = "LOCAL_OFFER", !.initial_tmp = neg[a].initial,
                                             !.initial = offer, !.neg_local = offer]]
      /\ net' = net \cup {Message(Peer(a), "offer", offer)}

(* pjmedia_sdp_neg_send_local_offer: the active description is the offer.  *)
SendLocalOffer(a) ==
  /\ MayOffer(a)
  /\ neg' = [neg EXCEPT ![a] = [@ EXCEPT !.state = "LOCAL_OFFER", !.initial_tmp = neg[a].initial,
                                         !.neg_local = neg[a].active_local]]
  /\ net' = net \cup {Message(Peer(a), "offer", neg[a].active_local)}
  /\ UNCHANGED said

(* pjmedia_sdp_neg_set_remote_answer, the answer is not validated.         *)
SetRemoteAnswer(a, m) ==
  /\ m.to = a /\ m.kind = "answer" /\ neg[a].state = "LOCAL_OFFER"
  /\ neg' = [neg EXCEPT ![a] = [@ EXCEPT !.state = "WAIT_NEGO", !.has_remote_answer = TRUE,
                                         !.neg_remote = m.sdp]]
  /\ net' = net \ {m}
  /\ UNCHANGED said

(* pjmedia_sdp_neg_set_remote_offer.                                       *)
SetRemoteOffer(a, m) ==
  /\ m.to = a /\ m.kind = "offer" /\ neg[a].state = "DONE"
  /\ neg' = [neg EXCEPT ![a] = [@ EXCEPT !.state = "REMOTE_OFFER", !.neg_remote = m.sdp]]
  /\ net' = net \ {m}
  /\ UNCHANGED said

(* PJMEDIA_SDPNEG_EINSTATE: the offer is rejected.                         *)
RefuseOffer(a, m) ==
  /\ m.to = a /\ m.kind = "offer" /\ neg[a].state \notin {"NULL", "DONE"}
  /\ net' = (net \ {m}) \cup {Message(Peer(a), "reject", NoSdp)}
  /\ UNCHANGED <<neg, said>>

(* pjmedia_sdp_neg_set_local_answer, by the agent that has the offer; it   *)
(* may be called again before negotiation.                                 *)
Answered(n, local) ==
  IF n.initial # NoSdp
  THEN [n EXCEPT !.state = "WAIT_NEGO", !.initial_tmp = n.initial,
                 !.neg_local = [local EXCEPT !.id = n.initial.id]]
  ELSE [n EXCEPT !.state = "WAIT_NEGO", !.initial = local, !.neg_local = local]

SetLocalAnswer(a, local) ==
  /\ neg[a].state \in {"REMOTE_OFFER", "WAIT_NEGO"} /\ ~neg[a].has_remote_answer
  /\ neg' = [neg EXCEPT ![a] = Answered(@, local)]
  /\ UNCHANGED <<net, said>>

(* The offer is over, well or badly: what negotiate and cancel leave.      *)
Ended(initial, local, remote) ==
  [state |-> "DONE", has_remote_answer |-> FALSE,
   initial |-> initial, initial_tmp |-> NoSdp,
   active_local |-> local, active_remote |-> remote,
   neg_local |-> NoSdp, neg_remote |-> NoSdp]

(* pjmedia_sdp_neg_cancel_offer.  (Fault: the active description keeps     *)
(* its version.)                                                           *)
Restored(n) == IF n.state = "LOCAL_OFFER" THEN n.initial_tmp ELSE n.initial
CancelledOnly(n) == Ended(Restored(n), n.active_local, n.active_remote)
Cancelled(n) ==
  Ended(Restored(n),
        IF n.state = "LOCAL_OFFER" /\ n.active_local # NoSdp
        THEN [n.active_local EXCEPT !.version = @ + 1] ELSE n.active_local,
        n.active_remote)

CancelLocalOffer(a, m) ==
  /\ m.to = a /\ m.kind = "reject" /\ neg[a].state = "LOCAL_OFFER"
  /\ neg' = [neg EXCEPT ![a] = Cancelled(@)]
  /\ net' = net \ {m}
  /\ UNCHANGED said

CancelRemoteOffer(a) ==
  /\ neg[a].state = "REMOTE_OFFER"
  /\ neg' = [neg EXCEPT ![a] = Cancelled(@)]
  /\ net' = net \cup {Message(Peer(a), "reject", NoSdp)}
  /\ UNCHANGED said

-----------------------------------------------------------------------------
(* pjmedia_sdp_neg_negotiate.  It ends in DONE whatever the result; only   *)
(* success changes the active descriptions, failure takes initial_sdp back.*)
(* (Fault: the active descriptions are set by a failure too.)              *)
FinishedAnyway(n, success, local, remote) ==
  Ended(IF success THEN n.initial ELSE n.initial_tmp, local, remote)
Finished(n, success, local, remote) ==
  IF success THEN Ended(n.initial, local, remote)
             ELSE Ended(n.initial_tmp, n.active_local, n.active_remote)

(* ... of a local offer and the remote answer.                             *)
NegotiateAnswer(a) ==
  LET n == neg[a]
  IN  /\ n.state = "WAIT_NEGO" /\ n.has_remote_answer
      /\ \E res \in {process_answer(n.neg_local.media, n.neg_remote.media)} :
           neg' = [neg EXCEPT ![a] = Finished(n, res.success,
                     [n.neg_local EXCEPT !.media = res.local],
                     [n.neg_remote EXCEPT !.media = res.remote])]
      /\ UNCHANGED <<net, said>>

(* ... of a remote offer and local capabilities.  The answer made is sent, *)
(* without one the offer is rejected.                                      *)
AnswerMade(n, media) ==
  [n.neg_local EXCEPT !.media = media,
     !.version = (IF n.active_local # NoSdp THEN n.active_local ELSE n.initial).version + 1]

NegotiateOffer(a) ==
  LET n == neg[a]
  IN  /\ n.state = "WAIT_NEGO" /\ ~n.has_remote_answer
      /\ \E res \in {create_answer(a \in Prefer, a \in Multiple,
                                   n.neg_local.media, n.neg_remote.media)} :
           LET answer == AnswerMade(n, res.media)
           IN  /\ neg' = [neg EXCEPT ![a] = Finished(n, res.success, answer, n.neg_remote)]
               /\ IF res.success
                  THEN /\ net' = net \cup {Message(Peer(a), "answer", answer)}
                       /\ Say(a, answer)
                  ELSE /\ net' = net \cup {Message(Peer(a), "reject", NoSdp)}
                       /\ UNCHANGED said

(* External: the call ends when nothing is going on, at the latest when    *)
(* its first exchange came to nothing.                                     *)
CallEnds ==
  /\ net = {} /\ \E a \in Agents : neg[a].state = "DONE"
  /\ \A a \in Agents : neg[a].state \in {"NULL", "DONE"}
  /\ neg' = [a \in Agents |-> NoNeg]
  /\ said' = [a \in Agents |-> <<>>]
  /\ UNCHANGED net

Next ==
  \/ \E a \in Agents :
       \/ \E local \in Local(a) : CreateWithLocalOffer(a, local) \/ SetLocalAnswer(a, local)
       \/ \E local \in Local(a), change \in MediaChange : ModifyLocalOffer(a, local, change)
       \/ SendLocalOffer(a) \/ CancelRemoteOffer(a)
       \/ NegotiateAnswer(a) \/ NegotiateOffer(a)
       \/ \E m \in net :
            \/ \E initial \in Local(a) \cup {NoSdp} : CreateWithRemoteOffer(a, m, initial)
            \/ SetRemoteAnswer(a, m) \/ SetRemoteOffer(a, m) \/ RefuseOffer(a, m)
            \/ CancelLocalOffer(a, m)
  \/ CallEnds

Spec == Init /\ [][Next]_vars

-----------------------------------------------------------------------------
States == {"NULL", "LOCAL_OFFER", "REMOTE_OFFER", "WAIT_NEGO", "DONE"}

(* Type correctness of the negotiators, with what each state has.          *)
TypeOK ==
  \A a \in Agents :
    LET n == neg[a]
    IN  /\ n.state \in States /\ n.has_remote_answer \in BOOLEAN
        /\ n.has_remote_answer => n.state = "WAIT_NEGO"
        /\ n.state \in {"LOCAL_OFFER", "WAIT_NEGO"} => n.neg_local # NoSdp
        /\ n.state \in {"REMOTE_OFFER", "WAIT_NEGO"} => n.neg_remote # NoSdp
        /\ (n.active_local = NoSdp) = (n.active_remote = NoSdp)
        /\ n.active_local # NoSdp => n.initial # NoSdp

(* One line as one party has it against the same line as the other has it. *)
Codecs(m) == [i \in DOMAIN m.fmt |-> [pt |-> m.fmt[i].pt, enc |-> m.fmt[i].enc]]
LineAgrees(here, there) ==
  /\ here.media = there.media
  /\ here.port = there.port
  /\ here.port => here.dir = Opposite(there.dir) /\ Codecs(here) = Codecs(there)

(* When no message is under way and neither end is negotiating, both ends  *)
(* have a session or neither has, and what one has as its local lines the  *)
(* other has as the remote ones: the same lines are active, in the same    *)
(* codecs and payload types, and one sends where the other receives.       *)
Quiet == net = {} /\ \A a \in Agents : neg[a].state \in {"NULL", "DONE"}
Agreement ==
  Quiet =>
    \A a \in Agents :
      LET here == neg[a].active_local
          there == neg[Peer(a)].active_local
      IN  /\ (here = NoSdp) = (there = NoSdp)
          /\ here # NoSdp =>
               /\ Len(here.media) = Len(there.media)
               /\ Len(neg[a].active_remote.media) = Len(here.media)
               /\ \A i \in DOMAIN here.media : LineAgrees(here.media[i], there.media[i])

(* An answer on its way fits the offer its receiver has made: line by line *)
(* the same types, nothing active that was not offered, no format and no   *)
(* payload type that was not offered, one codec unless the answerer allows *)
(* several, and no direction the offer excludes.                           *)
Fits(answer, offer, several) ==
  /\ answer.media = offer.media
  /\ answer.port =>
       /\ offer.port
       /\ \A i \in DOMAIN answer.fmt : \E j \in DOMAIN offer.fmt :
            answer.fmt[i].pt = offer.fmt[j].pt /\ answer.fmt[i].enc = offer.fmt[j].enc
       /\ several \/ Cardinality({i \in DOMAIN answer.fmt : answer.fmt[i].enc # TelEvent}) <= 1
       /\ answer.dir \subseteq Opposite(offer.dir)
AnswerFits ==
  \A m \in net : m.kind = "answer" =>
    LET offer == neg[m.to].neg_local
    IN  /\ neg[m.to].state = "LOCAL_OFFER"
        /\ Len(m.sdp.media) = Len(offer.media)
        /\ \A i \in DOMAIN offer.media :
             Fits(m.sdp.media[i], offer.media[i], Peer(m.to) \in Multiple)

(* The descriptions an agent makes in a call keep the id of the first one  *)
(* and have ever higher versions, through rejected offers, offers that     *)
(* cannot be answered and answers in between, as long as every answer made *)
(* is taken by the agent that has made the offer.  sdp_neg.c:1426 raises   *)
(* the version of a rejected offer for that; nothing does so where the     *)
(* negotiation of the answer fails (:1489, :1515), and the next offer then *)
(* repeats the version.                                                    *)
OneSession ==
  \A a \in Agents : \A i, j \in DOMAIN said[a] :
    i < j => said[a][i].id = said[a][j].id /\ said[a][i].version < said[a][j].version

(* The negotiator's own fields and what its user has been given by them.   *)
SessionSound == TypeOK /\ OneSession

(* A session never loses a line, and a line never changes its type, on     *)
(* either end (when offers do not allow media change).                     *)
LinesStay ==
  [][\A a \in Agents :
       LET old == neg[a].active_local
           new == neg'[a].active_local
       IN  old # NoSdp /\ new # NoSdp =>
             /\ Len(old.media) <= Len(new.media)
             /\ TRUE \in MediaChange \/
                \A i \in DOMAIN old.media : old.media[i].media = new.media[i].media]_vars
=============================================================================
