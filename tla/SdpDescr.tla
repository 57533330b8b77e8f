------------------------------ MODULE SdpDescr ------------------------------
(***************************************************************************)
(* Session descriptions and the two algorithms of the SDP negotiator       *)
(* (sdp_neg.c) that compare them: the answer made for an offer, and the    *)
(* offer cut down to what its answer accepts.                              *)
(*                                                                         *)
(* A description is its origin (id, version) and its media lines.  A line  *)
(* has its media type, whether its port is not zero, its direction and its *)
(* formats.  A format is a payload type with what its rtpmap says: the     *)
(* encoding and the parameter (number of channels), "" when absent.        *)
(***************************************************************************)
EXTENDS Integers, Sequences, SequencesExt

CONSTANTS TelEvent      \* the encoding telephone-event

(* A direction is what a party does: {"send", "recv"} is sendrecv, the     *)
(* direction of a line that has no direction attribute.                    *)
SendRecv == {"send", "recv"}
Opposite(dir) == (IF "send" \in dir THEN {"recv"} ELSE {})
                 \cup (IF "recv" \in dir THEN {"send"} ELSE {})

(* Fault: an inactive peer is taken for one that sends and receives.       *)
DirectionDefaulted(remote, local) ==
  IF remote.dir = {} THEN local
  ELSE [local EXCEPT !.dir = @ \cap Opposite(remote.dir)]
update_media_direction(remote, local) ==
  [local EXCEPT !.dir = @ \cap Opposite(remote.dir)]

(* The port goes, and all attributes with it.                              *)
Deactivated(m) == [m EXCEPT !.port = FALSE, !.dir = SendRecv]

IsActive(media) == \E i \in DOMAIN media : media[i].port

First(S) == CHOOSE i \in S : \A j \in S : i <= j

-----------------------------------------------------------------------------
(* The answer to an offer.  An absent parameter means one channel.         *)
MatchesOffer(f, g) ==
  f.enc = g.enc /\ (f.param = g.param \/ {f.param, g.param} = {"", "1"})

(* apply_answer_symmetric_pt: the answer's format under the offer's        *)
(* payload type.  (Fault: the payload types of the answer are kept.)       *)
KeptPt(preanswer, offer) == preanswer
SymmetricPt(preanswer, offer) == [preanswer EXCEPT !.pt = offer.pt]

(* The formats of the answer: those of the preferred side in its order,    *)
(* each that has a match on the other, one codec unless several are        *)
(* allowed, and one telephone-event.                                       *)
HasCodec(fmt) == \E i \in DOMAIN fmt : fmt[i].enc # TelEvent

Paired(prefer_remote, multiple, offer, preanswer) ==
  LET master == IF prefer_remote THEN offer ELSE preanswer
      slave  == IF prefer_remote THEN preanswer ELSE offer
  IN  FoldLeftDomain(LAMBDA fmt, i :
        LET f == master[i]
            hits == {j \in DOMAIN slave : MatchesOffer(f, slave[j])}
            g == slave[First(hits)]
            done == \E k \in DOMAIN fmt :
                       IF f.enc = TelEvent THEN fmt[k].enc = TelEvent
                       ELSE ~multiple /\ fmt[k].enc # TelEvent
        IN  IF done \/ hits = {} THEN fmt
            ELSE Append(fmt, IF prefer_remote THEN SymmetricPt(g, f) ELSE SymmetricPt(f, g)),
        <<>>, master)

Refused == <<>>
match_offer(prefer_remote, multiple, offer, preanswer) ==
  LET master == IF prefer_remote THEN offer.fmt ELSE preanswer.fmt
      chosen == Paired(prefer_remote, multiple, offer.fmt, preanswer.fmt)
  IN  CASE ~offer.port     -> <<Deactivated(offer)>>
        [] offer.port /\ ~preanswer.port -> <<preanswer>>
        [] OTHER -> IF HasCodec(master) /\ ~HasCodec(chosen) THEN Refused
                    ELSE <<update_media_direction(offer, [preanswer EXCEPT !.fmt = chosen])>>

(* create_answer.  Every line of the offer is answered by the first of the *)
(* initial lines of its type that is not used yet and matches, or is       *)
(* rejected.  The validation of the offer sets status to PJ_SUCCESS, so    *)
(* that only a line that was compared and refused makes a negotiation      *)
(* without active media fail.                                              *)
AnswerLine(acc, om, free, fits) ==
  LET good == {j \in free : fits[j] # Refused}
  IN  IF good = {}
      THEN [acc EXCEPT !.media = Append(@, Deactivated(om)), !.refused = @ \/ free # {}]
      ELSE [media   |-> Append(acc.media, fits[First(good)][1]),
            used    |-> acc.used \cup {First(good)},
            refused |-> acc.refused \/ \E j \in free : j < First(good)]

WithStatus(res) == [media |-> res.media, success |-> IsActive(res.media) \/ ~res.refused]

create_answer(prefer_remote, multiple, initial, offer) ==
  LET Free(acc, om) ==
        {j \in DOMAIN initial : initial[j].media = om.media /\ j \notin acc.used}
      Fits(om) ==
        [j \in DOMAIN initial |-> match_offer(prefer_remote, multiple, om, initial[j])]
  IN  WithStatus(FoldLeftDomain(
        LAMBDA acc, i : AnswerLine(acc, offer[i], Free(acc, offer[i]), Fits(offer[i])),
        [media |-> <<>>, used |-> {}, refused |-> FALSE], offer))

-----------------------------------------------------------------------------
(* The offer after its answer.  The comparison of parameters is not that   *)
(* of match_offer.                                                         *)
MatchesAnswer(o, a) == o.enc = a.enc /\ (o.param = a.param \/ a.param = "1")

(* The offer's formats in the order of the answer's, and of the answer's   *)
(* those that are the next match.                                          *)
Prior(o, fmt) == First({j \in DOMAIN fmt : MatchesAnswer(o, fmt[j])})
Accepted(ofmt, afmt) ==
  SortSeq(SelectSeq(ofmt, LAMBDA o : \E j \in DOMAIN afmt : MatchesAnswer(o, afmt[j])),
          LAMBDA o, p : Prior(o, afmt) < Prior(p, afmt))
Remaining(accepted, afmt) ==
  FoldLeftDomain(LAMBDA kept, j :
    IF Len(kept) < Len(accepted) /\ Prior(accepted[Len(kept) + 1], afmt) = j
    THEN Append(kept, afmt[j]) ELSE kept, <<>>, afmt)

process_m_answer(offer, answer) ==
  LET fmt == Accepted(offer.fmt, answer.fmt)
  IN  CASE answer.media # offer.media ->
             [status |-> "EINVANSMEDIA", offer |-> Deactivated(offer), answer |-> answer]
        [] answer.media = offer.media /\ ~answer.port ->
             [status |-> "SUCCESS", offer |-> Deactivated(offer), answer |-> answer]
        [] answer.media = offer.media /\ answer.port /\ ~offer.port ->
             [status |-> "SUCCESS", offer |-> offer, answer |-> answer]
        [] OTHER ->
             IF fmt = <<>>
             THEN [status |-> "EANSNOMEDIA", offer |-> Deactivated(offer),
                   answer |-> Deactivated(answer)]
             ELSE [status |-> "SUCCESS",
                   offer  |-> [update_media_direction(answer, offer) EXCEPT !.fmt = fmt],
                   answer |-> [answer EXCEPT !.fmt = Remaining(fmt, @)]]

(* process_answer: a line that is missing in the answer is rejected; one   *)
(* of another type does not use up the answer's line.                      *)
process_answer(offer, answer) ==
  LET Step(acc, i) ==
        IF acc.ami > Len(acc.answer)
        THEN [acc EXCEPT !.offer[i] = Deactivated(@),
                         !.answer = Append(@, Deactivated(acc.offer[i])), !.ami = @ + 1]
        ELSE LET m == process_m_answer(acc.offer[i], acc.answer[acc.ami])
             IN  [offer  |-> [acc.offer EXCEPT ![i] = m.offer],
                  answer |-> [acc.answer EXCEPT ![acc.ami] = m.answer],
                  ami    |-> IF m.status = "EINVANSMEDIA" THEN acc.ami ELSE acc.ami + 1]
      res == FoldLeftDomain(Step, [offer |-> offer, answer |-> answer, ami |-> 1], offer)
  IN  [local |-> res.offer, remote |-> res.answer, success |-> IsActive(res.offer)]

-----------------------------------------------------------------------------
(* A new offer gets the lines of the old one in their places: a line of    *)
(* the same type that comes later is moved up, a missing one is inserted   *)
(* deactivated.  With media change allowed only the missing ones at the    *)
(* end are added.  (Fault: the lines are not put in their places.)         *)
PaddedTo(new, old) ==
  new \o [i \in 1 .. Len(old) - Len(new) |-> Deactivated(old[Len(new) + i])]

NewOfferPadded(new, old) == PaddedTo(new, old)
NewOffer(new, old) ==
  FoldLeftDomain(LAMBDA lines, oi :
    LET same == {ni \in oi .. Len(lines) : lines[ni].media = old[oi].media}
        ni == First(same)
    IN  IF same = {} THEN InsertAt(lines, oi, Deactivated(old[oi]))
        ELSE InsertAt(RemoveAt(lines, ni), oi, lines[ni]), new, old)
=============================================================================
