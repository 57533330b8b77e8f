------------------------------ MODULE MCSdpNeg ------------------------------
(* TLC instances of SdpNeg.                                                *)
EXTENDS SdpNeg

Fmt(pt, enc) == [pt |-> pt, enc |-> enc, param |-> ""]
Line(media, dir, fmt) == [media |-> media, port |-> TRUE, dir |-> dir, fmt |-> fmt]

(* Two ends that number their codecs the other way round.  Every           *)
(* description offers audio and video, in either order, but the last one   *)
(* of B, which has no codec in common with any of A's: offers of A that    *)
(* meet it, and it as an offer, cannot be answered.  A may offer a line    *)
(* that B does not know.                                                   *)
AudioVideo ==
  A :> << << Line("audio", SendRecv, <<Fmt(96, "x"), Fmt(97, "y"), Fmt(98, TelEvent)>>),
             Line("video", SendRecv, <<Fmt(99, "v")>>) >>,
          << Line("video", {"recv"}, <<Fmt(99, "v")>>), Line("text", SendRecv, <<Fmt(95, "t")>>),
             Line("audio", {"send"}, <<Fmt(97, "y")>>) >> >>
  @@
  B :> << << Line("audio", SendRecv, <<Fmt(98, TelEvent), Fmt(97, "x"), Fmt(96, "y")>>),
             Line("video", SendRecv, <<Fmt(99, "w")>>) >>,
          << Line("video", {"send"}, <<Fmt(100, "v")>>),
             Line("audio", {"send"}, <<Fmt(97, "x"), Fmt(96, "y")>>) >>,
          << Line("audio", SendRecv, <<Fmt(97, "z")>>), Line("video", SendRecv, <<Fmt(99, "w")>>) >> >>
=============================================================================
