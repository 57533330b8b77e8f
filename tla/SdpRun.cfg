\* Two negotiators with audio and video in different order and numbering.
CONSTANTS
  A = A
  B = B
  TelEvent = TelEvent
  Caps <- AudioVideo
  MediaChange = {FALSE}
  Prefer = {A}
  Multiple = {A}
  MaxVersion = 4
SPECIFICATION Spec
INVARIANTS Agreement AnswerFits SessionSound
PROPERTY LinesStay
