\* All streams of up to eight bytes, cut into frames of up to three.
CONSTANTS
  CR = CR
  LF = LF
  Text = Text
  MaxEvents = 2
  MaxEventBytes = 3
  MaxFrame = 3
  MaxStream = 8
SPECIFICATION Spec
INVARIANTS
  TypeOK
  FramesDoNotMatter
  PartialIsTheRemainder
PROPERTY EventsReachDisk
CHECK_DEADLOCK FALSE
