\* Windows of 2 samples and 2 ms; thresholds on and off the grid of windows.
SPECIFICATION Spec
CONSTANTS
  WindowSamples = 2
  WindowMs = 2
  MinSilence = 5
  PartialSilence = 3
  MaxSegment = 6
  SilenceUpdates = {0, 3, 7}
  MaxPush = 5
  MaxWindows = 8
INVARIANTS
  TypeOK
  Framing
  SpeechPreserved
  SegmentBounded
  PartialsGrow
  OnePartialPerPause
