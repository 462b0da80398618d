CONSTANTS
  Detectors = {d1, d2, d3}
  Second = 3
  Poll = 2
  Sleeps = {0, 1, 2}
  MaxTime = 11
  MaxFrames = 4
  MaxMoved = 2
SYMMETRY Symmetry
SPECIFICATION Spec
PROPERTIES AllCalled SleepsAsAsked
