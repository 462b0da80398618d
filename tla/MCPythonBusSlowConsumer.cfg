CONSTANTS
  Listeners = {l1, l2}
  Detectors = {d1, d2}
  NoOne = NoOne
  NotRunning = NotRunning
  Cap = 2
  MaxFrames = 3
  Prompt = FALSE
SYMMETRY Symmetry
SPECIFICATION Spec
INVARIANT SoleConsumer
