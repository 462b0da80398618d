CONSTANTS
  Listeners = {l1, l2}
  Detectors = {d1}
  NoOne = NoOne
  NotRunning = NotRunning
  Cap = 1
  MaxFrames = 2
  Prompt = FALSE
SPECIFICATION FairSpec
PROPERTY CallsReturn
