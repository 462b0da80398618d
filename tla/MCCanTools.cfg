CONSTANTS
  a = a
  b = b
  Adapters = {a, b}
  IdOf <- MCIdOf
  gsusb_known_ids <- MCKnownIds
  NoOne = NoOne
  Cap = 2
  nframes = 2
  repeat = 2
  MaxKeys = 3
SPECIFICATION FairSpec
INVARIANTS LeftQuiet SendsInOrder KeysAnswered
PROPERTY ToolsEnd
