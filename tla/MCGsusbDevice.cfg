CONSTANTS
  a = a
  b = b
  Channels = {a, b}
  FdChannels = {a}
  TsChannels = {a}
  Callers = {c1, c2}
  Readers = {r1, r2}
  NoOne = NoOne
  Serialised = TRUE
SPECIFICATION FairSpec
INVARIANTS ActiveCount ActiveHasReader ReaderAccounted DeviceAgrees
PROPERTY CallsReturn
