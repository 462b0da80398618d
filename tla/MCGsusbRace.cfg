CONSTANTS
  a = a
  b = b
  Channels = {a, b}
  FdChannels = {a}
  TsChannels = {a}
  Callers = {c1, c2}
  Readers = {r1, r2}
  NoOne = NoOne
  Serialised = FALSE
SYMMETRY Symmetry
SPECIFICATION Spec
INVARIANT ActiveHasReader
