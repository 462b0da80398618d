CONSTANTS
  a = a
  b = b
  Channels = {a, b}
  FdChannels = {a}
  TsChannels = {a}
  Callers = {c1}
  Readers = {r1}
  NoOne = NoOne
  Serialised = TRUE
  Cap = 2
  MaxSeq = 3
  MaxPipe = 1
SPECIFICATION RxSpec
INVARIANTS QueuesInBusOrder NoFrameLost StampedOnceStarted
VIEW RxView
