CONSTANTS
  Ctxs = {x1, x2}
  Devs = {d1, d2}
  Chans = {c1, c2}
  NoOne = NoOne
  MaxChannels = 2
CHECK_DEADLOCK FALSE
SYMMETRY Symmetry
SPECIFICATION BindingSpec
INVARIANTS NothingLeaks ReleasedSafely ChannelsUsable ContextLast GivenBack
