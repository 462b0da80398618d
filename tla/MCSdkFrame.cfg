CONSTANTS
  ChannelCount = 2
  Ids <- MCIds
  Lens <- MCLens
  Dlcs <- MCDlcs
  Lengths <- MCLengths
  AppIds = {1, 2, 5, 9, 18, 33}
  TextDigits = {3, 4, 8, 9}
  Sff = 2
  Eff = 4
CHECK_DEADLOCK FALSE
SPECIFICATION SdkSpec
INVARIANTS LoopbackIntact NoOverread FitsTransfer EndToEnd
