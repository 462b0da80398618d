CONSTANTS
  Unit = 40
  Clocks <- MCClocks
  Bitrates <- MCBitrates
  SamplePoints <- MCSamplePoints
  Limits <- MCLimits
  DataLimits <- MCDataLimits
  DataBitrates <- MCDataBitrates
  Absent = Absent
  Given = Given
  Fast = 5
  Faster = 8
CHECK_DEADLOCK FALSE
SPECIFICATION ConfigureSpec
INVARIANTS ClosestSplit NoSolutionMissed BestOfAll PhasesConfigured
