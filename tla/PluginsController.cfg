SPECIFICATION FairSpec
CONSTANTS
  p1 = p1
  p2 = p2
  Main = Main
  Sources <- AllSources
  Loaded <- ThreeLoaded
  Threaded <- OneThreaded
  Codes <- OneCode
  Reported <- OneState
  Wishes <- TwoWishes
  Reporting <- OneReporting
  Severities <- TwoSeverities
  MaxRequests = 3
CHECK_DEADLOCK FALSE
PROPERTY DiagIsWorst
INVARIANT AlarmsStored
PROPERTY QuitIsWanted
PROPERTY QuitAllTerminated
PROPERTY ShownIsWorst
PROPERTY EventuallyEnds
