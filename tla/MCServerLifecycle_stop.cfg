SPECIFICATION Spec
CONSTANTS
  Steps <- MCSteps
  MaxDepth = 1
  MaxUsage = 2
  Requests = {h1, h2}
  Calls = {c1}
  Tick = tick
  Settings <- MCSettings
  Milli = 6
  Overflow = 32
  DefaultInterval = 1
  MaxSignals = 2
INVARIANTS TypeOK CountersTrackUsage OnlyLateAreCut AnsweredIsExported StartPanicsOnlyOnOverflow
PROPERTY StopsAfterSignal
