SPECIFICATION Spec
CONSTANTS
  Strings <- MCStrings
  Empty <- E
  Metrics <- MCMetrics
  Exact = 8
  MaxMetrics = 3
  MaxRequests = 2
INVARIANTS TypeOK RefsResolve SlicesStable DeliveredIsSent SizeIsWritten FloatViewAddsUp PointsAgree
