\* Publishes that fail, a subscriber that reconnects, WebSockets that close,
\* and snapshots and answers that arrive late and out of order: the counters on
\* the screen become right, and the chart counts no announcement twice.
CONSTANTS
  j1 = j1  f1 = f1
  Jobs = {j1}
  Fetches = {f1}
  MaxChanges = 3
  MaxConnections = 2
  MaxQueue = 1
SPECIFICATION Spec
INVARIANTS ChartCountsOnce
PROPERTIES EventuallyAccurate
