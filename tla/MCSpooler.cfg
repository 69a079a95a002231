CONSTANTS
  Metric = {m1, m2, m3}
  NoMetric = NoMetric
  Cap = 3
  MaxOverflow = 4
SPECIFICATION Spec
INVARIANT TypeOK
PROPERTY RingIsQueue
