CONSTANTS
  w1 = w1
  w2 = w2
  Workers <- MCWorkers
  AddFields = {"conn"}
  Modulus = 4
  MaxTotal = 5
  MaxAdd = 2
SPECIFICATION Spec
INVARIANT FinalMetricsEmitted
