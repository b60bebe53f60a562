CONSTANTS
  w1 = w1
  w2 = w2
  Workers <- MCWorkers
  AddFields = {"conn", "in", "out"}
  Modulus = 4
  MaxTotal = 4
  MaxAdd = 2
SPECIFICATION Spec
INVARIANT TypeOK
INVARIANT EmittedConsistent
PROPERTY CountsEventuallyEmitted
PROPERTY EntryEventuallyDropped
