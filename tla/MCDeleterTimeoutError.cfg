SPECIFICATION Spec
CONSTANTS
  k1 = k1
  k2 = k2
  k3 = k3
  NumEntries = 2
  Keys = {k1, k2, k3}
  KeyMaps <- const_TwoKeys
  Postures <- const_Postures
  Raisable = {"timeout"}
  Batchable = {k1, k2}
  BatchSize = 1
  Concurrency = 1
  MaxFaults = 1
PROPERTIES
  CallsReturn
