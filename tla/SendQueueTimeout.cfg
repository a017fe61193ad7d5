SPECIFICATION Spec
CONSTANTS
  t1 = t1
  t2 = t2
  a1 = a1
  Text = {t1}
  Media = {}
  Workers = 1
  QueueCap = 1
  SendCap = 1
  Faults = {"timeout"}
INVARIANTS SuccessMeansReceived
