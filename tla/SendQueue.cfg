SPECIFICATION LiveSpec
CONSTANTS
  t1 = t1
  t2 = t2
  a1 = a1
  Text = {t1, t2}
  Media = {a1}
  Workers = 2
  QueueCap = 1
  SendCap = 1
  Faults = {"fail", "down", "reject", "timeout"}
INVARIANTS GapsAreTimed SentInLaneOrder
PROPERTIES EveryCallAnswered
