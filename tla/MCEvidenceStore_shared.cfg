SPECIFICATION Spec
CONSTANTS
  client1 = client1  client2 = client2
  content1 = content1  content2 = content2
  experiment1 = experiment1  experiment2 = experiment2
  Client = {client1, client2}
  Content = {content1, content2}
  Provenance = {"timing", "profile"}
  Experiment = {experiment1, experiment2}
  EvaluationKey = {"k"}
  None = None
  MaxDamage = 1
  MaxEvents = 3
SYMMETRY Symmetry
INVARIANTS AuditBlamesDamage EvidenceIsIndexed EventsAreEarned
PROPERTY RecordsStand
CHECK_DEADLOCK FALSE
