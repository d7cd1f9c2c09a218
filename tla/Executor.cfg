SPECIFICATION FairSpec
CONSTANTS
  Session = {s1, s2, s3}
  MaxAgents = 3
  Programs = {"proxy", "pairs"}
CHECK_DEADLOCK FALSE
INVARIANTS
  TypeOK
  AgentOfAsked
  AgentsOutliveUse
PROPERTIES
  Served
