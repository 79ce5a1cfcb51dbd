SPECIFICATION Spec
CONSTANTS
  Units = {"image", "canary"}
  Canaries = {"canary"}
  Replication <- MCReplication
  Workers = {"ann", "bob", "cyd", "dan"}
  Honest = {"ann", "bob"}
  Outputs = {"cat", "dog"}
  Correct = "cat"
  MaxResults <- MCMaxResults
CHECK_DEADLOCK FALSE
INVARIANTS AcceptedIsTrue
PROPERTIES AcceptedStands HonestKeepStanding EventuallyAccepted
