SPECIFICATION Spec
CONSTANTS
  Clis = {"cli"}
  Servers = {"mcp"}
  Granted = {"mcp"}
  Verdicts <- MCVerdicts
  Alphabet <- MCAlphabet
  Webhooks <- MCWebhooks
  PortalLimit = 2
  Asked <- MCAsked
  Second = 2
  MaxClock = 2
  MaxDecisions = 2
  MaxReceipts = 2
INVARIANTS DecisionOnRecord ReceiptHasEvidence ToldIsShown
