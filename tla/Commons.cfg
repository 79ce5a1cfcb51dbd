CONSTANTS
  Resolutions <- MCResolutions
  CapdFiles <- MCCapdFiles
  Workloads <- MCWorkloads
  Digest <- MCDigest
  DomainOf <- MCDomainOf
  Missing = "missing"
  Limit = 2
  MaxUses = 3
SPECIFICATION CommonsSpec
INVARIANTS CommonsTypeOK ProvenFirst
PROPERTIES CitationStands
