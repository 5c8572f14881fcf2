CONSTANTS
  Entities <- MCEntities
  NumMonths = 3
  Accounts <- MCAccounts
  MaxVersions = 4
SPECIFICATION MappingSpec
INVARIANTS
  MappingTypeOK
  AtMostOneOpenEnded
PROPERTIES
  FreezeKeepsCoverage
  ApprovedCompletely
