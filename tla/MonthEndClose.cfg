CONSTANTS
  Entities = {e1}
  NumMonths = 2
  Lines = {l1, l2}
  Accounts = {l1, l2}
  Amounts <- MCAmounts
  AccountOf <- MCAccountOf
  Resolutions = {"accepted"}
  MaxVersions = 3
  MaxExceptions = 1
  MaxResolutions = 1
SPECIFICATION CloseSpec
SYMMETRY MCSymmetry
INVARIANTS
  CloseTypeOK
  HeldOpenIsExplained
  ReconciledOnItsOwnRun
PROPERTIES
  ImplementsPeriodMachine
  ValidationIsEarned
  MappedOnGoverningVersion
