CONSTANTS
  Entities = {e1}
  NumMonths = 2
  Accounts = {"bank", "capital", "debtors", "sales", "gst", "material", "creditors", "discount", "rent", "wear", "plant", "rebate"}
  Documents <- MCDocuments
  Assignments <- MCAssignments
  Declared <- MCDeclared
  Worlds <- MCWorlds
  Requests <- MCRequests
  April = 1
  MaxRequests = 2
  MaxMoves = 2
SPECIFICATION ReportSpec
INVARIANT PayablesGrowthIsASource
CHECK_DEADLOCK FALSE
