CONSTANTS
  Entities = {e1}
  NumMonths = 2
  Accounts = {"a1", "a2", "a3"}
  Contracts <- MCContracts
  OpenDecisions = {"D-048"}
  Overrides <- MCOverrides
  Classes <- MCClasses
  Window = 2
  Profile = "consumer"
  Depth = 2
  NoMetric = NoMetric
  ClassOf <- MCClassOf
  Worlds <- MCWorlds
  Questions <- MCQuestions
  Defects <- MCDefects
  RowCap = 3
  MaxMoves = 1
SPECIFICATION AskSpec
INVARIANTS
  AskTypeOK
  NumbersOfReportableMonths
  WhateverIsEmitted
  RejectedLeafNeverRan
  CitedRowsTraceable
  NoNumberFromACutRead
  BlockedStaysDark
PROPERTY
  EveryQuestionEnds
CHECK_DEADLOCK FALSE
