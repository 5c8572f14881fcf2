CONSTANTS
  Sessions = {s1, s2, s3}
  MaxRows = 5
SPECIFICATION RaceSpec
INVARIANTS
  RaceTypeOK
  NoStateSkipped
  ValidatedOnce
  EvidenceBeforeReconciled
