CONSTANTS
  Sessions = {s1, s2}
  Texts = {t1, t2}
  ExceptionKinds = {"valued", "unvalued"}
  MaxPacks = 1
  MaxEdits = 2
SPECIFICATION PackSpec
INVARIANTS
  PackTypeOK
  NoWordingLost
PROPERTIES
  SignedHoldsForLaterRequests
  OverrideIsShown
