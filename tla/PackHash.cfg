CONSTANTS
  Sessions = {s1, s2}
  Texts = {t1, t2}
  ExceptionKinds = {"valued"}
  MaxPacks = 1
  MaxEdits = 2
SPECIFICATION PackSpec
INVARIANT HashProvesRender
