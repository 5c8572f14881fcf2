CONSTANTS
  Sessions = {s1, s2}
  MaxRows = 5
SPECIFICATION RaceSpec
PROPERTY NeverBackwards
