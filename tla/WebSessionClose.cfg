SPECIFICATION Spec
CONSTANTS
  Page = {p1, p2, p3}
  Player = {x1, x2, x3}
  Info = {i1}
  Null = Null
  Dummy = Dummy
  Events = {"StartVideo", "UserOpens"}
PROPERTIES
  CloseIsObeyed
SYMMETRY Symmetry
\* A fault ends the process.
CHECK_DEADLOCK FALSE
