SPECIFICATION Spec
CONSTANTS
  Page = {p1, p2}
  Player = {x1, x2, x3}
  Info = {i1}
  Null = Null
  Dummy = Dummy
  Events = {"StartVideo", "StopVideo", "TSPacket"}
INVARIANTS
  PlayersLive
  NoStrandedCommand
SYMMETRY Symmetry
\* A fault ends the process.
CHECK_DEADLOCK FALSE
