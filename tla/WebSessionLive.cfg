SPECIFICATION FairSpec
CONSTANTS
  Page = {p1, p2}
  Player = {x1, x2}
  Info = {i1}
  Null = Null
  Dummy = Dummy
  Events = {"StartVideo", "StopVideo", "UserOpens", "ChannelSwitch"}
PROPERTIES
  PlayerReaped
  CommandConsumed
  StopReopensOsd
\* A fault ends the process.
CHECK_DEADLOCK FALSE
