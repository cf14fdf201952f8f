SPECIFICATION Spec
CONSTANTS
  Page = {p1, p2, p3}
  Player = {x1, x2, x3, x4}
  Info = {i1}
  Null = Null
  Dummy = Dummy
  Events = {"StartVideo", "StopVideo", "ResetVideo", "OsdUpdate",
            "UserOpens", "InfoKey", "CloseMenu", "ChannelSwitch"}
INVARIANTS
  PagesOwned
  ControlRegistered
  PlayersLive
  NoStrandedCommand
SYMMETRY Symmetry
\* A fault ends the process.
CHECK_DEADLOCK FALSE
