SPECIFICATION WindowSpec
CONSTANTS
  Page = {p1, p2, p3}
  Player = {x1, x2, x3}
  Info = {i1, i2}
  Null = Null
  Window = {w}
  Dummy = Dummy
  Events = {"StartVideo", "StopVideo", "ResetVideo", "PlayerRequest",
            "OsdUpdate", "UserOpens", "KeyOrVolume", "InfoKey",
            "CloseMenu", "ChannelSwitch", "TSPacket", "MAIN", "M3U", "URL"}
INVARIANTS
  SerialFaultsInMainOnly
  SerialControlPlaysGlobal
  PictureStaysPlaced
  NoWindowLeft
SYMMETRY Symmetry
\* A fault ends the process.
CHECK_DEADLOCK FALSE
