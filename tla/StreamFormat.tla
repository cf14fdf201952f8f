---------------------------- MODULE StreamFormat ----------------------------
(***************************************************************************)
(* The session with a history of the format of the stream being played:    *)
(* what the browser announced in its last StartVideo or ResetVideo.        *)
(***************************************************************************)
EXTENDS WebSession

VARIABLE streamInfo

FormatInit == Init /\ streamInfo = Null

Announced ==
  CASE pc["browser"] \in {"sv_attach", "rv_done"} /\ pc'["browser"] = "idle"
         -> reqInfo
    [] pc["browser"] = "idle" /\ videoInfo' # videoInfo -> videoInfo'
    [] OTHER -> streamInfo

FormatNext == Next /\ streamInfo' = Announced

FormatSpec == FormatInit /\ [][FormatNext]_<<vars, streamInfo>>

\* What the log message says when ResetVideo only resets the device: the video
\* format does not change.
DeviceResetSuffices == pc["browser"] = "rv_reset" => reqInfo = streamInfo
=============================================================================
