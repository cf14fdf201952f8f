----------------------------- MODULE AppLaunch -----------------------------
(***************************************************************************)
(* How another plugin starts a web application (web.cpp, Service and       *)
(* MainMenuAction; service/web_service.h): its service call leaves the     *)
(* parameters and a command in globals and asks VDR to call the plugin,    *)
(* whose MainMenuAction passes them on to the browser.  VDR offers every   *)
(* service call to every plugin, and StartVideo and the end of a video     *)
(* leave commands of their own in the meantime.  A value is the caller and *)
(* what it is: <<caller, "cookie">>.                                       *)
(***************************************************************************)
CONSTANTS
  Plugin,  \* the plugins that use the service
  None

VARIABLES
  nextOsdCommand,
  param,   \* param_url, param_m3uContent, param_userAgent, ...
  given,   \* what MAIN's caller gives and Service has not stored yet, or None
  called,  \* VDR is to call MainMenuAction
  app      \* what StartApplication was last given

vars == <<nextOsdCommand, param, given, called, app>>

Kind    == {"url", "m3uContent", "userAgent", "referrer", "cookie"}
Command == {"OPEN", "CLOSE", "REOPEN", "MAIN", "URL", "M3U"}
Empty   == <<>>   \* the empty string
NoParam == [k \in Kind |-> Empty]

Init == nextOsdCommand = "OPEN" /\ param = NoParam /\ given = None /\ called = FALSE
        /\ app = None

\* The parameters of a call by plugin p; it may leave out any.
Given(p, kinds) == {[k \in Kind |-> IF k \in some THEN <<p, k>> ELSE Empty] :
                      some \in SUBSET kinds}

\* Service for one of the three requests; their structs have the fields in kinds.
Launch(p, command, kinds) ==
  /\ nextOsdCommand' = command
  /\ param' \in Given(p, kinds)
  /\ called' = TRUE
  /\ UNCHANGED <<given, app>>

\* For MAIN, VDR is asked before the parameters are stored.
LaunchMain(p, kinds) ==
  /\ nextOsdCommand' = "MAIN"
  /\ param' = NoParam
  /\ given' \in Given(p, kinds)
  /\ called' = TRUE
  /\ UNCHANGED app

StoreMain == given # None /\ param' = given /\ given' = None
             /\ UNCHANGED <<nextOsdCommand, called, app>>

\* One plugin at a time is inside Service.
Service(p) ==
  /\ given = None
  /\ \/ LaunchMain(p, {"userAgent", "referrer", "cookie"})
     \/ Launch(p, "M3U", {"m3uContent", "userAgent", "referrer", "cookie"})
     \/ Launch(p, "URL", {"url", "userAgent", "referrer", "cookie"})

\* Service for somebody else's request, or without data: false, but the
\* parameters are cleared.
ServiceOfOthers == given = None /\ param' = NoParam
                   /\ UNCHANGED <<nextOsdCommand, given, called, app>>

\* StartVideo closes the page, the end of a video opens it again.
VideoCommand == /\ nextOsdCommand' \in {"CLOSE", "REOPEN"} /\ called' = TRUE
                /\ UNCHANGED <<param, given, app>>

\* BrowserClient's parameters, in its order.
StartApplication(appId, appCookie, appReferrer, appUserAgent, url) ==
  app' = [appId |-> appId, appCookie |-> appCookie, appReferrer |-> appReferrer,
          appUserAgent |-> appUserAgent, url |-> url]

\* As VDR was asked to, or because the user opens the menu entry.
MainMenuAction ==
  /\ called' = FALSE /\ nextOsdCommand' = "OPEN"
  /\ LET Start(url) == StartApplication(nextOsdCommand, param["userAgent"],
                                        param["referrer"], param["cookie"], url)
     IN \/ nextOsdCommand \in {"CLOSE", "REOPEN", "OPEN"} /\ UNCHANGED app
        \/ nextOsdCommand = "URL"  /\ Start(param["url"])
        \/ nextOsdCommand = "MAIN" /\ Start(Empty)
        \/ nextOsdCommand = "M3U"  /\ Start(param["m3uContent"])
  /\ UNCHANGED <<param, given>>

Next == \/ \E p \in Plugin : Service(p)
        \/ StoreMain \/ ServiceOfOthers \/ VideoCommand \/ MainMenuAction

Spec == Init /\ [][Next]_vars
-----------------------------------------------------------------------------
\* What another plugin gives as cookie, referrer and user agent arrives as such
\* in the browser's interface, or not at all.
ParametersKeepTheirMeaning ==
  app # None =>
    /\ app.appCookie    \in {Empty} \cup {<<p, "cookie">> : p \in Plugin}
    /\ app.appReferrer  \in {Empty} \cup {<<p, "referrer">> : p \in Plugin}
    /\ app.appUserAgent \in {Empty} \cup {<<p, "userAgent">> : p \in Plugin}
=============================================================================
