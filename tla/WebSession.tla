----------------------------- MODULE WebSession -----------------------------
(***************************************************************************)
(* The handlers that run on the shared objects, one step per access to     *)
(* them, in four threads:                                                  *)
(*   "browser"     the Thrift worker that serves cefbrowser                *)
(*   "transcoder"  the Thrift worker that serves the transcoder            *)
(*   "main"        VDR's main loop (menus, keys, cControl, Service)        *)
(*   "worker"      cRegularWorker, which reaps a player without a page     *)
(* Each peer sends one request at a time (VdrClient holds its send mutex   *)
(* around a call), so one handler runs per peer.                           *)
(*                                                                         *)
(* A step that would dereference a deleted object (or a null player) ends  *)
(* the process: the thread is recorded in fault and nothing moves after.   *)
(***************************************************************************)
EXTENDS WebObjects

Init ==
  /\ nextOsdCommand = "OPEN" /\ callPlugin = FALSE
  /\ videoPlayer = Null /\ videoInfo = Null
  /\ webOsdPage = Null /\ playerWebOsdPage = Null
  /\ currentOsdMode = "CLOSED"
  /\ useDummyOsd \in BOOLEAN
  /\ pages = [p \in Page |-> Free] /\ players = {}
  /\ menu = Null /\ control = Null /\ devicePlayer = Null
  /\ pc = [t \in Thread |-> "idle"]
  /\ page = [t \in Thread |-> Null] /\ copy = [t \in Thread |-> Null]
  /\ reqInfo = Null
  /\ fault = "none"

-----------------------------------------------------------------------------
\* The pages a thread's next step dereferences or deletes.
TouchedPages(t) ==
  CASE pc[t] \in {"sv_display", "sv_setplayer", "rv_display",
                  "rv_setplayer", "draw", "m_use"}          -> {page[t]}
    [] pc[t] \in {"sv_launch", "sv_attach", "rv_shutdown",
                  "rv_launch"}                              -> {control}
    [] pc[t] = "m_delete"                                   -> {MenuPage}
    [] t = "main" /\ pc[t] = "idle"              -> {MenuPage, control}
    [] OTHER                                                -> {}

\* The players it dereferences or deletes; VDR's main loop calls Attach in
\* every iteration.
TouchedPlayers(t) ==
  CASE pc[t] \in {"use_player", "ts_enter", "ts_play", "stop_delete",
                  "w_delete"}                               -> {copy[t]}
    [] pc[t] = "rv_reset"                                   -> {videoPlayer}
    [] AttachLooks /\ <<t, pc[t]>> \in {<<"browser", "sv_attach">>,
                                        <<"main", "idle">>}
                                         -> {pages[control].player}
    [] OTHER                                                -> {}

Safe(t) == /\ TouchedPages(t) \subseteq LivePages \cup {Null}
           /\ TouchedPlayers(t) \subseteq players

Fault(t) == ~Safe(t) /\ fault' = t
            /\ UNCHANGED <<command, videoPlayer, slots, useDummyOsd, heap,
                           vdr, info, pc, locals>>

At(t, l)   == pc[t] = l /\ Safe(t)
Goto(t, l) == pc' = [pc EXCEPT ![t] = l]
\* A handler that returns gives up its local pointers.
Return(t)  == Goto(t, "idle") /\ page' = [page EXCEPT ![t] = Null]
                              /\ copy' = [copy EXCEPT ![t] = Null]

-----------------------------------------------------------------------------
\* stopVideo(), entered by StopVideo and by ProcessTSPacket.
StopCheck(t) ==
  /\ At(t, "stop_check")
  /\ copy' = [copy EXCEPT ![t] = videoPlayer]
  /\ Goto(t, IF videoPlayer = Null THEN "idle" ELSE "stop_null")
  /\ UNCHANGED <<command, videoPlayer, slots, heap, vdr, info, page>>

\* Mutant: the global pointer is not cleared before the delete.
StopNullKeeps(t) ==
  /\ At(t, "stop_null")
  /\ Goto(t, "stop_delete")
  /\ UNCHANGED <<command, videoPlayer, slots, heap, vdr, info, locals>>

StopNull(t) ==
  /\ At(t, "stop_null")
  /\ videoPlayer' = Null
  /\ Goto(t, "stop_delete")
  /\ UNCHANGED <<command, slots, heap, vdr, info, locals>>

StopDelete(t) ==
  /\ At(t, "stop_delete")
  /\ DeletePlayer(copy[t])
  /\ copy' = [copy EXCEPT ![t] = Null]
  /\ Goto(t, "stop_cmd")
  /\ UNCHANGED <<command, videoPlayer, slots, pages, menu, control, info,
                 page>>

\* Mutant: REOPEN is set and the call forgotten.
StopCommandOnly(t) ==
  /\ At(t, "stop_cmd")
  /\ nextOsdCommand' = "REOPEN"
  /\ Return(t)
  /\ UNCHANGED <<callPlugin, videoPlayer, slots, heap, vdr, info>>

StopCommand(t) ==
  /\ At(t, "stop_cmd")
  /\ nextOsdCommand' = "REOPEN"
  /\ Goto(t, "stop_call")
  /\ UNCHANGED <<callPlugin, videoPlayer, slots, heap, vdr, info, locals>>

\* Mutant: the call is dropped while the main loop is inside MainMenuAction.
StopCallDropped(t) ==
  /\ At(t, "stop_call")
  /\ callPlugin' = (callPlugin \/ pc["main"] = "idle")
  /\ Return(t)
  /\ UNCHANGED <<nextOsdCommand, videoPlayer, slots, heap, vdr, info>>

StopCall(t) ==
  /\ At(t, "stop_call")
  /\ callPlugin' = TRUE
  /\ Return(t)
  /\ UNCHANGED <<nextOsdCommand, videoPlayer, slots, heap, vdr, info>>

StopVideoSteps(t) == StopCheck(t) \/ StopNull(t) \/ StopDelete(t)
                       \/ StopCommand(t) \/ StopCall(t)
-----------------------------------------------------------------------------
\* Requests of the browser.
StartVideo(i) ==
  /\ "StartVideo" \in Events /\ At("browser", "idle")
  /\ nextOsdCommand' = "CLOSE"
  /\ reqInfo' = i
  /\ Goto("browser", "sv_call")
  /\ UNCHANGED <<callPlugin, videoPlayer, slots, heap, vdr, videoInfo,
                 locals>>

StartVideoCall ==
  /\ At("browser", "sv_call")
  /\ callPlugin' = TRUE
  /\ Goto("browser", "sv_create")
  /\ UNCHANGED <<nextOsdCommand, videoPlayer, slots, heap, vdr, info, locals>>

\* Mutant: the page is created in the OSD slot.
BuildPageAsOsd ==
  \E next \in {<<"sv_create", "sv_display">>, <<"rv_create", "rv_display">>} :
    /\ At("browser", next[1])
    /\ Create("browser", "OSD")
    /\ Goto("browser", next[2])
    /\ UNCHANGED <<command, videoPlayer, players, vdr, info, copy>>

\* StartVideo and a ResetVideo with a new format build a page and a player
\* alike; they differ in when SetPlayer and Attach come.
BuildPage ==
  \E next \in {<<"sv_create", "sv_display">>, <<"rv_create", "rv_display">>} :
    /\ At("browser", next[1])
    /\ Create("browser", "PLAYER")
    /\ Goto("browser", next[2])
    /\ UNCHANGED <<command, videoPlayer, players, vdr, info, copy>>

\* Display works on the page; then the new player becomes the global one.
BuildPlayer ==
  \E next \in {<<"sv_display", "sv_setplayer">>, <<"rv_display", "rv_launch">>},
     x \in NewPlayers :
    /\ At("browser", next[1])
    /\ NewPlayer(x)
    /\ copy' = [copy EXCEPT !["browser"] = x]
    /\ Goto("browser", next[2])
    /\ UNCHANGED <<command, slots, pages, vdr, info, page>>

StartVideoSetPlayer ==
  /\ At("browser", "sv_setplayer")
  /\ pages' = [pages EXCEPT ![page["browser"]].player = copy["browser"]]
  /\ Goto("browser", "sv_launch")
  /\ UNCHANGED <<command, videoPlayer, slots, players, vdr, info, locals>>

LaunchPage ==
  \E next \in {<<"sv_launch", "sv_attach">>, <<"rv_launch", "rv_setplayer">>} :
    /\ At("browser", next[1])
    /\ Launch(page["browser"])
    /\ Goto("browser", next[2])
    /\ UNCHANGED <<command, videoPlayer, info, locals>>

StartVideoAttach ==
  /\ At("browser", "sv_attach")
  /\ Attach
  /\ reqInfo' = Null
  /\ Return("browser")
  /\ UNCHANGED <<command, videoPlayer, videoInfo>>

StopVideo ==
  /\ "StopVideo" \in Events /\ At("browser", "idle")
  /\ Goto("browser", "stop_check")
  /\ UNCHANGED <<command, videoPlayer, slots, heap, vdr, info, locals>>

\* Mutant: the test for a player is missing.
ResetVideoUnchecked(i) ==
  /\ "ResetVideo" \in Events /\ At("browser", "idle")
  /\ reqInfo' = i
  /\ Goto("browser", IF videoInfo # i THEN "rv_shutdown" ELSE "rv_reset")
  /\ UNCHANGED <<command, videoPlayer, slots, heap, vdr, videoInfo, locals>>

\* ResetVideo: nothing to reset without a player; otherwise a new format
\* rebuilds everything and the same format resets the player.
ResetVideo(i) ==
  /\ "ResetVideo" \in Events /\ At("browser", "idle")
  /\ IF videoPlayer = Null
     THEN /\ videoInfo' = i
          /\ UNCHANGED <<pc, reqInfo>>
     ELSE /\ reqInfo' = i
          /\ Goto("browser",
                  IF videoInfo # i THEN "rv_shutdown" ELSE "rv_reset")
          /\ UNCHANGED videoInfo
  /\ UNCHANGED <<command, videoPlayer, slots, heap, vdr, locals>>

ResetVideoShutdown ==
  /\ At("browser", "rv_shutdown")
  /\ Shutdown
  /\ Goto("browser", "rv_create")
  /\ UNCHANGED <<command, videoPlayer, devicePlayer, info, locals>>

\* Mutant: the new page is not given the new player.
ResetVideoNoSetPlayer ==
  /\ At("browser", "rv_setplayer")
  /\ Goto("browser", "rv_done")
  /\ UNCHANGED <<command, videoPlayer, slots, heap, vdr, info, locals>>

\* After Launch the global player is read again.
ResetVideoSetPlayer ==
  /\ At("browser", "rv_setplayer")
  /\ pages' = [pages EXCEPT ![page["browser"]].player = videoPlayer]
  /\ Goto("browser", "rv_done")
  /\ UNCHANGED <<command, videoPlayer, slots, players, vdr, info, locals>>

\* videoPlayer->ResetVideo() on the player the global names by now.
ResetVideoPlayer ==
  /\ At("browser", "rv_reset")
  /\ Goto("browser", "rv_done")
  /\ UNCHANGED <<command, videoPlayer, slots, heap, vdr, info, locals>>

ResetVideoDone ==
  /\ At("browser", "rv_done")
  /\ videoInfo' = reqInfo /\ reqInfo' = Null
  /\ Return("browser")
  /\ UNCHANGED <<command, videoPlayer, slots, heap, vdr>>

\* PauseVideo, ResumeVideo, Seeked, SelectAudioTrack: test the global player
\* and call it.
PlayerRequest ==
  /\ "PlayerRequest" \in Events /\ At("browser", "idle") /\ videoPlayer # Null
  /\ copy' = [copy EXCEPT !["browser"] = videoPlayer]
  /\ Goto("browser", "use_player")
  /\ UNCHANGED <<command, videoPlayer, slots, heap, vdr, info, page>>

\* ProcessOsdUpdate(QOI): fetch the page, then paint on it.
OsdUpdate ==
  /\ "OsdUpdate" \in Events /\ At("browser", "idle") /\ Get # Null
  /\ page' = [page EXCEPT !["browser"] = Get]
  /\ Goto("browser", "draw")
  /\ UNCHANGED <<command, videoPlayer, slots, heap, vdr, info, copy>>

Used ==
  /\ At("browser", "use_player") \/ At("browser", "draw")
  /\ Return("browser")
  /\ UNCHANGED <<command, videoPlayer, slots, heap, vdr, info>>

Browser ==
  \/ \E i \in Info : StartVideo(i) \/ ResetVideo(i)
  \/ StartVideoCall \/ BuildPage \/ BuildPlayer
  \/ StartVideoSetPlayer \/ LaunchPage \/ StartVideoAttach
  \/ StopVideo \/ StopVideoSteps("browser")
  \/ ResetVideoShutdown \/ ResetVideoSetPlayer \/ ResetVideoPlayer
  \/ ResetVideoDone
  \/ PlayerRequest \/ OsdUpdate \/ Used
-----------------------------------------------------------------------------
\* ProcessTSPacket and VideoPlayer::PlayPacket.
ProcessTSPacket ==
  /\ "TSPacket" \in Events /\ At("transcoder", "idle")
  /\ copy' = [copy EXCEPT !["transcoder"] = videoPlayer]
  /\ Goto("transcoder", IF videoPlayer = Null THEN "stop_check" ELSE "ts_enter")
  /\ UNCHANGED <<command, videoPlayer, slots, heap, vdr, info, page>>

\* A paused player drops the packet.
PlayPacket ==
  /\ At("transcoder", "ts_enter")
  /\ \/ Goto("transcoder", "ts_loop") /\ UNCHANGED locals
     \/ Return("transcoder")
  /\ UNCHANGED <<command, videoPlayer, slots, heap, vdr, info>>

\* The loop asks the global whether the player is still there.
PlayPacketLoop ==
  /\ At("transcoder", "ts_loop")
  /\ IF videoPlayer = Null
     THEN Return("transcoder")
     ELSE Goto("transcoder", "ts_play") /\ UNCHANGED locals
  /\ UNCHANGED <<command, videoPlayer, slots, heap, vdr, info>>

\* PlayTs on this player: done, failed, or once more round the loop.
PlayTs ==
  /\ At("transcoder", "ts_play")
  /\ \/ Goto("transcoder", "ts_loop") /\ UNCHANGED locals
     \/ Return("transcoder")
  /\ UNCHANGED <<command, videoPlayer, slots, heap, vdr, info>>

Transcoder == ProcessTSPacket \/ PlayPacket \/ PlayPacketLoop \/ PlayTs
                \/ StopVideoSteps("transcoder")
-----------------------------------------------------------------------------

\* Mutant: the worker asks for the initial mode instead of the page.
WorkerLookClosed ==
  /\ At("worker", "idle") /\ currentOsdMode = "CLOSED"
  /\ Goto("worker", "w_player")
  /\ UNCHANGED <<command, videoPlayer, slots, heap, vdr, info, locals>>

\* cRegularWorker::Action, one round of its loop.
WorkerLook ==
  /\ At("worker", "idle") /\ Get = Null
  /\ Goto("worker", "w_player")
  /\ UNCHANGED <<command, videoPlayer, slots, heap, vdr, info, locals>>

WorkerTake ==
  /\ At("worker", "w_player")
  /\ copy' = [copy EXCEPT !["worker"] = videoPlayer]
  /\ Goto("worker", IF videoPlayer = Null THEN "idle" ELSE "w_null")
  /\ UNCHANGED <<command, videoPlayer, slots, heap, vdr, info, page>>

WorkerNull ==
  /\ At("worker", "w_null")
  /\ videoPlayer' = Null
  /\ Goto("worker", "w_delete")
  /\ UNCHANGED <<command, slots, heap, vdr, info, locals>>

WorkerDelete ==
  /\ At("worker", "w_delete")
  /\ DeletePlayer(copy["worker"])
  /\ Return("worker")
  /\ UNCHANGED <<command, videoPlayer, slots, pages, menu, control, info>>

Worker == WorkerLook \/ WorkerTake \/ WorkerNull \/ WorkerDelete
-----------------------------------------------------------------------------
\* VDR's main loop and what it calls in the plugin.
\* The user selects the plugin (a key macro or the main menu).
UserOpens ==
  /\ "UserOpens" \in Events /\ ~callPlugin
  /\ callPlugin' = TRUE
  /\ UNCHANGED <<nextOsdCommand, videoPlayer, slots, heap, vdr, info, pc,
                 locals>>

\* k_Plugin: take the call, delete the menu, then call MainMenuAction.
TakeCall ==
  /\ At("main", "idle") /\ callPlugin
  /\ callPlugin' = FALSE
  /\ Goto("main", "m_delete")
  /\ UNCHANGED <<nextOsdCommand, videoPlayer, slots, heap, vdr, info, locals>>

MainDeleteMenu ==
  /\ At("main", "m_delete")
  /\ DeleteMenu
  /\ Goto("main", "m_action")
  /\ UNCHANGED <<command, videoPlayer, info, locals>>

MenuActionClose ==
  /\ At("main", "m_action") /\ nextOsdCommand = "CLOSE"
  /\ Goto("main", "m_close")
  /\ UNCHANGED <<command, videoPlayer, slots, heap, vdr, info, locals>>

\* Mutant: CLOSE is not taken back.
CloseDoneKeeps ==
  /\ At("main", "m_close")
  /\ menu' = IF useDummyOsd THEN Dummy ELSE Null
  /\ Goto("main", "idle")
  /\ UNCHANGED <<command, videoPlayer, slots, heap, control, devicePlayer,
                 info, locals>>

CloseDone ==
  /\ At("main", "m_close")
  /\ nextOsdCommand' = "OPEN"
  /\ menu' = IF useDummyOsd THEN Dummy ELSE Null
  /\ Goto("main", "idle")
  /\ UNCHANGED <<callPlugin, videoPlayer, slots, heap, control, devicePlayer,
                 info, locals>>

\* Any other command creates the OSD page and tells the browser (RedButton,
\* StartApplication), which may take as long as the browser likes.
MenuActionOpen ==
  /\ At("main", "m_action") /\ nextOsdCommand # "CLOSE"
  /\ Create("main", "OSD")
  /\ Goto("main", "m_done")
  /\ UNCHANGED <<command, videoPlayer, players, vdr, info, copy>>

OpenDone ==
  /\ At("main", "m_done")
  /\ nextOsdCommand' = "OPEN"
  /\ menu' = page["main"]
  /\ Return("main")
  /\ UNCHANGED <<callPlugin, videoPlayer, slots, heap, control, devicePlayer,
                 info>>

\* A key goes to the menu, else to the control; a volume change goes to Get.
KeyOrVolume ==
  /\ "KeyOrVolume" \in Events /\ At("main", "idle")
  /\ \E p \in {IF menu # Null THEN MenuPage ELSE control, Get} \ {Null} :
       page' = [page EXCEPT !["main"] = p]
  /\ Goto("main", "m_use")
  /\ UNCHANGED <<command, videoPlayer, slots, heap, vdr, info, copy>>

\* kInfo without a menu: GetInfo answers the control itself, which VDR then
\* keeps and shows as its menu.
InfoKey ==
  /\ "InfoKey" \in Events /\ At("main", "idle") /\ menu = Null /\ control # Null
  /\ menu' = control
  /\ page' = [page EXCEPT !["main"] = control]
  /\ Goto("main", "m_use")
  /\ UNCHANGED <<command, videoPlayer, slots, heap, control, devicePlayer,
                 info, copy>>

PageUsed ==
  /\ At("main", "m_use")
  /\ Return("main")
  /\ UNCHANGED <<command, videoPlayer, slots, heap, vdr, info>>

\* kMenu and everything else that closes the open menu.
CloseMenu ==
  /\ "CloseMenu" \in Events /\ At("main", "idle") /\ menu # Null
  /\ DeleteMenu
  /\ UNCHANGED <<command, videoPlayer, info, pc, locals>>

\* VDR shuts the control down; at a channel switch it also takes the player off
\* the device, with a control or without.
ControlShutdown ==
  /\ "ChannelSwitch" \in Events /\ At("main", "idle")
  /\ control # Null \/ devicePlayer # Null
  /\ Shutdown
  /\ devicePlayer' \in {devicePlayer, Null}
  /\ UNCHANGED <<command, videoPlayer, info, pc, locals>>

MainAttach ==
  /\ At("main", "idle") /\ AttachLooks
  /\ Attach
  /\ UNCHANGED <<command, videoPlayer, info, pc, locals>>

\* cPluginWeb::Service: another plugin starts an application.
Service(c) ==
  /\ At("main", "idle")
  /\ nextOsdCommand' = c
  /\ Goto("main", "m_call")
  /\ UNCHANGED <<callPlugin, videoPlayer, slots, heap, vdr, info, locals>>

ServiceCall ==
  /\ At("main", "m_call")
  /\ callPlugin' = TRUE
  /\ Goto("main", "idle")
  /\ UNCHANGED <<nextOsdCommand, videoPlayer, slots, heap, vdr, info, locals>>

MainCall == TakeCall \/ MainDeleteMenu \/ MenuActionClose \/ CloseDone
              \/ MenuActionOpen \/ OpenDone
MainOther == KeyOrVolume \/ InfoKey \/ PageUsed \/ CloseMenu
               \/ ControlShutdown \/ MainAttach
               \/ (\E c \in Events \cap {"MAIN", "M3U", "URL"} : Service(c))
               \/ ServiceCall
Main == MainCall \/ MainOther
-----------------------------------------------------------------------------
Running == UNCHANGED <<useDummyOsd, fault>>

ThreadStep(t) == CASE t = "browser"    -> Browser
                   [] t = "transcoder" -> Transcoder
                   [] t = "worker"     -> Worker
                   [] t = "main"       -> Main

Next == /\ fault = "none"
        /\ \/ Running /\ (Browser \/ Transcoder \/ Worker \/ Main \/ UserOpens)
           \/ \E t \in Thread : Fault(t)

Spec == Init /\ [][Next]_vars

\* The operating system schedules the threads: a handler that has begun goes
\* on, the worker wakes up every half second, and the main loop takes a
\* waiting call among the keys it handles.
Continues(t) == /\ fault = "none" /\ pc[t] # "idle"
                /\ (Running /\ ThreadStep(t)) \/ Fault(t)

Fairness == /\ \A t \in Thread : WF_vars(Continues(t))
            /\ WF_vars(fault = "none" /\ Running /\ WorkerLook)
            /\ SF_vars(fault = "none" /\ Running /\ TakeCall)

FairSpec == Spec /\ Fairness
-----------------------------------------------------------------------------
Place == {"idle",
  "sv_call", "sv_create", "sv_display", "sv_setplayer", "sv_launch",
  "sv_attach",
  "rv_shutdown", "rv_create", "rv_display", "rv_launch", "rv_setplayer",
  "rv_reset", "rv_done", "use_player", "draw",
  "stop_check", "stop_null", "stop_delete", "stop_cmd", "stop_call",
  "ts_enter", "ts_loop", "ts_play", "w_player", "w_null", "w_delete",
  "m_delete", "m_action", "m_close", "m_done", "m_use", "m_call"}

\* The variables keep to their types.
TypeOK ==
  /\ nextOsdCommand \in Command /\ callPlugin \in BOOLEAN
  /\ videoPlayer \in Player \cup {Null}
  /\ {videoInfo, reqInfo} \subseteq Info \cup {Null}
  /\ {webOsdPage, playerWebOsdPage, control} \subseteq Page \cup {Null}
  /\ currentOsdMode \in Mode /\ useDummyOsd \in BOOLEAN
  /\ pages \in [Page -> PageType]
  /\ players \subseteq Player
  /\ menu \in Page \cup {Null, Dummy}
  /\ devicePlayer \in Player \cup {Null}
  /\ pc \in [Thread -> Place]
  /\ page \in [Thread -> Page \cup {Null}]
  /\ copy \in [Thread -> Player \cup {Null}]
  /\ fault \in Thread \cup {"none"}

\* The browser's handler holds a page it has created and not yet launched.
Building == pc["browser"] \in
  {"sv_display", "sv_setplayer", "sv_launch",
   "rv_display", "rv_launch"}

\* Every existing page has exactly one slot, that of its mode, and someone who
\* will delete it: the OSD page is VDR's menu or about to be returned by
\* MainMenuAction, the player page is the registered control or still being
\* built by StartVideo or ResetVideo.  No interleaving loses a page.
PagesOwned ==
  /\ \A p \in Page : /\ pages[p].mode = "OSD"    <=> p = webOsdPage
                     /\ pages[p].mode = "PLAYER" <=> p = playerWebOsdPage
  /\ webOsdPage # Null =>
       \/ menu = webOsdPage
       \/ (pc["main"] = "m_done" /\ page["main"] = webOsdPage)
  /\ playerWebOsdPage # Null =>
       \/ control = playerWebOsdPage
       \/ (Building /\ page["browser"] = playerWebOsdPage)

\* VDR's control is the page in the player slot, never one that is gone,
\* except right after the browser's handler launched a page that the main
\* loop deleted while it was built (the dummy OSD's destructor).
ControlRegistered ==
  \/ control \in {Null, playerWebOsdPage}
  \/ /\ pc["browser"] \in {"sv_attach", "rv_setplayer"}
     /\ control = page["browser"]

\* The global player and the device's player always exist, although four
\* threads assign, copy and delete them without a lock: the pointer is
\* cleared before the delete and the destructor detaches.
PlayersLive == {videoPlayer, devicePlayer} \subseteq players \cup {Null}

\* A command written for MainMenuAction is never left behind: while it is not
\* OPEN, a CallPlugin is waiting, one is about to be made by the thread that
\* wrote a command, or the main loop is inside the call.
NoStrandedCommand ==
  nextOsdCommand # "OPEN" =>
    \/ callPlugin
    \/ pc["main"] \in {"m_delete", "m_action", "m_close", "m_done", "m_call"}
    \/ pc["browser"] \in {"sv_call", "stop_call"}
    \/ pc["transcoder"] = "stop_call"
-----------------------------------------------------------------------------
\* What the properties above rest on.  The main loop has deleted its menu
\* before it goes into MainMenuAction, and alone holds the page it creates.
MainHolds ==
  /\ pc["main"] \in {"m_action", "m_close", "m_done"} => menu = Null
  /\ pc["main"] = "m_done" =>
       webOsdPage \in Page /\ page["main"] = webOsdPage

\* The page a StartVideo or ResetVideo works on is a player page or gone; its
\* address is not used again while the handler holds it.
BrowserHolds ==
  Building \/ pc["browser"] \in {"sv_attach", "rv_setplayer"} =>
    page["browser"] \in Page /\ pages[page["browser"]].mode # "OSD"

\* A player that is about to be deleted is no longer the global one.
CopiesRetired ==
  \A t \in Thread :
    /\ pc[t] \in {"stop_null", "stop_delete", "w_null", "w_delete"}
         => copy[t] \in Player
    /\ pc[t] \in {"stop_delete", "w_delete"} => copy[t] # videoPlayer

IInv == /\ TypeOK /\ PagesOwned /\ ControlRegistered /\ PlayersLive
        /\ NoStrandedCommand /\ MainHolds /\ BrowserHolds /\ CopiesRetired
-----------------------------------------------------------------------------
Down == fault # "none"

\* The regular worker reaps a player nobody can see: a player without a page
\* does not stay.
PlayerReaped == (videoPlayer # Null /\ Get = Null)
                  ~> (videoPlayer = Null \/ Get # Null \/ Down)

\* Every command reaches MainMenuAction, which goes back to OPEN.
CommandConsumed == nextOsdCommand # "OPEN" ~> (nextOsdCommand = "OPEN" \/ Down)

\* Stopping a video brings the web OSD back, even when the main loop overwrites
\* the REOPEN command with OPEN meanwhile; only a new StartVideo may prevent it.
StopReopensOsd == nextOsdCommand = "REOPEN"
                    ~> (webOsdPage # Null \/ nextOsdCommand = "CLOSE" \/ Down)

\* What the comment in ProcessTSPacket says of a packet without a player,
\* "Stop streaming": having decided that, the handler does not return with
\* nothing done.
PacketWithoutPlayerStops ==
  [][pc["transcoder"] = "stop_check" => pc'["transcoder"] # "idle"]_vars

\* What the -o option and the comments in MainMenuAction say of CLOSE: the
\* main loop takes the command only by closing the OSD (or opening the dummy).
CloseIsObeyed ==
  [][nextOsdCommand = "CLOSE" /\ nextOsdCommand' = "OPEN"
       => pc["main"] = "m_close"]_vars
=============================================================================
