-------------------------- MODULE WebSessionProofs --------------------------
(***************************************************************************)
(* Proofs about WebSession, for any sets of addresses, formats and events. *)
(* Each invariant has its own lemma on one step; the main theorem puts     *)
(* them together.                                                          *)
(***************************************************************************)
EXTENDS WebSession, TLAPS

-----------------------------------------------------------------------------
(* Types.                                                                  *)

\* Get returns a page or none.
LEMMA GetType == TypeOK => Get \in Page \cup {Null}
BY DEF TypeOK, Get

\* The menu's page is a page or none.
LEMMA MenuPageType == TypeOK => MenuPage \in Page \cup {Null}
BY GetType, DummyAssumption DEF TypeOK, MenuPage

\* A new page is of its type.
LEMMA NewPageType == ASSUME NEW k \in Mode PROVE NewPage(k) \in PageType
BY DEF NewPage, PageType

\* Deleting a page keeps the types.
LEMMA DeletePageType ==
  ASSUME TypeOK, NEW p, DeletePage(p)
  PROVE  /\ {webOsdPage', playerWebOsdPage'} \subseteq Page \cup {Null}
         /\ currentOsdMode' \in Mode
         /\ pages' \in [Page -> PageType]
<1>1. Free \in PageType
  BY NewPageType DEF Free, Mode
<1> QED BY <1>1 DEF TypeOK, DeletePage

\* Creating a page keeps the types.
LEMMA CreateType ==
  ASSUME TypeOK, NEW t \in Thread, NEW k \in {"OSD", "PLAYER"}, Create(t, k)
  PROVE  /\ {webOsdPage', playerWebOsdPage'} \subseteq Page \cup {Null}
         /\ currentOsdMode' \in Mode
         /\ pages' \in [Page -> PageType]
         /\ page' \in [Thread -> Page \cup {Null}]
<1>1. NewPage(k) \in PageType
  BY NewPageType DEF Mode
<1> DEFINE slot == IF k = "OSD" THEN webOsdPage ELSE playerWebOsdPage
<1>2. PICK p \in IF slot = Null THEN NewPages ELSE {slot} :
        /\ page' = [page EXCEPT ![t] = p]
        /\ pages' = IF slot = Null THEN [pages EXCEPT ![p] = NewPage(k)]
                                  ELSE pages
        /\ webOsdPage' = IF k = "OSD" THEN p ELSE webOsdPage
        /\ playerWebOsdPage' = IF k = "PLAYER" THEN p ELSE playerWebOsdPage
        /\ currentOsdMode' = k
  BY DEF Create
<1>3. p \in Page
  BY <1>2 DEF TypeOK, NewPages
<1> QED BY <1>1, <1>2, <1>3 DEF TypeOK, Mode

\* Attaching a player keeps the types.
LEMMA AttachType ==
  ASSUME TypeOK, Attach
  PROVE  /\ devicePlayer' \in Player \cup {Null}
         /\ pages' \in [Page -> PageType]
BY DEF TypeOK, Attach, AttachLooks, LivePages, PageType

USE DEF command, slots, heap, vdr, info, locals, Running, Goto, Return

\* One step of stopVideo.
LEMMA TypeStopVideo ==
  ASSUME TypeOK, Running, NEW t \in Thread, StopVideoSteps(t)
  PROVE  TypeOK'
<1>1. CASE StopCheck(t)
  BY <1>1 DEF TypeOK, StopCheck, Place
<1>2. CASE StopNull(t)
  BY <1>2 DEF TypeOK, StopNull, Place
<1>3. CASE StopDelete(t)
  BY <1>3 DEF TypeOK, StopDelete, DeletePlayer, Place
<1>4. CASE StopCommand(t)
  BY <1>4 DEF TypeOK, StopCommand, Place, Command
<1>5. CASE StopCall(t)
  BY <1>5 DEF TypeOK, StopCall, Place
<1> QED BY <1>1, <1>2, <1>3, <1>4, <1>5 DEF StopVideoSteps

\* The browser's requests keep the types.
LEMMA TypeBrowser ==
  ASSUME TypeOK, Running, Browser
  PROVE  TypeOK'
<1> "browser" \in Thread
  BY DEF Thread
<1>1. ASSUME NEW i \in Info, StartVideo(i) PROVE TypeOK'
  BY <1>1 DEF TypeOK, StartVideo, Place, Command
<1>2. ASSUME NEW i \in Info, ResetVideo(i) PROVE TypeOK'
  BY <1>2 DEF TypeOK, ResetVideo, Place
<1>3. CASE StartVideoCall
  BY <1>3 DEF TypeOK, StartVideoCall, Place
<1>4. CASE BuildPage
  <2>1. PICK next \in {<<"sv_create", "sv_display">>,
                       <<"rv_create", "rv_display">>} :
          /\ Create("browser", "PLAYER")
          /\ pc' = [pc EXCEPT !["browser"] = next[2]]
          /\ UNCHANGED <<command, videoPlayer, players, vdr, info, copy>>
    BY <1>4 DEF BuildPage
  <2> QED BY <2>1, CreateType DEF TypeOK, Place
<1>5. CASE BuildPlayer
  BY <1>5 DEF TypeOK, BuildPlayer, NewPlayer, NewPlayers, Place
<1>6. CASE StartVideoSetPlayer
  BY <1>6 DEF TypeOK, StartVideoSetPlayer, PageType, Place
<1>7. CASE LaunchPage
  <2>1. PICK next \in {<<"sv_launch", "sv_attach">>,
                       <<"rv_launch", "rv_setplayer">>} :
          /\ Launch(page["browser"])
          /\ pc' = [pc EXCEPT !["browser"] = next[2]]
          /\ UNCHANGED <<command, videoPlayer, info, locals>>
    BY <1>7 DEF LaunchPage
  <2>2. DeletePage(control)
    BY <2>1 DEF Launch
  <2> QED BY <2>1, <2>2, DeletePageType DEF TypeOK, Launch, Place
<1>8. CASE StartVideoAttach
  BY <1>8, AttachType DEF TypeOK, StartVideoAttach, Attach, Place
<1>9. CASE StopVideo
  BY <1>9 DEF TypeOK, StopVideo, Place
<1>10. CASE StopVideoSteps("browser")
  BY <1>10, TypeStopVideo
<1>11. CASE ResetVideoShutdown
  <2>1. DeletePage(control)
    BY <1>11 DEF ResetVideoShutdown, Shutdown
  <2> QED BY <1>11, <2>1, DeletePageType
          DEF TypeOK, ResetVideoShutdown, Shutdown, Place
<1>12. CASE ResetVideoSetPlayer
  BY <1>12 DEF TypeOK, ResetVideoSetPlayer, PageType, Place
<1>13. CASE ResetVideoPlayer
  BY <1>13 DEF TypeOK, ResetVideoPlayer, Place
<1>14. CASE ResetVideoDone
  BY <1>14 DEF TypeOK, ResetVideoDone, Place
<1>15. CASE PlayerRequest
  BY <1>15 DEF TypeOK, PlayerRequest, Place
<1>16. CASE OsdUpdate
  BY <1>16, GetType DEF TypeOK, OsdUpdate, Place
<1>17. CASE Used
  BY <1>17 DEF TypeOK, Used, Place
<1> QED BY <1>1, <1>2, <1>3, <1>4, <1>5, <1>6, <1>7, <1>8, <1>9, <1>10, <1>11,
           <1>12, <1>13, <1>14, <1>15, <1>16, <1>17 DEF Browser

\* The transcoder's requests keep the types.
LEMMA TypeTranscoder ==
  ASSUME TypeOK, Running, Transcoder
  PROVE  TypeOK'
<1> "transcoder" \in Thread
  BY DEF Thread
<1>1. CASE ProcessTSPacket
  BY <1>1 DEF TypeOK, ProcessTSPacket, Place
<1>2. CASE PlayPacket
  BY <1>2 DEF TypeOK, PlayPacket, Place
<1>3. CASE PlayPacketLoop
  BY <1>3 DEF TypeOK, PlayPacketLoop, Place
<1>4. CASE PlayTs
  BY <1>4 DEF TypeOK, PlayTs, Place
<1>5. CASE StopVideoSteps("transcoder")
  BY <1>5, TypeStopVideo
<1> QED BY <1>1, <1>2, <1>3, <1>4, <1>5 DEF Transcoder

\* The worker keeps the types.
LEMMA TypeWorker ==
  ASSUME TypeOK, Running, Worker
  PROVE  TypeOK'
<1> "worker" \in Thread
  BY DEF Thread
<1>1. CASE WorkerLook
  BY <1>1 DEF TypeOK, WorkerLook, Place
<1>2. CASE WorkerTake
  BY <1>2 DEF TypeOK, WorkerTake, Place
<1>3. CASE WorkerNull
  BY <1>3 DEF TypeOK, WorkerNull, Place
<1>4. CASE WorkerDelete
  BY <1>4 DEF TypeOK, WorkerDelete, DeletePlayer, Place
<1> QED BY <1>1, <1>2, <1>3, <1>4 DEF Worker

\* The main loop keeps the types.
LEMMA TypeMain ==
  ASSUME TypeOK, Running, Main
  PROVE  TypeOK'
<1> "main" \in Thread
  BY DEF Thread
<1>1. CASE TakeCall
  BY <1>1 DEF TypeOK, TakeCall, Place
<1>2. ASSUME DeleteMenu
      PROVE  /\ {webOsdPage', playerWebOsdPage', control'}
                  \subseteq Page \cup {Null}
             /\ currentOsdMode' \in Mode
             /\ pages' \in [Page -> PageType]
             /\ menu' \in Page \cup {Null, Dummy}
             /\ UNCHANGED <<players, devicePlayer>>
  <2>1. DeletePage(MenuPage)
    BY <1>2 DEF DeleteMenu
  <2> QED BY <1>2, <2>1, DeletePageType DEF DeleteMenu, TypeOK
<1>3. CASE MainDeleteMenu
  BY <1>2, <1>3 DEF TypeOK, MainDeleteMenu, Place
<1>4. CASE MenuActionClose
  BY <1>4 DEF TypeOK, MenuActionClose, Place
<1>5. CASE CloseDone
  BY <1>5 DEF TypeOK, CloseDone, Place, Command
<1>6. CASE MenuActionOpen
  <2>1. Create("main", "OSD")
    BY <1>6 DEF MenuActionOpen
  <2> QED BY <1>6, <2>1, CreateType DEF TypeOK, MenuActionOpen, Place
<1>7. CASE OpenDone
  BY <1>7 DEF TypeOK, OpenDone, Place, Command
<1>8. CASE KeyOrVolume
  BY <1>8, GetType, MenuPageType DEF TypeOK, KeyOrVolume, Place
<1>9. CASE InfoKey
  BY <1>9 DEF TypeOK, InfoKey, Place
<1>10. CASE PageUsed
  BY <1>10 DEF TypeOK, PageUsed, Place
<1>11. CASE CloseMenu
  BY <1>2, <1>11 DEF TypeOK, CloseMenu
<1>12. CASE ControlShutdown
  <2>1. DeletePage(control)
    BY <1>12 DEF ControlShutdown, Shutdown
  <2> QED BY <1>12, <2>1, DeletePageType DEF TypeOK, ControlShutdown, Shutdown
<1>13. CASE MainAttach
  BY <1>13, AttachType DEF TypeOK, MainAttach, Attach
<1>14. ASSUME NEW c \in Events \cap {"MAIN", "M3U", "URL"}, Service(c)
       PROVE  TypeOK'
  BY <1>14 DEF TypeOK, Service, Place, Command
<1>15. CASE ServiceCall
  BY <1>15 DEF TypeOK, ServiceCall, Place
<1> QED BY <1>1, <1>3, <1>4, <1>5, <1>6, <1>7, <1>8, <1>9, <1>10, <1>11,
           <1>12, <1>13, <1>14, <1>15 DEF Main, MainCall, MainOther

\* Every step keeps the types.
LEMMA TypeStep == TypeOK /\ [Next]_vars => TypeOK'
<1> SUFFICES ASSUME TypeOK, [Next]_vars PROVE TypeOK'
  OBVIOUS
<1>1. CASE Running /\ (Browser \/ Transcoder \/ Worker \/ Main)
  BY <1>1, TypeBrowser, TypeTranscoder, TypeWorker, TypeMain
<1>2. CASE Running /\ UserOpens
  BY <1>2 DEF TypeOK, UserOpens
<1>3. CASE \E t \in Thread : Fault(t)
  BY <1>3 DEF TypeOK, Fault
<1>4. CASE UNCHANGED vars
  BY <1>4 DEF TypeOK, vars
<1> QED BY <1>1, <1>2, <1>3, <1>4 DEF Next

\* The types hold initially.
LEMMA TypeInit == Init => TypeOK
BY NewPageType DEF Init, TypeOK, Free, Thread, Place, Mode, Command

\* Every variable keeps its type in every run of the session.
THEOREM TypeCorrect == Spec => []TypeOK
BY TypeInit, TypeStep, PTL DEF Spec

-----------------------------------------------------------------------------
(* The players.                                                            *)

\* VDR attaches a control only when its player exists: anything else is a
\* fault.
LEMMA AttachSafe ==
  ASSUME AttachLooks, At("browser", "sv_attach") \/ At("main", "idle")
  PROVE  pages[control].player \in players
<1>1. ASSUME At("browser", "sv_attach")
      PROVE  TouchedPlayers("browser") = {pages[control].player}
  BY <1>1 DEF At, TouchedPlayers
<1>2. ASSUME At("main", "idle")
      PROVE  TouchedPlayers("main") = {pages[control].player}
  BY <1>2 DEF At, TouchedPlayers
<1> QED BY <1>1, <1>2 DEF At, Safe

PlayersInv == TypeOK /\ PlayersLive /\ CopiesRetired

\* StopVideo keeps the players' invariant.
LEMMA PlayersStopVideo ==
  ASSUME PlayersInv, Running, NEW t \in {"browser", "transcoder"},
         StopVideoSteps(t)
  PROVE  PlayersLive' /\ CopiesRetired'
<1> t \in Thread
  BY DEF Thread
<1> USE DEF PlayersInv, TypeOK, PlayersLive, CopiesRetired, At
<1>1. CASE StopCheck(t)
  BY <1>1 DEF StopCheck
<1>2. CASE StopNull(t)
  BY <1>2, NullAssumption DEF StopNull
<1>3. CASE StopDelete(t)
  BY <1>3 DEF StopDelete, DeletePlayer
<1>4. CASE StopCommand(t)
  BY <1>4 DEF StopCommand
<1>5. CASE StopCall(t)
  BY <1>5 DEF StopCall
<1> QED BY <1>1, <1>2, <1>3, <1>4, <1>5 DEF StopVideoSteps

\* So does attaching a player,
LEMMA PlayersAttach ==
  ASSUME PlayersLive, Attach, At("browser", "sv_attach") \/ At("main", "idle"),
         UNCHANGED videoPlayer
  PROVE  PlayersLive'
BY AttachSafe DEF PlayersLive, Attach

\* every request of the browser,
LEMMA PlayersBrowser ==
  ASSUME PlayersInv, Running, Browser
  PROVE  PlayersLive' /\ CopiesRetired'
<1> "browser" \in Thread
  BY DEF Thread
<1> USE DEF PlayersInv, TypeOK, PlayersLive, CopiesRetired, At
<1>1. ASSUME NEW i \in Info, StartVideo(i) \/ ResetVideo(i)
      PROVE  PlayersLive' /\ CopiesRetired'
  BY <1>1 DEF StartVideo, ResetVideo
<1>2. CASE StartVideoCall \/ StopVideo \/ ResetVideoPlayer \/ ResetVideoDone
             \/ PlayerRequest \/ OsdUpdate \/ Used
  BY <1>2 DEF StartVideoCall, StopVideo, ResetVideoPlayer, ResetVideoDone,
              PlayerRequest, OsdUpdate, Used
<1>3. CASE BuildPage
  BY <1>3 DEF BuildPage
<1>4. CASE BuildPlayer
  <2>1. PICK next \in {<<"sv_display", "sv_setplayer">>,
                       <<"rv_display", "rv_launch">>}, x \in NewPlayers :
          /\ NewPlayer(x)
          /\ copy' = [copy EXCEPT !["browser"] = x]
          /\ pc' = [pc EXCEPT !["browser"] = next[2]]
          /\ UNCHANGED devicePlayer
    BY <1>4 DEF BuildPlayer
  <2>2. x \in Player /\ \A t \in Thread : copy[t] # x
    BY DEF NewPlayers, PlayerRefs
  <2> QED BY <2>1, <2>2 DEF NewPlayer
<1>5. CASE StartVideoSetPlayer \/ ResetVideoSetPlayer
  BY <1>5 DEF StartVideoSetPlayer, ResetVideoSetPlayer
<1>6. CASE LaunchPage \/ ResetVideoShutdown
  BY <1>6 DEF LaunchPage, Launch, ResetVideoShutdown, Shutdown
<1>7. CASE StartVideoAttach
  <2>1. PlayersLive'
    BY <1>7, PlayersAttach DEF StartVideoAttach
  <2>2. CopiesRetired'
    BY <1>7 DEF StartVideoAttach
  <2> QED BY <2>1, <2>2
<1>8. CASE StopVideoSteps("browser")
  BY <1>8, PlayersStopVideo
<1> QED BY <1>1, <1>2, <1>3, <1>4, <1>5, <1>6, <1>7, <1>8 DEF Browser

\* every request of the transcoder,
LEMMA PlayersTranscoder ==
  ASSUME PlayersInv, Running, Transcoder
  PROVE  PlayersLive' /\ CopiesRetired'
<1> "transcoder" \in Thread
  BY DEF Thread
<1> USE DEF PlayersInv, TypeOK, PlayersLive, CopiesRetired, At
<1>1. CASE ProcessTSPacket
  BY <1>1 DEF ProcessTSPacket
<1>2. CASE PlayPacket \/ PlayPacketLoop \/ PlayTs
  BY <1>2 DEF PlayPacket, PlayPacketLoop, PlayTs
<1>3. CASE StopVideoSteps("transcoder")
  BY <1>3, PlayersStopVideo
<1> QED BY <1>1, <1>2, <1>3 DEF Transcoder

\* the worker,
LEMMA PlayersWorker ==
  ASSUME PlayersInv, Running, Worker
  PROVE  PlayersLive' /\ CopiesRetired'
<1> "worker" \in Thread
  BY DEF Thread
<1> USE DEF PlayersInv, TypeOK, PlayersLive, CopiesRetired, At
<1>1. CASE WorkerLook \/ WorkerTake
  BY <1>1 DEF WorkerLook, WorkerTake
<1>2. CASE WorkerNull
  BY <1>2, NullAssumption DEF WorkerNull
<1>3. CASE WorkerDelete
  BY <1>3 DEF WorkerDelete, DeletePlayer
<1> QED BY <1>1, <1>2, <1>3 DEF Worker

\* the main loop,
LEMMA PlayersMain ==
  ASSUME PlayersInv, Running, Main
  PROVE  PlayersLive' /\ CopiesRetired'
<1> "main" \in Thread
  BY DEF Thread
<1> USE DEF PlayersInv, TypeOK, PlayersLive, CopiesRetired, At
<1>1. CASE TakeCall \/ MenuActionClose \/ CloseDone \/ MenuActionOpen
             \/ OpenDone
  BY <1>1 DEF TakeCall, MenuActionClose, CloseDone, MenuActionOpen, OpenDone
<1>2. CASE MainDeleteMenu \/ CloseMenu
  BY <1>2 DEF MainDeleteMenu, CloseMenu, DeleteMenu
<1>3. CASE KeyOrVolume \/ InfoKey \/ PageUsed \/ ServiceCall
  BY <1>3 DEF KeyOrVolume, InfoKey, PageUsed, ServiceCall
<1>4. CASE ControlShutdown
  BY <1>4 DEF ControlShutdown, Shutdown
<1>5. CASE MainAttach
  <2>1. PlayersLive'
    BY <1>5, PlayersAttach DEF MainAttach
  <2>2. CopiesRetired'
    BY <1>5 DEF MainAttach
  <2> QED BY <2>1, <2>2
<1>6. ASSUME NEW c \in Events \cap {"MAIN", "M3U", "URL"}, Service(c)
      PROVE  PlayersLive' /\ CopiesRetired'
  BY <1>6 DEF Service
<1> QED BY <1>1, <1>2, <1>3, <1>4, <1>5, <1>6 DEF Main, MainCall, MainOther

\* and thus every step.
LEMMA PlayersStep == PlayersInv /\ [Next]_vars => PlayersInv'
<1> SUFFICES ASSUME PlayersInv, [Next]_vars PROVE PlayersLive' /\ CopiesRetired'
  BY TypeStep DEF PlayersInv
<1>1. CASE Running /\ (Browser \/ Transcoder \/ Worker \/ Main)
  BY <1>1, PlayersBrowser, PlayersTranscoder, PlayersWorker, PlayersMain
<1>2. CASE Running /\ UserOpens
  BY <1>2 DEF PlayersInv, PlayersLive, CopiesRetired, UserOpens
<1>3. CASE \E t \in Thread : Fault(t)
  BY <1>3 DEF PlayersInv, PlayersLive, CopiesRetired, Fault
<1>4. CASE UNCHANGED vars
  BY <1>4 DEF PlayersInv, PlayersLive, CopiesRetired, vars
<1> QED BY <1>1, <1>2, <1>3, <1>4 DEF Next

\* No interleaving of StopVideo, a late TS packet, the regular worker and new
\* videos leaves the global player or the device's player pointing to a
\* deleted player.
THEOREM PlayersStayLive == Spec => []PlayersLive
<1>1. Init => PlayersInv
  BY TypeInit DEF Init, PlayersInv, PlayersLive, CopiesRetired
<1> QED BY <1>1, PlayersStep, PTL DEF Spec, PlayersInv

-----------------------------------------------------------------------------
(* The pending command.                                                    *)

\* A command other than OPEN is always on its way into MainMenuAction.
LEMMA CommandStep ==
  TypeOK /\ NoStrandedCommand /\ [Next]_vars => NoStrandedCommand'
<1> SUFFICES ASSUME TypeOK, NoStrandedCommand, [Next]_vars
             PROVE  NoStrandedCommand'
  OBVIOUS
<1> USE DEF NoStrandedCommand, TypeOK, At
<1> "browser" \in Thread /\ "transcoder" \in Thread /\ "worker" \in Thread
      /\ "main" \in Thread
  BY DEF Thread
<1>1. ASSUME NEW t \in {"browser", "transcoder"}, StopVideoSteps(t)
      PROVE  NoStrandedCommand'
  BY <1>1 DEF StopVideoSteps, StopCheck, StopNull, StopDelete, StopCommand,
              StopCall
<1>2. CASE Browser
  <2>1. ASSUME NEW i \in Info, StartVideo(i) \/ ResetVideo(i)
        PROVE  NoStrandedCommand'
    BY <2>1 DEF StartVideo, ResetVideo
  <2>2. CASE StartVideoCall \/ StopVideo \/ ResetVideoPlayer \/ ResetVideoDone
               \/ PlayerRequest \/ OsdUpdate \/ Used
    BY <2>2 DEF StartVideoCall, StopVideo, ResetVideoPlayer, ResetVideoDone,
                PlayerRequest, OsdUpdate, Used
  <2>3. CASE BuildPage \/ BuildPlayer \/ LaunchPage
    BY <2>3 DEF BuildPage, BuildPlayer, LaunchPage
  <2>4. CASE StartVideoSetPlayer \/ ResetVideoSetPlayer \/ StartVideoAttach
               \/ ResetVideoShutdown
    BY <2>4 DEF StartVideoSetPlayer, ResetVideoSetPlayer, StartVideoAttach,
                ResetVideoShutdown
  <2> QED BY <1>1, <1>2, <2>1, <2>2, <2>3, <2>4 DEF Browser
<1>3. CASE Transcoder
  BY <1>1, <1>3 DEF Transcoder, ProcessTSPacket, PlayPacket, PlayPacketLoop,
                    PlayTs
<1>4. CASE Worker
  BY <1>4 DEF Worker, WorkerLook, WorkerTake, WorkerNull, WorkerDelete
<1>5. CASE Main
  <2>1. CASE MainCall
    BY <2>1 DEF MainCall, TakeCall, MainDeleteMenu, MenuActionClose, CloseDone,
                MenuActionOpen, OpenDone
  <2>2. CASE MainOther
    BY <2>2 DEF MainOther, KeyOrVolume, InfoKey, PageUsed, CloseMenu,
                ControlShutdown, MainAttach, Service, ServiceCall
  <2> QED BY <1>5, <2>1, <2>2 DEF Main
<1>6. CASE UserOpens
  BY <1>6 DEF UserOpens
<1>7. CASE \E t \in Thread : Fault(t)
  BY <1>7 DEF Fault
<1>8. CASE UNCHANGED vars
  BY <1>8 DEF vars
<1> QED BY <1>2, <1>3, <1>4, <1>5, <1>6, <1>7, <1>8 DEF Next

\* StartVideo's CLOSE, stopVideo's REOPEN and Service's commands never wait
\* without a call under way.
THEOREM CommandNotStranded == Spec => []NoStrandedCommand
<1>1. Init => NoStrandedCommand
  BY DEF Init, NoStrandedCommand
<1> QED BY <1>1, TypeInit, TypeStep, CommandStep, PTL DEF Spec

-----------------------------------------------------------------------------
(* The pages.                                                              *)

PagesInv == TypeOK /\ PagesOwned /\ ControlRegistered /\ MainHolds
              /\ BrowserHolds

PagesGoal == PagesOwned' /\ ControlRegistered' /\ MainHolds' /\ BrowserHolds'

\* The places of the browser's handler that the invariants talk about.
Holding == Building \/ pc["browser"] \in {"sv_attach", "rv_setplayer"}

\* A step that leaves the pages' modes, the slots, the menu, the control and
\* the main loop alone, and the browser's handler too unless that holds no
\* page before and after, disturbs none of it.
LEMMA PagesQuiet ==
  ASSUME PagesInv, UNCHANGED <<webOsdPage, playerWebOsdPage, menu, control>>,
         \A p \in Page : pages'[p].mode = pages[p].mode,
         UNCHANGED <<pc["main"], page["main"]>>,
         \/ UNCHANGED <<pc["browser"], page["browser"]>>
         \/ ~Holding /\ ~Holding'
  PROVE  PagesGoal
<1> USE DEF PagesInv, TypeOK
<1>1. PagesOwned'
  BY DEF PagesOwned, Building, Holding
<1>2. ControlRegistered'
  BY DEF ControlRegistered, Holding
<1>3. MainHolds'
  BY DEF MainHolds
<1>4. BrowserHolds'
  BY DEF BrowserHolds, Building, Holding
<1> QED BY <1>1, <1>2, <1>3, <1>4 DEF PagesGoal

\* StopVideo keeps the pages' invariant.
LEMMA PagesStopVideo ==
  ASSUME PagesInv, NEW t \in {"browser", "transcoder"}, StopVideoSteps(t)
  PROVE  PagesGoal
<1> t \in Thread /\ "browser" \in Thread /\ "main" \in Thread
  BY DEF Thread
<1>1. /\ UNCHANGED <<slots, pages, menu, control, pc["main"], page["main"]>>
      /\ \/ UNCHANGED <<pc["browser"], page["browser"]>>
         \/ /\ pc["browser"] \in {"stop_check", "stop_null", "stop_delete",
                                  "stop_cmd", "stop_call"}
            /\ pc'["browser"] \in {"idle", "stop_null", "stop_delete",
                                   "stop_cmd", "stop_call"}
  BY DEF PagesInv, TypeOK, StopVideoSteps, StopCheck, StopNull, StopDelete,
         StopCommand, StopCall, At
<1>2. \/ UNCHANGED <<pc["browser"], page["browser"]>>
      \/ ~Holding /\ ~Holding'
  BY <1>1 DEF Holding, Building
<1>3. \A p \in Page : pages'[p].mode = pages[p].mode
  BY <1>1
<1>4. UNCHANGED <<webOsdPage, playerWebOsdPage, menu, control>>
  BY <1>1
<1>5. UNCHANGED <<pc["main"], page["main"]>>
  BY <1>1
<1> QED BY <1>2, <1>3, <1>4, <1>5, PagesQuiet

\* What a step may take for granted of the pages it dereferences or deletes.
LEMMA SafePages ==
  /\ At("main", "idle") => {MenuPage, control} \subseteq LivePages \cup {Null}
  /\ At("main", "m_delete") => MenuPage \in LivePages \cup {Null}
  /\ \A l \in {"sv_launch", "sv_attach", "rv_shutdown", "rv_launch"} :
       At("browser", l) => control \in LivePages \cup {Null}
  /\ At("browser", "rv_setplayer") =>
       page["browser"] \in LivePages \cup {Null}
<1>1. pc["main"] = "idle" => TouchedPages("main") = {MenuPage, control}
  BY DEF TouchedPages
<1>2. pc["main"] = "m_delete" => TouchedPages("main") = {MenuPage}
  BY DEF TouchedPages
<1>3. \A l \in {"sv_launch", "sv_attach", "rv_shutdown", "rv_launch"} :
        pc["browser"] = l => TouchedPages("browser") = {control}
  BY DEF TouchedPages
<1>4. pc["browser"] = "rv_setplayer" =>
        TouchedPages("browser") = {page["browser"]}
  BY DEF TouchedPages
<1> QED BY <1>1, <1>2, <1>3, <1>4 DEF At, Safe

SlotsExact == \A p \in Page : /\ pages[p].mode = "OSD"    <=> p = webOsdPage
                              /\ pages[p].mode = "PLAYER" <=> p = playerWebOsdPage

\* Deleting an existing page empties its slot and touches no other page.
LEMMA DeleteExact ==
  ASSUME TypeOK, SlotsExact, NEW p \in LivePages \cup {Null}, DeletePage(p)
  PROVE  /\ SlotsExact'
         /\ webOsdPage' = IF p = webOsdPage THEN Null ELSE webOsdPage
         /\ playerWebOsdPage' = IF p = playerWebOsdPage THEN Null
                                                        ELSE playerWebOsdPage
         /\ \A q \in Page : pages'[q].mode = "OSD" => pages[q].mode = "OSD"
<1>1. \A q \in Page : pages'[q] = IF q = p THEN Free ELSE pages[q]
  BY DEF DeletePage
<1>2. Free.mode = "CLOSED"
  BY DEF Free, NewPage
<1>3. CASE p = Null
  <2>1. p \notin Page
    BY <1>3, NullAssumption
  <2> QED BY <1>1, <1>3, <2>1 DEF DeletePage, SlotsExact
<1>4. CASE p \in LivePages
  <2>1. p \in Page /\ p # Null /\ pages[p].mode \in {"OSD", "PLAYER"}
    BY <1>4, NullAssumption DEF LivePages, TypeOK, PageType, Mode
  <2>2. CASE pages[p].mode = "OSD"
    BY <1>1, <1>2, <2>1, <2>2, NullAssumption DEF DeletePage, SlotsExact
  <2>3. CASE pages[p].mode = "PLAYER"
    BY <1>1, <1>2, <2>1, <2>3, NullAssumption DEF DeletePage, SlotsExact
  <2> QED BY <2>1, <2>2, <2>3
<1> QED BY <1>3, <1>4

\* Filling an empty slot takes an address nobody holds.
LEMMA CreateExact ==
  ASSUME TypeOK, SlotsExact, NEW t \in Thread, NEW k \in {"OSD", "PLAYER"},
         Create(t, k)
  PROVE  /\ SlotsExact'
         /\ page'[t] \in Page
         /\ k = "OSD" => /\ webOsdPage' = page'[t]
                         /\ playerWebOsdPage' = playerWebOsdPage
                         /\ webOsdPage # Null => webOsdPage' = webOsdPage
                         /\ webOsdPage = Null =>
                              \A u \in Thread : page'[t] # page[u]
         /\ k = "PLAYER" => /\ playerWebOsdPage' = page'[t]
                            /\ webOsdPage' = webOsdPage
                            /\ playerWebOsdPage # Null =>
                                 playerWebOsdPage' = playerWebOsdPage
         /\ \A q \in Page : q # page'[t] => pages'[q] = pages[q]
         /\ \A u \in Thread : u # t => page'[u] = page[u]
         /\ pages'[page'[t]].mode = k
<1> DEFINE slot == IF k = "OSD" THEN webOsdPage ELSE playerWebOsdPage
<1>1. PICK p \in IF slot = Null THEN NewPages ELSE {slot} :
        /\ page' = [page EXCEPT ![t] = p]
        /\ pages' = IF slot = Null THEN [pages EXCEPT ![p] = NewPage(k)]
                                  ELSE pages
        /\ webOsdPage' = IF k = "OSD" THEN p ELSE webOsdPage
        /\ playerWebOsdPage' = IF k = "PLAYER" THEN p ELSE playerWebOsdPage
  BY DEF Create
<1>2. p \in Page /\ page'[t] = p
  BY <1>1 DEF TypeOK, NewPages
<1>3. NewPage(k).mode = k
  BY DEF NewPage
<1>4. CASE slot = Null
  <2>1. p \notin PageRefs /\ pages[p].mode = "CLOSED"
    BY <1>1, <1>4 DEF NewPages, LivePages
  <2>2. \A q \in Page : pages'[q] = IF q = p THEN NewPage(k) ELSE pages[q]
    BY <1>1, <1>2, <1>4 DEF TypeOK
  <2>3. SlotsExact'
    BY <1>1, <1>2, <1>3, <1>4, <2>1, <2>2, NullAssumption
       DEF SlotsExact, PageRefs
  <2>4. \A u \in Thread : p # page[u]
    BY <2>1 DEF PageRefs
  <2> QED BY <1>1, <1>2, <1>3, <1>4, <2>2, <2>3, <2>4 DEF TypeOK
<1>5. CASE slot # Null
  <2>1. p = slot /\ pages' = pages
    BY <1>1, <1>5
  <2>2. SlotsExact'
    BY <1>1, <2>1 DEF SlotsExact
  <2> QED BY <1>1, <1>2, <1>5, <2>1, <2>2 DEF TypeOK, SlotsExact
<1> QED BY <1>4, <1>5

\* Outside MainMenuAction the OSD page is VDR's menu.
LEMMA OsdPageIsMenu ==
  ASSUME PagesInv, pc["main"] # "m_done", webOsdPage # Null
  PROVE  menu = webOsdPage
BY DEF PagesInv, PagesOwned

\* The pages after DELETE_MENU, which deletes whatever the menu stands for.
LEMMA PagesDeleteMenu ==
  ASSUME PagesInv, DeleteMenu, At("main", "m_delete") \/ At("main", "idle"),
         UNCHANGED <<page, pc["browser"]>>,
         pc'["main"] \in {"idle", "m_action"}
  PROVE  PagesGoal
<1> USE DEF PagesInv
<1>1. MenuPage \in LivePages \cup {Null} /\ pc["main"] \in {"idle", "m_delete"}
  BY SafePages DEF At
<1>2. SlotsExact
  BY DEF PagesOwned, SlotsExact
<1>3. DeletePage(MenuPage) /\ menu' = Null
  BY DEF DeleteMenu
<1>4. /\ SlotsExact'
      /\ webOsdPage' = IF MenuPage = webOsdPage THEN Null ELSE webOsdPage
      /\ playerWebOsdPage' = IF MenuPage = playerWebOsdPage
                             THEN Null ELSE playerWebOsdPage
      /\ \A q \in Page : pages'[q].mode = "OSD" => pages[q].mode = "OSD"
  BY <1>1, <1>2, <1>3, DeleteExact
<1>5. control' = IF control = MenuPage THEN Null ELSE control
  BY DEF DeleteMenu
<1>6. webOsdPage' = Null
  <2>1. CASE webOsdPage = Null
    BY <2>1, <1>4
  <2>2. CASE webOsdPage # Null
    <3>1. menu = webOsdPage
      BY <1>1, <2>2, OsdPageIsMenu
    <3>2. menu # Dummy
      BY <2>2, <3>1, DummyAssumption DEF TypeOK
    <3> QED BY <1>4, <3>1, <3>2 DEF MenuPage
  <2> QED BY <2>1, <2>2
<1>7. PagesOwned'
  BY <1>4, <1>5, <1>6 DEF PagesOwned, SlotsExact, Building
<1>8. ControlRegistered'
  BY <1>4, <1>5 DEF ControlRegistered
<1>9. MainHolds'
  BY <1>3 DEF MainHolds
<1>10. BrowserHolds'
  BY <1>4 DEF BrowserHolds, Building
<1> QED BY <1>7, <1>8, <1>9, <1>10 DEF PagesGoal

\* So does the main loop,
LEMMA PagesMain ==
  ASSUME PagesInv, Running, Main
  PROVE  PagesGoal
<1> "main" \in Thread /\ "browser" \in Thread
  BY DEF Thread
<1> USE DEF PagesInv, TypeOK
<1>1. CASE TakeCall
  BY <1>1 DEF TakeCall, At, PagesGoal, PagesOwned, ControlRegistered, MainHolds,
              BrowserHolds, Building
<1>2. CASE MainDeleteMenu
  BY <1>2, PagesDeleteMenu DEF MainDeleteMenu
<1>3. CASE CloseMenu
  BY <1>3, PagesDeleteMenu DEF CloseMenu, At
<1>4. CASE MenuActionClose \/ CloseDone
  <2>1. menu = Null /\ webOsdPage = Null
    BY <1>4, OsdPageIsMenu DEF MenuActionClose, CloseDone, At, MainHolds
  <2> QED BY <1>4, <2>1 DEF MenuActionClose, CloseDone, At, PagesGoal,
             PagesOwned, ControlRegistered, MainHolds, BrowserHolds, Building
<1>5. CASE MenuActionOpen
  <2>1. menu = Null /\ webOsdPage = Null
    BY <1>5, OsdPageIsMenu DEF MenuActionOpen, At, MainHolds
  <2>2. /\ Create("main", "OSD") /\ pc' = [pc EXCEPT !["main"] = "m_done"]
        /\ UNCHANGED <<menu, control>>
    BY <1>5 DEF MenuActionOpen
  <2>3. SlotsExact
    BY DEF PagesOwned, SlotsExact
  <2>4. /\ SlotsExact' /\ page'["main"] \in Page
        /\ webOsdPage' = page'["main"] /\ playerWebOsdPage' = playerWebOsdPage
        /\ page'["main"] # page["browser"]
        /\ page'["browser"] = page["browser"]
        /\ \A q \in Page : q # page'["main"] => pages'[q] = pages[q]
    BY <2>1, <2>2, <2>3, CreateExact
  <2>5. PagesOwned'
    BY <2>2, <2>4 DEF PagesOwned, SlotsExact, Building
  <2>6. ControlRegistered'
    BY <2>2, <2>4 DEF ControlRegistered
  <2>7. MainHolds'
    BY <2>1, <2>2, <2>4 DEF MainHolds
  <2>8. BrowserHolds'
    BY <2>2, <2>4 DEF BrowserHolds, Building
  <2> QED BY <2>5, <2>6, <2>7, <2>8 DEF PagesGoal
<1>6. CASE OpenDone
  BY <1>6 DEF OpenDone, At, PagesGoal, PagesOwned, ControlRegistered, MainHolds,
              BrowserHolds, Building
<1>7. CASE KeyOrVolume \/ PageUsed
  BY <1>7 DEF KeyOrVolume, PageUsed, At, PagesGoal, PagesOwned,
              ControlRegistered, MainHolds, BrowserHolds, Building
<1>8. CASE InfoKey
  <2>1. menu = Null /\ webOsdPage = Null
    BY <1>8, OsdPageIsMenu DEF InfoKey, At
  <2> QED BY <1>8, <2>1 DEF InfoKey, At, PagesGoal, PagesOwned,
             ControlRegistered, MainHolds, BrowserHolds, Building
<1>9. CASE MainAttach
  <2>1. \A p \in Page : pages'[p].mode = pages[p].mode
    BY <1>9 DEF MainAttach, Attach, AttachLooks, LivePages, PageType
  <2> QED BY <1>9, <2>1, PagesQuiet DEF MainAttach, Attach
<1>10. ASSUME NEW c \in Events \cap {"MAIN", "M3U", "URL"}, Service(c)
       PROVE  PagesGoal
  BY <1>10 DEF Service, At, PagesGoal, PagesOwned, ControlRegistered,
               MainHolds, BrowserHolds, Building
<1>11. CASE ServiceCall
  BY <1>11 DEF ServiceCall, At, PagesGoal, PagesOwned,
               ControlRegistered, MainHolds, BrowserHolds, Building
<1>12. CASE ControlShutdown
  <2>1. control \in LivePages \cup {Null} /\ pc["main"] = "idle"
    BY <1>12, SafePages DEF ControlShutdown, At
  <2>2. DeletePage(control) /\ control' = Null /\ UNCHANGED <<menu, pc, page>>
    BY <1>12 DEF ControlShutdown, Shutdown
  <2>3. SlotsExact
    BY DEF PagesOwned, SlotsExact
  <2>4. /\ SlotsExact'
        /\ webOsdPage' = IF control = webOsdPage THEN Null ELSE webOsdPage
        /\ playerWebOsdPage' = IF control = playerWebOsdPage
                               THEN Null ELSE playerWebOsdPage
        /\ \A q \in Page : pages'[q].mode = "OSD" => pages[q].mode = "OSD"
    BY <2>1, <2>2, <2>3, DeleteExact
  <2>5. PagesOwned'
    BY <2>1, <2>2, <2>4 DEF PagesOwned, SlotsExact, Building
  <2>6. ControlRegistered' /\ MainHolds' /\ BrowserHolds'
    BY <2>1, <2>2, <2>4
       DEF ControlRegistered, MainHolds, BrowserHolds, Building
  <2> QED BY <2>5, <2>6 DEF PagesGoal
<1> QED BY <1>1, <1>2, <1>3, <1>4, <1>5, <1>6, <1>7, <1>8, <1>9, <1>10, <1>11,
           <1>12 DEF Main, MainCall, MainOther

\* cControl::Launch and Shutdown in the browser's handler: the control they
\* delete exists, and it is the player page.
LEMMA PagesReplaceControl ==
  ASSUME PagesInv, DeletePage(control),
         NEW l \in {"sv_launch", "rv_shutdown", "rv_launch"}, At("browser", l)
  PROVE  /\ SlotsExact'
         /\ webOsdPage' = webOsdPage
         /\ playerWebOsdPage' = IF control # Null THEN Null
                                                  ELSE playerWebOsdPage
         /\ \A q \in Page : pages'[q].mode = "OSD" => pages[q].mode = "OSD"
<1> USE DEF PagesInv, TypeOK
<1>1. control \in LivePages \cup {Null}
  BY SafePages
<1>2. SlotsExact
  BY DEF PagesOwned, SlotsExact
<1>3. control \in {Null, playerWebOsdPage}
  BY DEF ControlRegistered, At
<1>4. control # Null => control # webOsdPage
  BY <1>2, <1>3 DEF SlotsExact
<1> QED BY <1>1, <1>2, <1>3, <1>4, DeleteExact

\* every request of the browser,
LEMMA PagesBrowser ==
  ASSUME PagesInv, Running, Browser
  PROVE  PagesGoal
<1> "main" \in Thread /\ "browser" \in Thread
  BY DEF Thread
<1> USE DEF PagesInv, TypeOK
<1>1. ASSUME NEW i \in Info, StartVideo(i) \/ ResetVideo(i)
      PROVE  PagesGoal
  BY <1>1, PagesQuiet DEF StartVideo, ResetVideo, At, Holding, Building
<1>2. CASE StartVideoCall \/ StopVideo \/ ResetVideoPlayer
  BY <1>2, PagesQuiet
     DEF StartVideoCall, StopVideo, ResetVideoPlayer, At, Holding, Building
<1>3. CASE ResetVideoDone \/ PlayerRequest \/ OsdUpdate \/ Used
  BY <1>3, PagesQuiet DEF ResetVideoDone, PlayerRequest, OsdUpdate, Used, At,
                          Holding, Building
<1>4. CASE StopVideoSteps("browser")
  BY <1>4, PagesStopVideo
<1>5. CASE BuildPage
  <2>1. PICK next \in {<<"sv_create", "sv_display">>,
                       <<"rv_create", "rv_display">>} :
          /\ pc["browser"] = next[1]
          /\ Create("browser", "PLAYER")
          /\ pc' = [pc EXCEPT !["browser"] = next[2]]
          /\ UNCHANGED <<menu, control>>
    BY <1>5 DEF BuildPage, At
  <2>2. SlotsExact
    BY DEF PagesOwned, SlotsExact
  <2>3. /\ SlotsExact' /\ page'["browser"] \in Page
        /\ playerWebOsdPage' = page'["browser"] /\ webOsdPage' = webOsdPage
        /\ playerWebOsdPage # Null => playerWebOsdPage' = playerWebOsdPage
        /\ page'["main"] = page["main"]
        /\ pages'[page'["browser"]].mode = "PLAYER"
    BY <2>1, <2>2, CreateExact
  <2>4. PagesOwned'
    BY <2>1, <2>3 DEF PagesOwned, SlotsExact, Building
  <2>5. ControlRegistered'
    BY <2>1, <2>3 DEF ControlRegistered
  <2>6. MainHolds' /\ BrowserHolds'
    BY <2>1, <2>3 DEF MainHolds, BrowserHolds
  <2> QED BY <2>4, <2>5, <2>6 DEF PagesGoal
<1>6. CASE BuildPlayer
  BY <1>6 DEF BuildPlayer, At, PagesGoal, PagesOwned, ControlRegistered,
              MainHolds, BrowserHolds, Building
<1>7. CASE StartVideoSetPlayer \/ ResetVideoSetPlayer
  <2>1. \A p \in Page : pages'[p].mode = pages[p].mode
    BY <1>7 DEF StartVideoSetPlayer, ResetVideoSetPlayer, PageType
  <2>2. CASE StartVideoSetPlayer
    BY <2>1, <2>2 DEF StartVideoSetPlayer, At, PagesGoal, PagesOwned,
                      ControlRegistered, MainHolds, BrowserHolds, Building
  <2>3. CASE ResetVideoSetPlayer
    <3>1. page["browser"] \in LivePages /\ pc["browser"] = "rv_setplayer"
      BY <2>3, SafePages, NullAssumption
         DEF ResetVideoSetPlayer, At, BrowserHolds
    <3>2. page["browser"] = playerWebOsdPage
      BY <3>1 DEF LivePages, BrowserHolds, PagesOwned, PageType, Mode
    <3> QED BY <2>1, <2>3, <3>1, <3>2
            DEF ResetVideoSetPlayer, At, PagesGoal, PagesOwned,
                ControlRegistered, MainHolds, BrowserHolds, Building
  <2> QED BY <1>7, <2>2, <2>3
<1>8. CASE LaunchPage
  <2>1. PICK next \in {<<"sv_launch", "sv_attach">>,
                       <<"rv_launch", "rv_setplayer">>} :
          /\ At("browser", next[1])
          /\ Launch(page["browser"])
          /\ pc' = [pc EXCEPT !["browser"] = next[2]]
          /\ UNCHANGED page
    BY <1>8 DEF LaunchPage
  <2>2. /\ pc["browser"] \in {"sv_launch", "rv_launch"}
        /\ pc'["browser"] \in {"sv_attach", "rv_setplayer"}
    BY <2>1 DEF At
  <2>3. /\ DeletePage(control) /\ UNCHANGED menu
        /\ control' = IF control = page["browser"] THEN Null
                                                   ELSE page["browser"]
    BY <2>1 DEF Launch
  <2>4. /\ SlotsExact'
        /\ webOsdPage' = webOsdPage
        /\ playerWebOsdPage' = IF control # Null THEN Null
                                                 ELSE playerWebOsdPage
        /\ \A q \in Page : pages'[q].mode = "OSD" => pages[q].mode = "OSD"
    BY <2>1, <2>3, PagesReplaceControl
  <2>5. page["browser"] \in Page
    BY <2>2 DEF BrowserHolds, Building
  <2>6. PagesOwned'
    BY <2>1, <2>2, <2>3, <2>4, <2>5, NullAssumption
       DEF PagesOwned, SlotsExact, Building
  <2>7. ControlRegistered' /\ MainHolds' /\ BrowserHolds'
    BY <2>1, <2>2, <2>3, <2>4, <2>5
       DEF ControlRegistered, MainHolds, BrowserHolds, Building
  <2> QED BY <2>6, <2>7 DEF PagesGoal
<1>9. CASE StartVideoAttach
  <2>1. \A p \in Page : pages'[p].mode = pages[p].mode
    BY <1>9 DEF StartVideoAttach, Attach, AttachLooks, LivePages, PageType
  <2>2. control \in LivePages \cup {Null} /\ pc["browser"] = "sv_attach"
    BY <1>9, SafePages DEF StartVideoAttach, At
  <2>3. control \in {Null, playerWebOsdPage}
    BY <2>2 DEF LivePages, ControlRegistered, BrowserHolds, PagesOwned,
                PageType, Mode
  <2> QED BY <1>9, <2>1, <2>2, <2>3
          DEF StartVideoAttach, Attach, PagesGoal, PagesOwned,
              ControlRegistered, MainHolds, BrowserHolds, Building
<1>10. CASE ResetVideoShutdown
  <2>1. /\ At("browser", "rv_shutdown") /\ DeletePage(control)
        /\ control' = Null /\ UNCHANGED <<menu, page>>
        /\ pc' = [pc EXCEPT !["browser"] = "rv_create"]
    BY <1>10 DEF ResetVideoShutdown, Shutdown
  <2>2. /\ SlotsExact'
        /\ webOsdPage' = webOsdPage
        /\ playerWebOsdPage' = IF control # Null THEN Null
                                                 ELSE playerWebOsdPage
    BY <2>1, PagesReplaceControl
  <2>3. pc["browser"] = "rv_shutdown"
    BY <2>1 DEF At
  <2> QED BY <2>1, <2>2, <2>3
          DEF PagesGoal, PagesOwned, SlotsExact, ControlRegistered, MainHolds,
              BrowserHolds, Building
<1> QED BY <1>1, <1>2, <1>3, <1>4, <1>5, <1>6, <1>7, <1>8, <1>9, <1>10
        DEF Browser

\* everybody else,
LEMMA PagesOthers ==
  ASSUME PagesInv, Running, Transcoder \/ Worker \/ UserOpens
  PROVE  PagesGoal
<1> /\ "main" \in Thread /\ "browser" \in Thread
    /\ "transcoder" \in Thread /\ "worker" \in Thread
  BY DEF Thread
<1>1. CASE StopVideoSteps("transcoder")
  BY <1>1, PagesStopVideo
<1>2. CASE ProcessTSPacket \/ PlayPacket \/ PlayPacketLoop \/ PlayTs
  BY <1>2, PagesQuiet DEF PagesInv, TypeOK, ProcessTSPacket, PlayPacket,
                          PlayPacketLoop, PlayTs
<1>3. CASE Worker
  BY <1>3, PagesQuiet DEF PagesInv, TypeOK, Worker, WorkerLook, WorkerTake,
                          WorkerNull, WorkerDelete
<1>4. CASE UserOpens
  BY <1>4, PagesQuiet DEF UserOpens
<1> QED BY <1>1, <1>2, <1>3, <1>4 DEF Transcoder

\* and thus every step.
LEMMA PagesStep == PagesInv /\ [Next]_vars => PagesInv'
<1> SUFFICES ASSUME PagesInv, [Next]_vars PROVE PagesGoal
  BY TypeStep DEF PagesInv, PagesGoal
<1>1. CASE Running /\ (Browser \/ Transcoder \/ Worker \/ Main \/ UserOpens)
  BY <1>1, PagesBrowser, PagesMain, PagesOthers
<1>2. CASE \E t \in Thread : Fault(t)
  BY <1>2, PagesQuiet DEF Fault
<1>3. CASE UNCHANGED vars
  BY <1>3, PagesQuiet DEF vars
<1> QED BY <1>1, <1>2, <1>3 DEF Next

\* The pages' invariant holds initially.
LEMMA PagesInit == Init => PagesInv
<1> SUFFICES ASSUME Init PROVE PagesInv
  OBVIOUS
<1>1. \A p \in Page : pages[p].mode = "CLOSED"
  BY DEF Init, Free, NewPage
<1> QED BY <1>1, TypeInit, NullAssumption
        DEF Init, PagesInv, PagesOwned, ControlRegistered, MainHolds,
            BrowserHolds, Building, Thread

\* Every existing page is in the slot of its mode and has an owner that will
\* delete it, whatever the browser, the user and the dummy OSD do meanwhile.
THEOREM PagesStayOwned == Spec => []PagesOwned
BY PagesInit, PagesStep, PTL DEF Spec, PagesInv

\* VDR never keeps a control that is not the player page, except while the
\* handler that launched a page deleted under it has not come back.
THEOREM ControlStaysRegistered == Spec => []ControlRegistered
BY PagesInit, PagesStep, PTL DEF Spec, PagesInv

\* The whole inductive invariant.
THEOREM SessionInvariant == Spec => []IInv
<1>1. Init => IInv
  BY PagesInit
     DEF Init, IInv, PagesInv, PlayersLive, CopiesRetired, NoStrandedCommand
<1>2. IInv /\ [Next]_vars => IInv'
  BY PagesStep, PlayersStep, CommandStep DEF IInv, PagesInv, PlayersInv
<1> QED BY <1>1, <1>2, PTL DEF Spec
=============================================================================
