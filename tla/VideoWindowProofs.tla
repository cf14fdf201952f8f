------------------------- MODULE VideoWindowProofs -------------------------
(***************************************************************************)
(* Proofs about complete handlers, one after the other (WebSessionSerial), *)
(* and about where they leave the picture (VideoWindow): for any sets of   *)
(* addresses, formats, events and windows.                                 *)
(***************************************************************************)
EXTENDS VideoWindow, WebSessionProofs

\* At most one thread is inside a handler.
OneHandler == \A t, u \in Thread : t = u \/ pc[t] = "idle" \/ pc[u] = "idle"

\* VDR's control is always the page in the player slot.
ControlIsSlot == control \in {Null, playerWebOsdPage}

\* What a handler knows of the global player: it is there where it was found or
\* made, and a copy names it until it is cleared.
PlayerKept == {"stop_null", "w_null", "use_player", "ts_enter", "ts_loop",
               "ts_play", "sv_setplayer"}
PlayerThere == {"sv_launch", "sv_attach", "rv_shutdown", "rv_create", "rv_display",
                "rv_launch", "rv_setplayer", "rv_reset", "rv_done"}
PlayerHeld(t) ==
  /\ pc[t] \in PlayerKept => copy[t] = videoPlayer /\ videoPlayer # Null
  /\ pc[t] \in {"stop_delete", "w_delete"}
       => videoPlayer = Null /\ copy[t] \in players
  /\ pc[t] \in PlayerThere => videoPlayer # Null

\* What the browser's handler knows of the pages and the control.
PageHeld ==
  /\ pc["browser"] \in {"sv_display", "sv_setplayer", "sv_launch",
                        "rv_display", "rv_launch", "rv_setplayer"}
       => playerWebOsdPage # Null /\ page["browser"] = playerWebOsdPage
  /\ pc["browser"] = "draw" => page["browser"] \in {webOsdPage, playerWebOsdPage} \ {Null}
  /\ pc["browser"] = "rv_create" => playerWebOsdPage = Null
  /\ pc["browser"] \in {"rv_create", "rv_display", "rv_launch"} => control = Null
  /\ pc["browser"] = "rv_setplayer" => control = playerWebOsdPage
  /\ pc["browser"] = "sv_launch" => pages[page["browser"]].player = videoPlayer

\* The control plays the global player, but for the steps that replace it.
ControlPlays ==
  pc["browser"] \notin {"sv_setplayer", "rv_setplayer"} /\ control # Null /\ videoPlayer # Null
    => pages[control].player = videoPlayer

\* The places of each thread's handlers.
StopPlace == {"stop_check", "stop_null", "stop_delete", "stop_cmd", "stop_call"}
OwnPlaces ==
  /\ pc["browser"] \in StopPlace \cup
       {"idle", "sv_call", "sv_create", "sv_display", "sv_setplayer", "sv_launch",
        "sv_attach", "rv_shutdown", "rv_create", "rv_display", "rv_launch",
        "rv_setplayer", "rv_reset", "rv_done", "use_player", "draw"}
  /\ pc["transcoder"] \in StopPlace \cup {"idle", "ts_enter", "ts_loop", "ts_play"}
  /\ pc["worker"] \in {"idle", "w_player", "w_null", "w_delete"}
  /\ pc["main"] \in {"idle", "m_delete", "m_action", "m_close", "m_done", "m_use",
                     "m_call"}

SerialInv == /\ OneHandler /\ OwnPlaces /\ ControlIsSlot /\ (\A t \in Thread : PlayerHeld(t))
             /\ PageHeld /\ ControlPlays /\ SerialFaultsInMainOnly

-----------------------------------------------------------------------------
\* The threads, and the types that the steps below need.
LEMMA Threads ==
  /\ "browser" \in Thread /\ "transcoder" \in Thread /\ "worker" \in Thread
  /\ "main" \in Thread
BY DEF Thread

\* A thread that runs alone stays the only one.
LEMMA StaysAlone ==
  ASSUME TypeOK, SerialInv, NEW t \in Thread, Alone(t),
         \A u \in Thread \ {t} : pc'[u] = pc[u]
  PROVE  /\ OneHandler'
         /\ PlayerHeld(t)' => \A u \in Thread : PlayerHeld(u)'
         /\ t # "browser" => pc["browser"] = "idle" /\ pc'["browser"] = "idle" /\ PageHeld'
<1>1. \A u \in Thread \ {t} : pc[u] = "idle" /\ pc'[u] = "idle"
  BY DEF Alone
<1>2. \A u \in Thread \ {t} : PlayerHeld(u)'
  BY <1>1 DEF PlayerHeld, PlayerKept, PlayerThere
<1> QED
  BY <1>1, <1>2, Threads DEF OneHandler, PageHeld

\* A slot that is not empty holds a page that exists.
LEMMA SlotLives ==
  ASSUME TypeOK, PagesOwned
  PROVE  /\ webOsdPage # Null => webOsdPage \in LivePages
         /\ playerWebOsdPage # Null => playerWebOsdPage \in LivePages
BY DEF TypeOK, PagesOwned, LivePages

\* No handler of a peer and no round of the worker meets a deleted object.
LEMMA OthersSafe ==
  ASSUME IInv, SerialInv, NEW t \in Thread \ {"main"}
  PROVE  Safe(t)
<1> USE DEF IInv, SerialInv
<1>1. t \in {"browser", "transcoder", "worker"}
  BY DEF Thread
<1>2. control \in LivePages \cup {Null}
  BY SlotLives DEF ControlIsSlot
<1>3. TouchedPages(t) \subseteq LivePages \cup {Null}
  <2>1. CASE t = "browser"
    <3>1. pc[t] \in {"sv_display", "sv_setplayer", "rv_display", "rv_setplayer", "draw"}
            => page[t] \in LivePages
      BY <2>1, SlotLives DEF PageHeld
    <3>2. pc[t] \notin {"m_use", "m_delete"} /\ t # "main"
      BY <2>1 DEF OwnPlaces, StopPlace
    <3> QED BY <1>2, <3>1, <3>2 DEF TouchedPages
  <2>2. CASE t # "browser"
    <3>1. pc[t] \in StopPlace \cup {"idle", "ts_enter", "ts_loop", "ts_play", "w_player",
                                   "w_null", "w_delete"}
      BY <1>1, <2>2 DEF OwnPlaces
    <3>2. TouchedPages(t) = {}
      BY <1>1, <3>1 DEF TouchedPages, StopPlace
    <3> QED BY <3>2
  <2> QED BY <2>1, <2>2
<1>4. PlayerHeld(t)
  OBVIOUS
<1>5. videoPlayer # Null => videoPlayer \in players
  BY DEF PlayersLive
<1>6. TouchedPlayers(t) \subseteq players
  <2>1. CASE pc[t] \in {"use_player", "ts_enter", "ts_play", "stop_delete", "w_delete"}
    <3>1. TouchedPlayers(t) = {copy[t]}
      BY <2>1 DEF TouchedPlayers
    <3> QED BY <1>4, <1>5, <2>1, <3>1 DEF PlayerHeld, PlayerKept
  <2>2. CASE pc[t] = "rv_reset"
    <3>1. TouchedPlayers(t) = {videoPlayer}
      BY <2>2 DEF TouchedPlayers
    <3> QED BY <1>4, <1>5, <2>2, <3>1 DEF PlayerHeld, PlayerThere
  <2>3. CASE t = "browser" /\ pc[t] = "sv_attach" /\ AttachLooks
    <3>1. TouchedPlayers(t) = {pages[control].player}
      BY <2>3 DEF TouchedPlayers
    <3>2. control \in Page
      BY <2>3 DEF AttachLooks, LivePages
    <3>3. control # Null /\ videoPlayer # Null
      BY <1>4, <2>3, <3>2, NullAssumption DEF PlayerHeld, PlayerThere
    <3>4. pages[control].player = videoPlayer
      BY <2>3, <3>3 DEF ControlPlays
    <3> QED BY <1>5, <3>1, <3>3, <3>4
  <2>4. CASE /\ pc[t] \notin {"use_player", "ts_enter", "ts_play", "stop_delete", "w_delete"}
             /\ pc[t] # "rv_reset"
             /\ ~(t = "browser" /\ pc[t] = "sv_attach" /\ AttachLooks)
    <3>1. TouchedPlayers(t) = {}
      BY <1>1, <2>4 DEF TouchedPlayers
    <3> QED BY <3>1
  <2> QED BY <2>1, <2>2, <2>3, <2>4
<1> QED BY <1>3, <1>6 DEF Safe

USE DEF command, slots, heap, vdr, info, locals, Running, Goto, Return, At

\* What is left to show of a step of one thread that runs alone.
LEMMA StepOf ==
  ASSUME IInv, SerialInv, Running, NEW t \in Thread, Alone(t),
         \A u \in Thread \ {t} : pc'[u] = pc[u],
         OwnPlaces', ControlIsSlot', PlayerHeld(t)', t = "browser" => PageHeld',
         ControlPlays'
  PROVE  SerialInv'
<1>1. OneHandler' /\ (\A u \in Thread : PlayerHeld(u)') /\ PageHeld'
  BY StaysAlone DEF IInv
<1>2. SerialFaultsInMainOnly'
  BY DEF SerialInv, SerialFaultsInMainOnly
<1> QED BY <1>1, <1>2 DEF SerialInv

\* A step that leaves the pages, the slots and the control alone and at most
\* clears the global player.
LEMMA PagesStand ==
  ASSUME SerialInv, UNCHANGED <<slots, pages, control>>,
         videoPlayer' \in {videoPlayer, Null},
         pc["browser"] \notin {"sv_setplayer", "rv_setplayer"}
  PROVE  ControlIsSlot' /\ ControlPlays'
BY DEF SerialInv, ControlIsSlot, ControlPlays

\* One step of stopVideo.
LEMMA SerialStopVideo ==
  ASSUME IInv, SerialInv, Running, NEW t \in {"browser", "transcoder"}, Alone(t),
         StopVideoSteps(t)
  PROVE  SerialInv'
<1> USE DEF IInv, TypeOK
<1>1. t \in Thread
  BY DEF Thread
<1>2. /\ pc[t] \in StopPlace /\ pc'[t] \in StopPlace \cup {"idle"}
      /\ \A u \in Thread \ {t} : pc'[u] = pc[u]
      /\ UNCHANGED <<slots, pages, control>> /\ videoPlayer' \in {videoPlayer, Null}
  BY <1>1 DEF StopVideoSteps, StopCheck, StopNull, StopDelete, StopCommand, StopCall, StopPlace
<1>3. /\ pc["browser"] \in StopPlace \cup {"idle"}
      /\ pc'["browser"] \in StopPlace \cup {"idle"}
  BY <1>1, <1>2, Threads DEF Alone
<1>4. OwnPlaces'
  BY <1>1, <1>2, Threads DEF SerialInv, OwnPlaces, Alone
<1>5. ControlIsSlot' /\ ControlPlays'
  BY <1>2, <1>3, PagesStand DEF StopPlace
<1>6. PageHeld'
  BY <1>3 DEF PageHeld, StopPlace
<1>7. PlayerHeld(t)'
  <2> USE DEF PlayerHeld, PlayerKept, PlayerThere
  <2>1. PlayerHeld(t) /\ PlayersLive /\ CopiesRetired
    BY <1>1 DEF SerialInv
  <2>2. CASE StopCheck(t)
    BY <1>1, <2>2 DEF StopCheck
  <2>3. CASE StopNull(t)
    BY <1>1, <2>1, <2>3, NullAssumption DEF StopNull, PlayersLive
  <2>4. CASE StopDelete(t) \/ StopCommand(t) \/ StopCall(t)
    BY <1>1, <2>4 DEF StopDelete, StopCommand, StopCall
  <2> QED BY <2>2, <2>3, <2>4 DEF StopVideoSteps
<1> QED BY <1>1, <1>2, <1>4, <1>5, <1>6, <1>7, StepOf

\* The transcoder's packets.
LEMMA SerialTranscoder ==
  ASSUME IInv, SerialInv, Running, Alone("transcoder"), Transcoder
  PROVE  SerialInv'
<1> USE DEF IInv, TypeOK
<1>1. CASE ProcessTSPacket \/ PlayPacket \/ PlayPacketLoop \/ PlayTs
  <2>1. /\ pc'["transcoder"] \in {"idle", "stop_check", "ts_enter", "ts_loop", "ts_play"}
        /\ \A u \in Thread \ {"transcoder"} : pc'[u] = pc[u]
        /\ UNCHANGED <<slots, pages, control, videoPlayer>>
    BY <1>1, Threads DEF ProcessTSPacket, PlayPacket, PlayPacketLoop, PlayTs
  <2>2. pc["browser"] = "idle" /\ pc'["browser"] = "idle"
    BY <2>1, Threads DEF Alone
  <2>3. OwnPlaces'
    BY <2>1, Threads DEF SerialInv, OwnPlaces, StopPlace
  <2>4. ControlIsSlot' /\ ControlPlays'
    BY <2>1, <2>2, PagesStand
  <2>5. PlayerHeld("transcoder")'
    <3>1. PlayerHeld("transcoder")
      BY Threads DEF SerialInv
    <3> QED
      BY <1>1, <3>1, Threads DEF ProcessTSPacket, PlayPacket, PlayPacketLoop, PlayTs,
         PlayerHeld, PlayerKept, PlayerThere
  <2> QED BY <2>1, <2>3, <2>4, <2>5, StepOf, Threads
<1>2. CASE StopVideoSteps("transcoder")
  BY <1>2, SerialStopVideo
<1> QED BY <1>1, <1>2 DEF Transcoder

\* The regular worker.
LEMMA SerialWorker ==
  ASSUME IInv, SerialInv, Running, Alone("worker"), Worker
  PROVE  SerialInv'
<1> USE DEF IInv, TypeOK
<1>1. /\ pc'["worker"] \in {"idle", "w_player", "w_null", "w_delete"}
      /\ \A u \in Thread \ {"worker"} : pc'[u] = pc[u]
      /\ UNCHANGED <<slots, pages, control>> /\ videoPlayer' \in {videoPlayer, Null}
  BY Threads DEF Worker, WorkerLook, WorkerTake, WorkerNull, WorkerDelete
<1>2. pc["browser"] = "idle" /\ pc'["browser"] = "idle"
  BY <1>1, Threads DEF Alone
<1>3. OwnPlaces'
  BY <1>1, Threads DEF SerialInv, OwnPlaces
<1>4. ControlIsSlot' /\ ControlPlays'
  BY <1>1, <1>2, PagesStand
<1>5. PlayerHeld("worker")'
  <2> USE DEF PlayerHeld, PlayerKept, PlayerThere
  <2>1. PlayerHeld("worker") /\ PlayersLive
    BY Threads DEF SerialInv
  <2>2. CASE WorkerLook \/ WorkerTake \/ WorkerDelete
    BY <2>2, Threads DEF WorkerLook, WorkerTake, WorkerDelete
  <2>3. CASE WorkerNull
    BY <2>1, <2>3, Threads DEF WorkerNull, PlayersLive
  <2> QED BY <2>2, <2>3 DEF Worker
<1> QED BY <1>1, <1>3, <1>4, <1>5, StepOf, Threads

\* Deleting a page takes it from the control too, and no other page changes.
LEMMA ControlAfterDelete ==
  ASSUME IInv, SerialInv, NEW p \in LivePages \cup {Null}, DeletePage(p),
         control' = (IF control = p THEN Null ELSE control) \/ control' = Null,
         UNCHANGED videoPlayer,
         pc["browser"] \notin {"sv_setplayer", "rv_setplayer"}
  PROVE  ControlIsSlot' /\ ControlPlays'
<1> USE DEF IInv, TypeOK, SerialInv
<1>1. /\ playerWebOsdPage' = IF p = playerWebOsdPage THEN Null ELSE playerWebOsdPage
      /\ \A q \in Page : pages'[q] = IF q = p THEN Free ELSE pages[q]
  BY DeleteExact DEF PagesOwned, SlotsExact, DeletePage
<1>2. ControlIsSlot'
  BY <1>1 DEF ControlIsSlot
<1>3. control' # Null => control' = control /\ control # p /\ control \in Page
  OBVIOUS
<1>4. ControlPlays'
  BY <1>1, <1>3 DEF ControlPlays
<1> QED BY <1>2, <1>4

\* Creating the OSD page touches neither the control's page nor its slot.
LEMMA ControlAfterCreate ==
  ASSUME IInv, SerialInv, Create("main", "OSD"), UNCHANGED <<control, videoPlayer>>,
         pc["browser"] \notin {"sv_setplayer", "rv_setplayer"}
  PROVE  ControlIsSlot' /\ ControlPlays'
<1> USE DEF IInv, TypeOK, SerialInv
<1>1. PICK p \in IF webOsdPage = Null THEN NewPages ELSE {webOsdPage} :
        /\ pages' = IF webOsdPage = Null THEN [pages EXCEPT ![p] = NewPage("OSD")]
                                         ELSE pages
        /\ playerWebOsdPage' = playerWebOsdPage
  BY DEF Create
<1>2. webOsdPage = Null => p # control
  BY <1>1 DEF NewPages, PageRefs
<1>3. control # Null => control \in Page /\ pages'[control].player = pages[control].player
  BY <1>1, <1>2
<1> QED BY <1>1, <1>3 DEF ControlIsSlot, ControlPlays

\* The main loop.
LEMMA SerialMain ==
  ASSUME IInv, SerialInv, Running, Alone("main"), Main
  PROVE  SerialInv'
<1> USE DEF IInv, TypeOK
<1>1. /\ pc'["main"] \in {"idle", "m_delete", "m_action", "m_close", "m_done", "m_use",
                          "m_call"}
      /\ \A u \in Thread \ {"main"} : pc'[u] = pc[u]
      /\ UNCHANGED videoPlayer
  <2>1. CASE MainCall
    BY <2>1, Threads DEF MainCall, TakeCall, MainDeleteMenu, MenuActionClose, CloseDone,
       MenuActionOpen, OpenDone
  <2>2. CASE MainOther
    BY <2>2, Threads DEF MainOther, KeyOrVolume, InfoKey, PageUsed, CloseMenu,
       ControlShutdown, MainAttach, Service, ServiceCall, SerialInv, OwnPlaces
  <2> QED BY <2>1, <2>2 DEF Main
<1>2. pc["browser"] = "idle" /\ pc'["browser"] = "idle"
  BY <1>1, Threads DEF Alone
<1>3. OwnPlaces'
  BY <1>1, Threads DEF SerialInv, OwnPlaces
<1>4. PlayerHeld("main")'
  BY <1>1 DEF PlayerHeld, PlayerKept, PlayerThere
<1>5. ControlIsSlot' /\ ControlPlays'
  <2>1. CASE TakeCall \/ MenuActionClose \/ CloseDone \/ OpenDone \/ KeyOrVolume
              \/ InfoKey \/ PageUsed \/ ServiceCall
              \/ \E c \in Events \cap {"MAIN", "M3U", "URL"} : Service(c)
    <3>1. UNCHANGED <<slots, pages, control>>
      BY <2>1 DEF TakeCall, MenuActionClose, CloseDone, OpenDone, KeyOrVolume, InfoKey,
         PageUsed, ServiceCall, Service
    <3> QED BY <1>1, <1>2, <3>1, PagesStand
  <2>2. CASE MainDeleteMenu \/ CloseMenu
    <3>1. MenuPage \in LivePages \cup {Null}
      BY <2>2, SafePages DEF MainDeleteMenu, CloseMenu
    <3>2. DeletePage(MenuPage) /\ control' = IF control = MenuPage THEN Null ELSE control
      BY <2>2 DEF MainDeleteMenu, CloseMenu, DeleteMenu
    <3> QED BY <1>1, <1>2, <3>1, <3>2, ControlAfterDelete
  <2>3. CASE MenuActionOpen
    <3>1. Create("main", "OSD") /\ UNCHANGED control
      BY <2>3 DEF MenuActionOpen
    <3> QED BY <1>1, <1>2, <3>1, ControlAfterCreate
  <2>4. CASE ControlShutdown
    <3>1. control \in LivePages \cup {Null}
      BY <2>4, SafePages DEF ControlShutdown
    <3>2. DeletePage(control) /\ control' = Null
      BY <2>4 DEF ControlShutdown, Shutdown
    <3> QED BY <1>1, <1>2, <3>1, <3>2, ControlAfterDelete
  <2>5. CASE MainAttach
    <3>1. /\ UNCHANGED <<slots, control>>
          /\ control # Null => pages'[control].player = pages[control].player
      BY <2>5 DEF MainAttach, Attach, PageType
    <3> QED BY <1>1, <1>2, <3>1 DEF SerialInv, ControlIsSlot, ControlPlays
  <2> QED BY <2>1, <2>2, <2>3, <2>4, <2>5 DEF Main, MainCall, MainOther
<1> QED BY <1>1, <1>3, <1>4, <1>5, StepOf, Threads

\* A page in the player slot is created or found there.
LEMMA CreatePlayerPage ==
  ASSUME IInv, SerialInv, Create("browser", "PLAYER")
  PROVE  /\ playerWebOsdPage' \in Page /\ page'["browser"] = playerWebOsdPage'
         /\ playerWebOsdPage # Null => playerWebOsdPage' = playerWebOsdPage /\ pages' = pages
         /\ control # Null => pages'[control] = pages[control]
<1> USE DEF IInv, TypeOK, SerialInv
<1>1. PICK p \in IF playerWebOsdPage = Null THEN NewPages ELSE {playerWebOsdPage} :
        /\ page' = [page EXCEPT !["browser"] = p]
        /\ pages' = IF playerWebOsdPage = Null THEN [pages EXCEPT ![p] = NewPage("PLAYER")]
                                               ELSE pages
        /\ playerWebOsdPage' = p
  BY DEF Create
<1>2. p \in Page
  BY <1>1 DEF NewPages
<1> QED BY <1>1, <1>2, Threads DEF ControlIsSlot

\* The browser's requests that leave the pages and the global player alone.
LEMMA SerialRequests ==
  ASSUME IInv, SerialInv, Running, Alone("browser"),
         \/ \E i \in Info : StartVideo(i) \/ ResetVideo(i)
         \/ StartVideoCall \/ StopVideo \/ ResetVideoPlayer \/ ResetVideoDone
         \/ PlayerRequest \/ OsdUpdate \/ Used
  PROVE  SerialInv'
<1> USE DEF IInv, TypeOK
<1>1. /\ \A u \in Thread \ {"browser"} : pc'[u] = pc[u]
      /\ UNCHANGED <<slots, pages, players, control, videoPlayer>>
      /\ pc["browser"] \notin {"sv_setplayer", "rv_setplayer"}
      /\ pc'["browser"] \in {"idle", "sv_call", "sv_create", "stop_check", "rv_shutdown",
                             "rv_reset", "rv_done", "use_player", "draw"}
      /\ pc'["browser"] = "draw" => page'["browser"] = Get /\ Get # Null
      /\ pc'["browser"] = "use_player" => copy'["browser"] = videoPlayer
      /\ pc'["browser"] \in {"rv_shutdown", "rv_reset", "rv_done", "use_player"}
            => videoPlayer # Null \/ pc["browser"] = "rv_reset"
  BY Threads DEF StartVideo, ResetVideo, StartVideoCall, StopVideo, ResetVideoPlayer,
     ResetVideoDone, PlayerRequest, OsdUpdate, Used
<1>2. OwnPlaces'
  BY <1>1, Threads DEF SerialInv, OwnPlaces, StopPlace
<1>3. ControlIsSlot' /\ ControlPlays'
  BY <1>1, PagesStand
<1>4. PlayerHeld("browser")'
  <2>1. PlayerHeld("browser")
    BY Threads DEF SerialInv
  <2> QED BY <1>1, <2>1 DEF PlayerHeld, PlayerKept, PlayerThere
<1>5. PageHeld'
  <2>1. Get # Null => Get \in {webOsdPage, playerWebOsdPage} \ {Null}
    BY DEF Get
  <2> QED BY <1>1, <2>1 DEF PageHeld
<1> QED BY <1>1, <1>2, <1>3, <1>4, <1>5, StepOf, Threads

\* StartVideo and ResetVideo build the page and the player.
LEMMA SerialBuild ==
  ASSUME IInv, SerialInv, Running, Alone("browser"), BuildPage \/ BuildPlayer
  PROVE  SerialInv'
<1> USE DEF IInv, TypeOK, SerialInv
<1>0. PlayerHeld("browser")
  BY Threads
<1>1. CASE BuildPage
  <2>1. /\ Create("browser", "PLAYER")
        /\ \A u \in Thread \ {"browser"} : pc'[u] = pc[u]
        /\ \/ pc["browser"] = "sv_create" /\ pc'["browser"] = "sv_display"
           \/ pc["browser"] = "rv_create" /\ pc'["browser"] = "rv_display"
        /\ UNCHANGED <<videoPlayer, control>>
    BY <1>1, Threads DEF BuildPage
  <2>2. OwnPlaces'
    BY <2>1, Threads DEF OwnPlaces
  <2>3. ControlIsSlot'
    BY <2>1, CreatePlayerPage DEF ControlIsSlot
  <2>4. ControlPlays'
    BY <2>1, CreatePlayerPage DEF ControlPlays
  <2>5. PlayerHeld("browser")'
    BY <1>0, <2>1 DEF PlayerHeld, PlayerKept, PlayerThere
  <2>6. PageHeld'
    BY <2>1, CreatePlayerPage, NullAssumption DEF PageHeld
  <2> QED BY <2>1, <2>2, <2>3, <2>4, <2>5, <2>6, StepOf, Threads
<1>2. CASE BuildPlayer
  <2>1. PICK x \in NewPlayers :
          /\ videoPlayer' = x /\ copy' = [copy EXCEPT !["browser"] = x]
          /\ \A u \in Thread \ {"browser"} : pc'[u] = pc[u]
          /\ \/ pc["browser"] = "sv_display" /\ pc'["browser"] = "sv_setplayer"
             \/ pc["browser"] = "rv_display" /\ pc'["browser"] = "rv_launch"
          /\ UNCHANGED <<slots, pages, control, page>>
    <3>1. PICK next \in {<<"sv_display", "sv_setplayer">>, <<"rv_display", "rv_launch">>},
               x \in NewPlayers :
            /\ pc["browser"] = next[1] /\ pc' = [pc EXCEPT !["browser"] = next[2]]
            /\ videoPlayer' = x /\ copy' = [copy EXCEPT !["browser"] = x]
            /\ UNCHANGED <<slots, pages, control, page>>
      BY <1>2 DEF BuildPlayer, NewPlayer
    <3>2. /\ \A u \in Thread \ {"browser"} : pc'[u] = pc[u]
          /\ pc'["browser"] = next[2]
      BY <3>1, Threads
    <3>3. \/ pc["browser"] = "sv_display" /\ pc'["browser"] = "sv_setplayer"
          \/ pc["browser"] = "rv_display" /\ pc'["browser"] = "rv_launch"
      BY <3>1, <3>2
    <3>4. /\ videoPlayer' = x /\ copy' = [copy EXCEPT !["browser"] = x]
          /\ UNCHANGED <<slots, pages, control, page>>
      BY <3>1
    <3> HIDE DEF IInv, TypeOK, SerialInv
    <3> QED BY <3>2, <3>3, <3>4
  <2>2. x \in Player /\ x # Null /\ copy'["browser"] = x
    BY <2>1, NullAssumption, Threads DEF NewPlayers
  <2>3. OwnPlaces'
    BY <2>1, Threads DEF OwnPlaces
  <2>4. ControlIsSlot' /\ PageHeld' /\ ControlPlays'
    BY <2>1 DEF ControlIsSlot, PageHeld, ControlPlays
  <2>5. PlayerHeld("browser")'
    BY <2>1, <2>2 DEF PlayerHeld, PlayerKept, PlayerThere
  <2> QED BY <2>1, <2>3, <2>4, <2>5, StepOf, Threads
<1> QED BY <1>1, <1>2

\* They give the player to the page.
LEMMA SerialSetPlayer ==
  ASSUME IInv, SerialInv, Running, Alone("browser"),
         StartVideoSetPlayer \/ ResetVideoSetPlayer
  PROVE  SerialInv'
<1> USE DEF IInv, TypeOK, SerialInv
<1>1. PlayerHeld("browser")
  BY Threads
<1>2. /\ \A u \in Thread \ {"browser"} : pc'[u] = pc[u]
      /\ \/ pc["browser"] = "sv_setplayer" /\ pc'["browser"] = "sv_launch"
         \/ pc["browser"] = "rv_setplayer" /\ pc'["browser"] = "rv_done"
      /\ UNCHANGED <<slots, control, videoPlayer, page>>
  BY Threads DEF StartVideoSetPlayer, ResetVideoSetPlayer
<1>3. pages' = [pages EXCEPT ![page["browser"]].player = videoPlayer]
  BY <1>1 DEF StartVideoSetPlayer, ResetVideoSetPlayer, PlayerHeld, PlayerKept
<1>4. /\ page["browser"] \in Page /\ page["browser"] = playerWebOsdPage
      /\ pages'[page["browser"]].player = videoPlayer
  BY <1>2, <1>3 DEF PageHeld, PageType
<1>5. OwnPlaces'
  BY <1>2, Threads DEF OwnPlaces
<1>6. ControlIsSlot' /\ ControlPlays'
  BY <1>2, <1>4 DEF ControlIsSlot, ControlPlays
<1>7. PlayerHeld("browser")'
  BY <1>1, <1>2 DEF PlayerHeld, PlayerKept, PlayerThere
<1>8. PageHeld'
  BY <1>2, <1>4 DEF PageHeld
<1> QED BY <1>2, <1>5, <1>6, <1>7, <1>8, StepOf, Threads

\* The page becomes the control.  When StartVideo found it as the control, the
\* launch deletes it with the control it replaces.
LEMMA SerialLaunch ==
  ASSUME IInv, SerialInv, Running, Alone("browser"), LaunchPage
  PROVE  SerialInv'
<1> USE DEF IInv, TypeOK, SerialInv
<1>1. PlayerHeld("browser")
  BY Threads
<1>2. /\ Launch(page["browser"])
      /\ \A u \in Thread \ {"browser"} : pc'[u] = pc[u]
      /\ \/ pc["browser"] = "sv_launch" /\ pc'["browser"] = "sv_attach"
         \/ pc["browser"] = "rv_launch" /\ pc'["browser"] = "rv_setplayer"
      /\ control \in LivePages \cup {Null}
      /\ UNCHANGED <<videoPlayer, page>>
  BY Threads, SafePages DEF LaunchPage
<1>3. page["browser"] = playerWebOsdPage /\ playerWebOsdPage \in Page
  BY <1>2 DEF PageHeld
<1>4. /\ DeletePage(control)
      /\ control' = IF control = page["browser"] THEN Null ELSE page["browser"]
  BY <1>2 DEF Launch
<1>5. /\ playerWebOsdPage' = IF control = playerWebOsdPage THEN Null ELSE playerWebOsdPage
      /\ \A q \in Page : pages'[q] = IF q = control THEN Free ELSE pages[q]
  BY <1>2, <1>4, DeleteExact DEF PagesOwned, SlotsExact, DeletePage
<1>6. OwnPlaces'
  BY <1>2, Threads DEF OwnPlaces
<1>7. ControlIsSlot'
  BY <1>3, <1>4, <1>5 DEF ControlIsSlot
<1>8. ControlPlays'
  <2>1. CASE pc["browser"] = "sv_launch"
    BY <1>2, <1>3, <1>4, <1>5, <2>1 DEF ControlPlays, PageHeld
  <2>2. CASE pc["browser"] = "rv_launch"
    BY <1>2, <2>2 DEF ControlPlays
  <2> QED BY <1>2, <2>1, <2>2
<1>9. PlayerHeld("browser")'
  BY <1>1, <1>2 DEF PlayerHeld, PlayerKept, PlayerThere
<1>10. PageHeld'
  BY <1>2, <1>3, <1>4, <1>5, NullAssumption DEF PageHeld
<1> QED BY <1>2, <1>6, <1>7, <1>8, <1>9, <1>10, StepOf, Threads

\* ResetVideo shuts the control down and with it empties the player slot;
\* StartVideo ends by attaching the player.
LEMMA SerialShutdownAttach ==
  ASSUME IInv, SerialInv, Running, Alone("browser"),
         ResetVideoShutdown \/ StartVideoAttach
  PROVE  SerialInv'
<1> USE DEF IInv, TypeOK, SerialInv
<1>0. PlayerHeld("browser")
  BY Threads
<1>1. CASE ResetVideoShutdown
  <2>1. /\ DeletePage(control) /\ control' = Null /\ control \in LivePages \cup {Null}
        /\ \A u \in Thread \ {"browser"} : pc'[u] = pc[u]
        /\ pc["browser"] = "rv_shutdown" /\ pc'["browser"] = "rv_create"
        /\ UNCHANGED videoPlayer
    BY <1>1, Threads, SafePages DEF ResetVideoShutdown, Shutdown
  <2>2. ControlIsSlot' /\ ControlPlays'
    BY <2>1, ControlAfterDelete
  <2>3. playerWebOsdPage' = Null
    <3>1. playerWebOsdPage' = IF control = playerWebOsdPage THEN Null ELSE playerWebOsdPage
      BY <2>1, DeleteExact DEF PagesOwned, SlotsExact
    <3>2. playerWebOsdPage # Null => control = playerWebOsdPage
      BY <2>1 DEF PagesOwned, Building
    <3> QED BY <3>1, <3>2
  <2>4. OwnPlaces'
    BY <2>1, Threads DEF OwnPlaces
  <2>5. PlayerHeld("browser")'
    BY <1>0, <2>1 DEF PlayerHeld, PlayerKept, PlayerThere
  <2>6. PageHeld'
    BY <2>1, <2>3 DEF PageHeld
  <2> QED BY <2>1, <2>2, <2>4, <2>5, <2>6, StepOf, Threads
<1>2. CASE StartVideoAttach
  <2>1. /\ pc["browser"] = "sv_attach" /\ pc'["browser"] = "idle"
        /\ \A u \in Thread \ {"browser"} : pc'[u] = pc[u]
        /\ UNCHANGED <<slots, control, videoPlayer>>
        /\ control # Null => pages'[control].player = pages[control].player
    BY <1>2, Threads DEF StartVideoAttach, Attach, PageType
  <2>2. OwnPlaces'
    BY <2>1, Threads DEF OwnPlaces
  <2>3. ControlIsSlot' /\ ControlPlays'
    BY <2>1 DEF ControlIsSlot, ControlPlays
  <2>4. PlayerHeld("browser")' /\ PageHeld'
    BY <2>1 DEF PlayerHeld, PlayerKept, PlayerThere, PageHeld
  <2> QED BY <2>1, <2>2, <2>3, <2>4, StepOf, Threads
<1> QED BY <1>1, <1>2

\* The browser's handlers.
LEMMA SerialBrowser ==
  ASSUME IInv, SerialInv, Running, Alone("browser"), Browser
  PROVE  SerialInv'
BY SerialRequests, SerialBuild, SerialSetPlayer, SerialLaunch, SerialShutdownAttach,
   SerialStopVideo DEF Browser

\* No step of complete handlers breaks the invariant; only the main loop faults.
LEMMA SerialInvStep ==
  ASSUME IInv, SerialInv, [fault = "none" /\ SerialStep]_vars
  PROVE  SerialInv'
<1>1. CASE Running /\ UserOpens
  BY <1>1 DEF UserOpens, SerialInv, OneHandler, OwnPlaces, ControlIsSlot, PlayerHeld,
     PageHeld, ControlPlays, SerialFaultsInMainOnly
<1>2. ASSUME NEW t \in Thread, Fault(t) PROVE SerialInv'
  <2>1. t = "main"
    BY <1>2, OthersSafe DEF Fault
  <2> QED
    BY <1>2, <2>1 DEF Fault, SerialInv, OneHandler, OwnPlaces, ControlIsSlot, PlayerHeld,
       PageHeld, ControlPlays, SerialFaultsInMainOnly
<1>3. CASE UNCHANGED vars
  BY <1>3 DEF vars, SerialInv, OneHandler, OwnPlaces, ControlIsSlot, PlayerHeld,
     PageHeld, ControlPlays, SerialFaultsInMainOnly
<1> QED
  BY <1>1, <1>2, <1>3, SerialBrowser, SerialTranscoder, SerialWorker, SerialMain
     DEF SerialStep

\* Nothing has happened initially.
LEMMA SerialInvInit == ASSUME Init PROVE SerialInv
BY Threads DEF Init, SerialInv, OneHandler, OwnPlaces, ControlIsSlot, PlayerHeld,
   PlayerKept, PlayerThere, PageHeld, ControlPlays, SerialFaultsInMainOnly

\* Complete handlers are steps of the session: what holds of every
\* interleaving holds of them.
THEOREM SerialImplementsSession == SerialSpec => Spec
<1>1. [fault = "none" /\ SerialStep]_vars => [Next]_vars
  BY DEF SerialStep, Next
<1> QED BY <1>1, PTL DEF SerialSpec, Spec

\* The invariant of complete handlers.
LEMMA SerialInvariant == SerialSpec => [](IInv /\ SerialInv)
<1>1. Init => SerialInv
  BY SerialInvInit
<1>2. IInv /\ SerialInv /\ [fault = "none" /\ SerialStep]_vars => SerialInv'
  BY SerialInvStep
<1> QED
  BY <1>1, <1>2, SerialImplementsSession, SessionInvariant, PTL DEF SerialSpec

\* Complete handlers, one after the other, never make a peer's request or the
\* worker touch a deleted page or player, whatever the peers, the user and other
\* plugins do: only VDR's main loop can meet one.
THEOREM OnlyMainFaults == SerialSpec => []SerialFaultsInMainOnly
<1>1. SerialInv => SerialFaultsInMainOnly
  BY DEF SerialInv
<1> QED BY <1>1, SerialInvariant, PTL

\* Between complete handlers VDR's control plays the global player.
THEOREM ControlPlaysGlobal == SerialSpec => []SerialControlPlaysGlobal
<1>1. SerialInv => SerialControlPlaysGlobal
  BY Threads DEF SerialInv, ControlPlays, SerialControlPlaysGlobal
<1> QED BY <1>1, SerialInvariant, PTL

-----------------------------------------------------------------------------
(***************************************************************************)
(* Where the picture is.                                                   *)
(***************************************************************************)

\* What a step does to the players: it takes one's name, deletes the one that
\* has lost its name, or neither, and then it may make a new one.
Deleting == {"stop_delete", "w_delete"}
PlayersMove(t) ==
  \/ /\ pc[t] \in {"stop_null", "w_null"} /\ pc'[t] \in Deleting
     /\ videoPlayer' = Null /\ UNCHANGED players
  \/ /\ pc[t] \in Deleting /\ pc'[t] \notin Deleting
     /\ players' = players \ {copy[t]} /\ UNCHANGED videoPlayer
  \/ /\ pc[t] \notin Deleting /\ pc'[t] \notin Deleting
     /\ videoPlayer' # Null \/ UNCHANGED videoPlayer
     /\ players \subseteq players'

\* stopVideo moves the players this way,
LEMMA StopVideoMoves ==
  ASSUME TypeOK, NEW t \in Thread, StopVideoSteps(t)
  PROVE  PlayersMove(t) /\ \A u \in Thread \ {t} : pc'[u] = pc[u]
BY DEF TypeOK, StopVideoSteps, StopCheck, StopNull, StopDelete, StopCommand, StopCall,
   DeletePlayer, PlayersMove, Deleting

\* the browser's handlers do,
LEMMA BrowserMoves ==
  ASSUME TypeOK, Browser
  PROVE  PlayersMove("browser") /\ \A u \in Thread \ {"browser"} : pc'[u] = pc[u]
<1> USE DEF TypeOK, PlayersMove, Deleting
<1>1. CASE BuildPlayer
  <2>1. PICK next \in {<<"sv_display", "sv_setplayer">>, <<"rv_display", "rv_launch">>},
             x \in NewPlayers :
          /\ pc["browser"] = next[1] /\ pc' = [pc EXCEPT !["browser"] = next[2]]
          /\ videoPlayer' = x /\ players' = players \cup {x}
    BY <1>1 DEF BuildPlayer, NewPlayer
  <2>2. x # Null
    BY NullAssumption DEF NewPlayers
  <2>3. pc["browser"] \notin Deleting /\ pc'["browser"] \notin Deleting
    BY <2>1, Threads
  <2> QED BY <2>1, <2>2, <2>3, Threads
<1>2. CASE BuildPage \/ LaunchPage
  BY <1>2, Threads DEF BuildPage, LaunchPage, Launch
<1>3. CASE StopVideoSteps("browser")
  BY <1>3, StopVideoMoves, Threads
<1>4. CASE \/ \E i \in Info : StartVideo(i) \/ ResetVideo(i)
           \/ StartVideoCall \/ StartVideoSetPlayer \/ StartVideoAttach
           \/ StopVideo \/ ResetVideoShutdown \/ ResetVideoSetPlayer
           \/ ResetVideoPlayer \/ ResetVideoDone \/ PlayerRequest \/ OsdUpdate \/ Used
  BY <1>4, Threads DEF StartVideo, ResetVideo, StartVideoCall, StartVideoSetPlayer,
     StartVideoAttach, Attach, StopVideo, ResetVideoShutdown, Shutdown,
     ResetVideoSetPlayer, ResetVideoPlayer, ResetVideoDone, PlayerRequest, OsdUpdate, Used
<1> QED BY <1>1, <1>2, <1>3, <1>4 DEF Browser

\* the transcoder's do,
LEMMA TranscoderMoves ==
  ASSUME TypeOK, Transcoder
  PROVE  PlayersMove("transcoder") /\ \A u \in Thread \ {"transcoder"} : pc'[u] = pc[u]
<1> USE DEF TypeOK, PlayersMove, Deleting
<1>1. CASE StopVideoSteps("transcoder")
  BY <1>1, StopVideoMoves, Threads
<1>2. CASE ProcessTSPacket \/ PlayPacket \/ PlayPacketLoop \/ PlayTs
  BY <1>2, Threads DEF ProcessTSPacket, PlayPacket, PlayPacketLoop, PlayTs
<1> QED BY <1>1, <1>2 DEF Transcoder

\* the worker does,
LEMMA WorkerMoves ==
  ASSUME TypeOK, Worker
  PROVE  PlayersMove("worker") /\ \A u \in Thread \ {"worker"} : pc'[u] = pc[u]
BY Threads DEF TypeOK, Worker, WorkerLook, WorkerTake, WorkerNull, WorkerDelete,
   DeletePlayer, PlayersMove, Deleting

\* and the main loop, which neither makes nor deletes one.
LEMMA MainMoves ==
  ASSUME TypeOK, SerialInv, Main
  PROVE  PlayersMove("main") /\ \A u \in Thread \ {"main"} : pc'[u] = pc[u]
<1> USE DEF TypeOK, PlayersMove, Deleting
<1>1. CASE MainCall
  BY <1>1, Threads DEF MainCall, TakeCall, MainDeleteMenu, DeleteMenu, MenuActionClose,
     CloseDone, MenuActionOpen, OpenDone
<1>2. CASE MainOther
  BY <1>2, Threads DEF MainOther, KeyOrVolume, InfoKey, PageUsed, CloseMenu, DeleteMenu,
     ControlShutdown, Shutdown, MainAttach, Attach, Service, ServiceCall, SerialInv, OwnPlaces
<1> QED BY <1>1, <1>2 DEF Main

\* A player that a handler is about to delete.
Doomed == \E t \in Thread : pc[t] \in Deleting

\* The picture is where it was last placed.  A player about to be deleted has
\* lost its name already and will make the picture full screen; when nobody
\* has a player, that has happened or the browser has placed the picture since.
WindowInv ==
  /\ same \in BOOLEAN /\ PictureStaysPlaced
  /\ Doomed => ~same
  /\ videoPlayer = Null /\ devicePlayer = Null /\ ~Doomed => same \/ screen = Full

\* Where the picture is shown does not disturb the handlers.
THEOREM WindowImplementsSerial == WindowSpec => SerialSpec
<1>1. InitWindow => Init
  BY DEF InitWindow
<1>2. [WindowNext]_wvars => [fault = "none" /\ SerialStep]_vars
  BY DEF WindowNext, wvars, SessionStep, VideoFullscreen, VideoSize, Placing
<1> QED BY <1>1, <1>2, PTL DEF WindowSpec, SerialSpec

\* The browser's places keep the invariant: no handler is about to delete.
LEMMA WindowPlacing ==
  ASSUME SerialInv, Placing, NEW w, SetVideoSize(w), last' = w
  PROVE  WindowInv'
<1>1. ~Doomed'
  BY DEF Placing, Alone, vars, Doomed, Deleting
<1> QED BY <1>1 DEF SetVideoSize, WindowInv, PictureStaysPlaced

\* A player loses its name before it is deleted, in one handler.
LEMMA PlayersGoBy ==
  ASSUME SerialInv, NEW t \in Thread, Alone(t), PlayersMove(t),
         \A u \in Thread \ {t} : pc'[u] = pc[u]
  PROVE  /\ Doomed' => Doomed \/ videoPlayer' # videoPlayer
         /\ Doomed => Doomed' \/ SetVideoFullscreen
         /\ players' # players /\ players' \subseteq players => Doomed
         /\ videoPlayer' = Null => videoPlayer = Null \/ Doomed'
         /\ pc["browser"] = "rv_done" => ~Doomed'
<1>1. (Doomed <=> pc[t] \in Deleting) /\ (Doomed' <=> pc'[t] \in Deleting)
  BY DEF Alone, Doomed, Deleting
<1>2. PlayerHeld(t)
  BY DEF SerialInv
<1>3. CASE pc[t] \in {"stop_null", "w_null"} /\ pc'[t] \in Deleting /\ videoPlayer' = Null
           /\ UNCHANGED players
  <2>1. videoPlayer # Null
    BY <1>2, <1>3 DEF PlayerHeld, PlayerKept
  <2>2. pc["browser"] # "rv_done"
    BY <1>3, Threads DEF Alone
  <2>3. ~Doomed
    BY <1>1, <1>3 DEF Deleting
  <2>4. Doomed' /\ videoPlayer' # videoPlayer /\ players' = players
    BY <1>1, <1>3, <2>1
  <2> QED BY <2>2, <2>3, <2>4
<1>4. CASE pc[t] \in Deleting /\ pc'[t] \notin Deleting
           /\ players' = players \ {copy[t]} /\ UNCHANGED videoPlayer
  <2>1. copy[t] \in players
    BY <1>2, <1>4 DEF PlayerHeld, Deleting
  <2>2. players' # players /\ players' \subseteq players
    BY <1>4, <2>1
  <2> QED BY <1>1, <1>4, <2>2 DEF SetVideoFullscreen
<1>5. CASE pc[t] \notin Deleting /\ pc'[t] \notin Deleting
           /\ (videoPlayer' # Null \/ UNCHANGED videoPlayer) /\ players \subseteq players'
  BY <1>1, <1>5
<1> QED BY <1>3, <1>4, <1>5 DEF PlayersMove

\* Which step it is does not matter.
LEMMA PlayersGo ==
  ASSUME IInv, SerialInv, SerialStep
  PROVE  /\ Doomed' => Doomed \/ videoPlayer' # videoPlayer
         /\ Doomed => Doomed' \/ SetVideoFullscreen
         /\ players' # players /\ players' \subseteq players => Doomed
         /\ videoPlayer' = Null => videoPlayer = Null \/ Doomed'
         /\ pc["browser"] = "rv_done" => ~Doomed'
<1>1. CASE (Running /\ UserOpens) \/ \E t \in Thread : Fault(t)
  <2>1. UNCHANGED <<pc, players, videoPlayer>>
    BY <1>1 DEF UserOpens, Fault
  <2>2. pc["browser"] = "rv_done" => ~Doomed
    BY Threads DEF SerialInv, OneHandler, Doomed, Deleting
  <2> QED BY <2>1, <2>2 DEF Doomed
<1>2. CASE Alone("browser") /\ Browser
  BY <1>2, BrowserMoves, PlayersGoBy, Threads DEF IInv
<1>3. CASE Alone("transcoder") /\ Transcoder
  BY <1>3, TranscoderMoves, PlayersGoBy, Threads DEF IInv
<1>4. CASE Alone("worker") /\ Worker
  BY <1>4, WorkerMoves, PlayersGoBy, Threads DEF IInv
<1>5. CASE Alone("main") /\ Main
  BY <1>5, MainMoves, PlayersGoBy, Threads DEF IInv
<1> QED
  BY <1>1, <1>2, <1>3, <1>4, <1>5 DEF SerialStep

\* So the session's steps keep the invariant.
LEMMA WindowSession ==
  ASSUME IInv, SerialInv, WindowInv, SessionStep
  PROVE  WindowInv'
<1>1. /\ Doomed' => Doomed \/ videoPlayer' # videoPlayer
      /\ Doomed => Doomed' \/ SetVideoFullscreen
      /\ players' # players /\ players' \subseteq players => Doomed
      /\ videoPlayer' = Null => videoPlayer = Null \/ Doomed'
      /\ pc["browser"] = "rv_done" => ~Doomed'
  BY PlayersGo DEF SessionStep
<1>2. CASE pc["browser"] = "rv_done" /\ pc'["browser"] = "idle"
  <2>1. screen' = last /\ last' = last /\ same' = TRUE
    BY <1>2 DEF SessionStep, SetVideoSize
  <2> QED BY <1>1, <1>2, <2>1 DEF WindowInv, PictureStaysPlaced
<1>3. CASE ~(pc["browser"] = "rv_done" /\ pc'["browser"] = "idle")
  <2>1. /\ last' = last /\ screen' = IF SetVideoFullscreen THEN Full ELSE screen
        /\ same' = (same /\ videoPlayer' = videoPlayer /\ devicePlayer' = devicePlayer)
    BY <1>3 DEF SessionStep
  <2>2. SetVideoFullscreen => Doomed \/ devicePlayer' # devicePlayer
    BY <1>1 DEF SetVideoFullscreen
  <2>3. same' => same /\ screen' = screen /\ ~Doomed'
    BY <1>1, <2>1, <2>2 DEF WindowInv
  <2>4. same' \in BOOLEAN /\ PictureStaysPlaced' /\ (Doomed' => ~same')
    BY <2>1, <2>3 DEF WindowInv, PictureStaysPlaced
  <2>5. ASSUME videoPlayer' = Null, devicePlayer' = Null, ~Doomed', ~same'
        PROVE  screen' = Full
    <3>1. CASE devicePlayer # Null \/ Doomed
      BY <1>1, <2>1, <2>5, <3>1 DEF SetVideoFullscreen
    <3>2. CASE devicePlayer = Null /\ ~Doomed
      BY <1>1, <2>1, <2>5, <3>2 DEF WindowInv
    <3> QED BY <3>1, <3>2
  <2> QED BY <2>4, <2>5 DEF WindowInv
<1> QED BY <1>2, <1>3

\* No step breaks the window's invariant.
LEMMA WindowStep ==
  ASSUME IInv, SerialInv, WindowInv, [WindowNext]_wvars
  PROVE  WindowInv'
<1>1. CASE VideoFullscreen \/ \E w \in Window : VideoSize(w)
  BY <1>1, WindowPlacing DEF VideoFullscreen, VideoSize
<1>2. CASE UNCHANGED wvars
  BY <1>2 DEF wvars, vars, WindowInv, PictureStaysPlaced, Doomed
<1> QED BY <1>1, <1>2, WindowSession DEF WindowNext

\* The invariant of the pictures' places.
LEMMA WindowInvariant == WindowSpec => [](SerialInv /\ WindowInv)
<1>1. InitWindow => WindowInv
  BY DEF InitWindow, Init, WindowInv, PictureStaysPlaced, Doomed, Deleting
<1>2. IInv /\ SerialInv /\ WindowInv /\ [WindowNext]_wvars => WindowInv'
  BY WindowStep
<1> QED
  BY <1>1, <1>2, SerialInvariant, WindowImplementsSerial, PTL DEF WindowSpec

\* As long as no player comes or goes, the picture stays where the browser last
\* placed it, through any number of other requests and a ResetVideo.
THEOREM PictureStays == WindowSpec => []PictureStaysPlaced
<1>1. WindowInv => PictureStaysPlaced
  BY DEF WindowInv
<1> QED BY <1>1, WindowInvariant, PTL

\* When the last player is gone and every handler has returned, the picture is
\* full screen, or where the browser has placed it since.
THEOREM NoWindowStays == WindowSpec => []NoWindowLeft
<1>1. SerialInv /\ WindowInv => NoWindowLeft
  BY DEF WindowInv, NoWindowLeft, Doomed, Deleting
<1> QED BY <1>1, WindowInvariant, PTL
=============================================================================
