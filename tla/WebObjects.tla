----------------------------- MODULE WebObjects -----------------------------
(***************************************************************************)
(* The objects the plugin shares between its threads without a lock: the   *)
(* two WebOSDPage slots and the current mode (webosdpage.cpp), the global  *)
(* videoPlayer and the pending OSD command (web.cpp), and the part of VDR  *)
(* that owns them: the open menu, the registered cControl, the player      *)
(* attached to the primary device, and the flag behind                     *)
(* cRemote::CallPlugin.                                                    *)
(*                                                                         *)
(* A Page or Player value is an address.  It may be allocated again once   *)
(* no variable holds it, so a finite set of addresses is enough for any    *)
(* number of allocations.  A pointer to a deleted object stays where it    *)
(* was stored: dereferencing it is a fault (see WebSession).               *)
(***************************************************************************)
EXTENDS Naturals

CONSTANTS Page, Player, Info, Null, Dummy
CONSTANT Events   \* what the peers, the user and other plugins do

ASSUME NullAssumption  == Null \notin Page \cup Player \cup Info
ASSUME DummyAssumption == Dummy \notin Page /\ Dummy # Null

Thread  == {"browser", "transcoder", "main", "worker"}
Command == {"OPEN", "REOPEN", "CLOSE", "MAIN", "M3U", "URL"}
\* Peers' requests, the user's keys, and the applications other plugins start.
AllEvents == {"StartVideo", "StopVideo", "ResetVideo", "PlayerRequest",
              "OsdUpdate", "TSPacket", "UserOpens", "KeyOrVolume", "InfoKey",
              "CloseMenu", "ChannelSwitch", "MAIN", "M3U", "URL"}
ASSUME EventsAssumption == Events \subseteq AllEvents

Mode    == {"OSD", "PLAYER", "CLOSED"}

VARIABLES
  nextOsdCommand,   \* what the next MainMenuAction is to do
  callPlugin,       \* a CallPlugin("web") is waiting for the main loop
  videoPlayer,      \* the global player pointer
  videoInfo,        \* the stream format last remembered by ResetVideo
  webOsdPage, playerWebOsdPage, currentOsdMode,
  useDummyOsd,      \* the -o option, fixed at start
  pages,            \* the WebOSDPage at each address
  players,          \* the addresses of the existing VideoPlayers
  menu,             \* VDR's open menu: Null, Dummy or a page
  control,          \* VDR's registered cControl
  devicePlayer,     \* the player attached to the primary device
  pc, page, copy,   \* each thread's place, its WebOSDPage* and VideoPlayer*
  reqInfo,          \* the stream format in the browser's request
  fault             \* the thread that dereferenced a deleted object

command == <<nextOsdCommand, callPlugin>>
slots   == <<webOsdPage, playerWebOsdPage, currentOsdMode>>
heap    == <<pages, players>>
vdr     == <<menu, control, devicePlayer>>
info    == <<videoInfo, reqInfo>>
locals  == <<page, copy>>
vars    == <<command, videoPlayer, slots, useDummyOsd, heap, vdr, info, pc,
             locals, fault>>

-----------------------------------------------------------------------------
PageType   == [mode : Mode, player : Player \cup {Null}, attached : BOOLEAN]
NewPage(k) == [mode |-> k, player |-> Null, attached |-> FALSE]
Free       == NewPage("CLOSED")

LivePages == {p \in Page : pages[p].mode # "CLOSED"}

\* WebOSDPage::Get: the slot the current mode selects.
Get == CASE currentOsdMode = "OSD"    -> webOsdPage
         [] currentOsdMode = "PLAYER" -> playerWebOsdPage
         [] OTHER                     -> Null

PageRefs == {webOsdPage, playerWebOsdPage, menu, control}
              \cup {page[t] : t \in Thread}
PlayerRefs == {videoPlayer, devicePlayer} \cup {copy[t] : t \in Thread}
                \cup {pages[p].player : p \in Page}

NewPages   == Page \ (PageRefs \cup LivePages)
NewPlayers == Player \ PlayerRefs

\* WebOSDPage::Create: fill the slot of mode m if it is empty, switch to m.
Create(t, m) ==
  LET slot == IF m = "OSD" THEN webOsdPage ELSE playerWebOsdPage
  IN \E p \in IF slot = Null THEN NewPages ELSE {slot} :
       /\ page' = [page EXCEPT ![t] = p]
       /\ pages' = IF slot = Null
                   THEN [pages EXCEPT ![p] = NewPage(m)]
                   ELSE pages
       /\ webOsdPage' = IF m = "OSD" THEN p ELSE webOsdPage
       /\ playerWebOsdPage' = IF m = "PLAYER" THEN p ELSE playerWebOsdPage
       /\ currentOsdMode' = m

\* Mutant: the destructor forgets the player slot.
DeletePageKeeps(p) ==
  /\ pages' = [q \in Page |-> IF q = p THEN Free ELSE pages[q]]
  /\ webOsdPage' = IF p # Null /\ pages[p].mode = "OSD"
                   THEN Null ELSE webOsdPage
  /\ UNCHANGED <<playerWebOsdPage, currentOsdMode>>

\* ~WebOSDPage clears the slot of its own mode and leaves currentOsdMode;
\* p = Null is delete of a null pointer.
DeletePage(p) ==
  /\ pages' = [q \in Page |-> IF q = p THEN Free ELSE pages[q]]
  /\ webOsdPage' = IF p # Null /\ pages[p].mode = "OSD"
                   THEN Null ELSE webOsdPage
  /\ playerWebOsdPage' = IF p # Null /\ pages[p].mode = "PLAYER"
                         THEN Null ELSE playerWebOsdPage
  /\ UNCHANGED currentOsdMode

\* new VideoPlayer(): its address becomes the global player.
NewPlayer(x) ==
  /\ videoPlayer' = x
  /\ players' = players \cup {x}

\* Mutant: the destructor leaves the player attached.
DeletePlayerAttached(x) ==
  /\ players' = players \ {x}
  /\ UNCHANGED devicePlayer

\* ~VideoPlayer detaches the player from the device.
DeletePlayer(x) ==
  /\ players' = players \ {x}
  /\ devicePlayer' = IF devicePlayer = x THEN Null ELSE devicePlayer

\* The page that VDR's menu deletes with itself: cDummyOsdObject deletes
\* whatever Get returns, a WebOSDPage is the menu itself.
MenuPage == IF menu = Dummy THEN Get ELSE menu

\* DELETE_MENU in VDR's main loop; ~cControl also clears the registration.
DeleteMenu ==
  /\ DeletePage(MenuPage)
  /\ control' = IF control = MenuPage THEN Null ELSE control
  /\ menu' = Null
  /\ UNCHANGED <<players, devicePlayer>>

\* cControl::Launch(p): register p, then delete the control it replaces;
\* when that is p itself, its destructor clears the registration.
Launch(p) ==
  /\ DeletePage(control)
  /\ control' = IF control = p THEN Null ELSE p
  /\ UNCHANGED <<players, menu, devicePlayer>>

\* cControl::Shutdown
Shutdown ==
  /\ DeletePage(control)
  /\ control' = Null
  /\ UNCHANGED <<players, menu>>

\* cControl::Attach looks at the control's player only when all of this holds.
AttachLooks == control \in LivePages /\ ~pages[control].attached
                 /\ pages[control].player # Null

\* cControl::Attach: AttachPlayer detaches the device's previous player.
Attach ==
  /\ IF AttachLooks /\ pages[control].player # devicePlayer
     THEN /\ devicePlayer' = pages[control].player
          /\ pages' = [pages EXCEPT ![control].attached = TRUE]
     ELSE UNCHANGED <<devicePlayer, pages>>
  /\ UNCHANGED <<players, menu, control, slots>>
=============================================================================
