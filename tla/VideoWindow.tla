---------------------------- MODULE VideoWindow ----------------------------
(***************************************************************************)
(* Where the picture of the video is shown (web.cpp, videocontrol.cpp):    *)
(* the browser places it with VideoSize and VideoFullscreen, ResetVideo    *)
(* places it again where it was, and a player that is deleted or loses the *)
(* device makes it full screen.  Superposed on WebSessionSerial: complete  *)
(* handlers, one after the other.                                          *)
(***************************************************************************)
EXTENDS WebSessionSerial

CONSTANT Window   \* what a page can place the picture in

Full == "full"    \* the empty rectangle, which is cRect::Null to the device

ASSUME WindowAssumption == Full \notin Window

VARIABLES
  last,    \* lastVideoX, lastVideoY, lastVideoWidth, lastVideoHeight
  screen,  \* what the device was last told to scale the picture to
  same     \* history: since then no player has come or gone

wvars == <<vars, last, screen, same>>

InitWindow == Init /\ last = Full /\ screen = Full /\ same = FALSE

-----------------------------------------------------------------------------
\* SetVideoSize, of a device that can scale to any window.
SetVideoSize(w) == screen' = w /\ same' = TRUE

Placing == fault = "none" /\ Alone("browser") /\ At("browser", "idle") /\ UNCHANGED vars

VideoSize(w) == Placing /\ last' = w /\ SetVideoSize(w)

\* Mutant: the window is not forgotten, so that ResetVideo would restore it.
VideoFullscreenKeeps == Placing /\ SetVideoSize(Full) /\ UNCHANGED last

VideoFullscreen == Placing /\ last' = Full /\ SetVideoSize(Full)

\* Mutant: the destructor relies on the device.
SetVideoFullscreenActivate == devicePlayer # Null /\ devicePlayer' # devicePlayer

\* The player's destructor, and Activate(FALSE) when the device takes another
\* player in its place.
SetVideoFullscreen == \/ players' # players /\ players' \subseteq players
                      \/ devicePlayer # Null /\ devicePlayer' # devicePlayer

\* The session's steps.  ResetVideo with a player ends by placing the picture,
\* although the player it has made is attached only later.
SessionStep ==
  /\ fault = "none" /\ SerialStep
  /\ UNCHANGED last
  /\ IF pc["browser"] = "rv_done" /\ pc'["browser"] = "idle"
     THEN SetVideoSize(last)
     ELSE /\ screen' = IF SetVideoFullscreen THEN Full ELSE screen
          /\ same' = (same /\ videoPlayer' = videoPlayer /\ devicePlayer' = devicePlayer)

WindowNext == SessionStep \/ VideoFullscreen \/ \E w \in Window : VideoSize(w)

WindowSpec == InitWindow /\ [][WindowNext]_wvars
-----------------------------------------------------------------------------
\* As long as no player comes or goes, the picture is where the browser last
\* placed it, and where it was before a ResetVideo: neither a player that is
\* deleted late nor a window of an earlier video takes it elsewhere.
PictureStaysPlaced == same => screen = last

\* Between handlers, without a player the picture is full screen again, unless
\* the browser has placed that of the TV programme since.
NoWindowLeft ==
  (\A t \in Thread : pc[t] = "idle") /\ videoPlayer = Null /\ devicePlayer = Null
    => same \/ screen = Full
=============================================================================
