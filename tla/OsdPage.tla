------------------------------ MODULE OsdPage ------------------------------
(***************************************************************************)
(* What a WebOSDPage (webosdpage.cpp) draws on: VDR's cOsd, the pixmap of  *)
(* the browser's picture and the pixmap of the volume bar.  VDR's main     *)
(* loop shows the page, passes keys and volume changes, and deletes it;    *)
(* the browser's request handler opens it for a video, shows it again,     *)
(* paints the browser's picture, and deletes it too, when cControl::Launch *)
(* replaces the control the page is.  pixmap_mutex covers the painting and *)
(* parts of Display and of the destructor, but not DrawVolume, DeleteVolume*)
(* and the creation of the osd.                                            *)
(*                                                                         *)
(* A pixmap belongs to the osd that created it and dies with it, so it is  *)
(* named by that osd; pics and bars say which still exist.  An address is  *)
(* taken again only when no pointer holds it.  Dereferencing null or a     *)
(* deleted object ends the process (fault).                                *)
(***************************************************************************)
CONSTANTS
  Osd,        \* addresses of cOsd objects
  Size,       \* sizes of VDR's OSD
  Render,     \* the size of the browser's page
  Null

\* What a step may fault with: see Fault.
Faults == {"display", "update", "volume", "bar", "deleted"}

ASSUME NullAssumption == Null \notin Osd \cup Size \cup {"main", "browser"} \cup Faults

VARIABLES
  page,       \* the WebOSDPage: "none" or "live"
  osd, pixmap, pixmapVol,     \* its pointers
  disp,       \* disp_width and disp_height
  shown,      \* what is on its pixmap: whether that is the browser's latest
              \* picture, and the size it was scaled to
  expired,    \* lastVolumeTime is more than three seconds ago
  live, pics, bars,           \* the osds, and those whose pixmaps exist
  mutex,      \* who holds pixmap_mutex
  fast,       \* a build with ENABLE_FAST_SCALE, whoever does the scaling
  owed,       \* the browser is to send its picture
  missed,     \* the last ReloadOSD failed, and the browser sent nothing since
  pc, update, \* where each thread is; the update the browser's handler holds
  overlap,    \* how far operations have overlapped, see Meet
  fault       \* the operation that met a null or deleted object

pointers == <<osd, pixmap, pixmapVol>>
picture  == <<disp, shown>>
heap     == <<live, pics, bars>>
browser  == <<owed, missed, update>>
vars == <<page, pointers, picture, expired, heap, mutex, fast, browser, pc,
          overlap, fault>>

Thread == {"main", "browser"}
Blank  == <<"old", Null>>
Other(t) == IF t = "main" THEN "browser" ELSE "main"

Init ==
  /\ page = "none" /\ osd = Null /\ pixmap = Null /\ pixmapVol = Null
  /\ disp = Null /\ shown = Blank /\ expired = FALSE
  /\ live = {} /\ pics = {} /\ bars = {}
  /\ mutex = Null /\ fast \in BOOLEAN
  /\ owed = FALSE /\ missed = FALSE /\ update = Blank
  /\ pc = [t \in Thread |-> "idle"]
  /\ overlap = "safe" /\ fault = Null

-----------------------------------------------------------------------------
Goto(t, l) == pc' = [pc EXCEPT ![t] = l]
Painting(l) == l \in {"u_paint", "u_flush"}
Displaying(l) == l \notin {"idle", "u_paint", "u_flush", "v_draw"}

\* History: thread t begins an operation while the other is at pc[Other(t)].
\* A painting may overlap with whatever the main loop does to a page; other
\* overlaps are "raced", those of two Displays "displays".  A deletion ends the
\* operations it overlaps with (fault).
Meet(t, first) ==
  LET there == pc[Other(t)] IN
  overlap' = IF overlap = "displays" \/ (Displaying(first) /\ Displaying(there))
             THEN "displays"
             ELSE IF there # "idle" /\ ~Painting(first) /\ ~Painting(there)
             THEN "raced"
             ELSE overlap

Fault(t, what) ==
  /\ fault' = what /\ Goto(t, "idle")
  /\ UNCHANGED <<page, pointers, picture, expired, heap, mutex, fast, browser>>

-----------------------------------------------------------------------------
(* Display, in either thread.                                              *)

\* Bound: once two Displays have overlapped no further one begins.
MayDisplay(t) == pc[t] = "idle" /\ overlap # "displays"

\* WebOSDPage::Create makes the page for the thread that is going to show it.
Open(t) == /\ page = "none" /\ MayDisplay(t)
           /\ page' = "live"
           /\ Goto(t, "d_check") /\ Meet(t, "d_check")
           /\ UNCHANGED <<pointers, picture, expired, heap, mutex, fast, browser, fault>>

\* Another StartVideo or ResetVideo, and Show after GetInfo.
Redisplay(t) ==
  /\ page = "live" /\ MayDisplay(t)
  /\ Goto(t, "d_check") /\ Meet(t, "d_check")
  /\ UNCHANGED <<page, pointers, picture, expired, heap, mutex, fast, browser, fault>>

\* The osd is tested before the mutex is taken.
DisplayCheck(t) ==
  /\ pc[t] = "d_check"
  /\ Goto(t, IF osd # Null THEN "d_lock" ELSE "d_new")
  /\ UNCHANGED <<page, pointers, picture, expired, heap, mutex, fast, browser,
                 overlap, fault>>

\* Mutant: the pixmap pointer stays.
DisplayLockKeeps(t) ==
  /\ pc[t] = "d_lock" /\ mutex = Null
  /\ mutex' = t
  /\ live' = live \ {osd} /\ pics' = pics \ {osd} /\ bars' = bars \ {osd}
  /\ Goto(t, "d_null")
  /\ UNCHANGED <<page, pointers, picture, expired, fast, browser, overlap, fault>>

\* DestroyPixmap and delete osd: its pixmaps go with it, and pixmapVol keeps
\* pointing there.
DisplayLock(t) ==
  /\ pc[t] = "d_lock" /\ mutex = Null
  /\ UNCHANGED overlap
  /\ IF pixmap # Null /\ osd \notin live
     THEN Fault(t, "display")
     ELSE /\ mutex' = t
          /\ pixmap' = Null /\ shown' = Blank
          /\ live' = live \ {osd} /\ pics' = pics \ {osd} /\ bars' = bars \ {osd}
          /\ Goto(t, "d_null")
          /\ UNCHANGED <<page, osd, pixmapVol, disp, expired, fast, browser, fault>>

\* Mutant: the mutex is not given back.
DisplayNullHolds(t) ==
  /\ pc[t] = "d_null"
  /\ osd' = Null
  /\ Goto(t, "d_new")
  /\ UNCHANGED <<page, pixmap, pixmapVol, picture, expired, heap, mutex, fast,
                 browser, overlap, fault>>

DisplayNull(t) ==
  /\ pc[t] = "d_null"
  /\ osd' = Null /\ mutex' = Null
  /\ Goto(t, "d_new")
  /\ UNCHANGED <<page, pixmap, pixmapVol, picture, expired, heap, fast, browser,
                 overlap, fault>>

\* NewOsd, without the mutex.  Which of the free addresses it gets is all one.
DisplayNew(t) ==
  /\ pc[t] = "d_new"
  /\ LET free == Osd \ (live \cup {osd, pixmap, pixmapVol})
     IN /\ free # {}
        /\ osd' = CHOOSE o \in free : TRUE
        /\ live' = live \cup {osd'}
  /\ Goto(t, "d_areas")
  /\ UNCHANGED <<page, pixmap, pixmapVol, picture, expired, pics, bars, mutex, fast,
                 browser, overlap, fault>>

\* GetOsdSize gives whatever size VDR's OSD has by now; SetAreas.
DisplayAreas(t) ==
  /\ pc[t] = "d_areas"
  /\ UNCHANGED overlap
  /\ IF osd \notin live
     THEN Fault(t, "display")
     ELSE /\ disp' \in Size
          /\ Goto(t, "d_size")
          /\ UNCHANGED <<page, pointers, shown, expired, heap, mutex, fast, browser,
                         fault>>

\* SetOsdSize, under the mutex: a new pixmap, cleared.
SetOsdSize(t) ==
  /\ pc[t] = "d_size" /\ mutex = Null
  /\ UNCHANGED overlap
  /\ IF osd \notin live
     THEN Fault(t, "display")
     ELSE /\ disp' \in Size
          /\ pics' = (pics \ ({pixmap} \cap {osd})) \cup {osd}
          /\ pixmap' = osd /\ shown' = Blank
          /\ Goto(t, "d_reload")
          /\ UNCHANGED <<page, osd, pixmapVol, expired, live, bars, mutex, fast,
                         browser, fault>>

\* Mutant: the browser is not asked to paint again.
NoReloadOSD(t) ==
  /\ pc[t] = "d_reload"
  /\ Goto(t, "idle")
  /\ UNCHANGED <<page, pointers, picture, expired, heap, mutex, fast, browser,
                 overlap, fault>>

\* ReloadOSD: the browser will send its picture, or cannot be reached, which
\* Display does not look at.
ReloadOSD(t) ==
  /\ pc[t] = "d_reload"
  /\ \/ owed' = TRUE /\ missed' = FALSE
     \/ owed' = owed /\ missed' = TRUE
  /\ Goto(t, "idle")
  /\ UNCHANGED <<page, pointers, picture, expired, heap, mutex, fast, update,
                 overlap, fault>>

Display(t) == \/ DisplayCheck(t) \/ DisplayLock(t) \/ DisplayNull(t) \/ DisplayNew(t)
              \/ DisplayAreas(t) \/ SetOsdSize(t) \/ ReloadOSD(t)

-----------------------------------------------------------------------------
(* The browser's updates.                                                  *)

\* The browser has a new picture: what was sent before is no longer the latest.
Redraw == /\ owed' = TRUE
          /\ shown' = <<"old", shown[2]>> /\ update' = <<"old", update[2]>>
          /\ UNCHANGED <<page, pointers, disp, expired, heap, mutex, fast, missed,
                         pc, overlap, fault>>

\* ProcessOsdUpdate without a page is answered with an exception.
Refuse == /\ page = "none" /\ pc["browser"] = "idle" /\ owed
          /\ owed' = FALSE
          /\ UNCHANGED <<page, pointers, picture, expired, heap, mutex, fast, missed,
                         update, pc, overlap, fault>>

\* scaleAndPaint reads the size and scales before it takes the mutex.
ScaleUpdate == /\ page = "live" /\ pc["browser"] = "idle" /\ owed
               /\ owed' = FALSE /\ missed' = FALSE
               /\ update' = <<"latest", disp>>
               /\ Goto("browser", "u_paint") /\ Meet("browser", "u_paint")
               /\ UNCHANGED <<page, pointers, picture, expired, heap, mutex, fast,
                              fault>>

\* What Paint does once it may.  Without a pixmap the picture is lost, and the
\* browser is told that it was drawn.  With ENABLE_FAST_SCALE the lock of a
\* picture that is scaled, by the device or by GraphicsMagick, ends with the
\* block that scales it, before Flush.
PaintNow ==
  LET early == fast /\ update[2] # Render IN
  IF pixmap \notin pics \cup {Null} \/ (~early /\ osd \notin live \cup {Null})
  THEN Fault("browser", "update")
  ELSE /\ shown' = IF pixmap # Null THEN update ELSE shown
       /\ Goto("browser", IF early THEN "u_flush" ELSE "idle")
       /\ update' = Blank
       /\ UNCHANGED <<page, pointers, disp, expired, heap, mutex, fast, owed, missed,
                      fault>>

\* Mutant: the mutex is not waited for.
PaintUnlocked == pc["browser"] = "u_paint" /\ UNCHANGED overlap /\ PaintNow

\* DrawImage and Flush under the mutex.
Paint == pc["browser"] = "u_paint" /\ mutex = Null /\ UNCHANGED overlap /\ PaintNow

FlushUnlocked ==
  /\ pc["browser"] = "u_flush"
  /\ UNCHANGED overlap
  /\ IF osd \notin live \cup {Null}
     THEN Fault("browser", "update")
     ELSE /\ Goto("browser", "idle")
          /\ UNCHANGED <<page, pointers, picture, expired, heap, mutex, fast, browser,
                         fault>>

-----------------------------------------------------------------------------
(* The main loop's other calls, and the destructor.                        *)

\* DrawVolume of a volume that differs from lastVolume makes the bar ...
DrawVolume ==
  /\ page = "live" /\ pc["main"] = "idle"
  /\ Meet("main", "v_draw")
  /\ IF pixmapVol = Null /\ osd \notin live
     THEN Fault("main", "volume")
     ELSE /\ pixmapVol' = IF pixmapVol = Null THEN osd ELSE pixmapVol
          /\ bars' = IF pixmapVol = Null THEN bars \cup {osd} ELSE bars
          /\ Goto("main", "v_draw")
          /\ UNCHANGED <<page, osd, pixmap, picture, expired, live, pics, mutex, fast,
                         browser, fault>>

\* ... and draws it, resets the timeout and flushes.
DrawBar ==
  /\ pc["main"] = "v_draw"
  /\ UNCHANGED overlap
  /\ IF pixmapVol \notin bars THEN Fault("main", "bar")
     ELSE IF osd \notin live \cup {Null} THEN Fault("main", "volume")
     ELSE /\ expired' = FALSE
          /\ Goto("main", "idle")
          /\ UNCHANGED <<page, pointers, picture, heap, mutex, fast, browser, fault>>

\* Mutant: the bar stays.
ProcessKeyKeeps ==
  /\ page = "live" /\ pc["main"] = "idle" /\ pixmapVol # Null /\ expired
  /\ bars' = bars \ {pixmapVol}
  /\ UNCHANGED <<page, pointers, picture, expired, live, pics, mutex, fast, browser,
                 pc, overlap, fault>>

\* ProcessKey deletes a bar older than three seconds; keys go to the browser.
\* DestroyPixmap only knows the pixmaps of its own osd.
ProcessKey ==
  /\ page = "live" /\ pc["main"] = "idle" /\ pixmapVol # Null /\ expired
  /\ Meet("main", "v_draw")
  /\ IF osd \notin live
     THEN Fault("main", "volume")
     ELSE /\ bars' = bars \ ({pixmapVol} \cap {osd})
          /\ pixmapVol' = Null
          /\ UNCHANGED <<page, osd, pixmap, picture, expired, live, pics, mutex, fast,
                         browser, pc, fault>>

Seconds == /\ page = "live" /\ ~expired /\ expired' = TRUE
           /\ UNCHANGED <<page, pointers, picture, heap, mutex, fast, browser, pc,
                          overlap, fault>>

\* Mutant: the destructor only forgets its osd.
DestructKeepsOsd(t) ==
  /\ page = "live" /\ pc[t] = "idle" /\ mutex = Null
  /\ page' = "none"
  /\ osd' = Null /\ pixmap' = Null /\ pixmapVol' = Null
  /\ fault' = IF pc[Other(t)] # "idle" THEN "deleted" ELSE fault
  /\ UNCHANGED <<picture, expired, heap, mutex, fast, browser, pc, overlap>>

\* VDR deletes the page in its main loop, or in the browser's thread when
\* StartVideo launches another control: whoever is still inside works on a
\* deleted object.
Destruct(t) ==
  /\ page = "live" /\ pc[t] = "idle" /\ mutex = Null
  /\ page' = "none"
  /\ live' = live \ {osd} /\ pics' = pics \ {osd} /\ bars' = bars \ {osd}
  /\ osd' = Null /\ pixmap' = Null /\ pixmapVol' = Null
  /\ disp' = Null /\ shown' = Blank /\ expired' = FALSE
  /\ fault' = IF pc[Other(t)] # "idle" THEN "deleted" ELSE fault
  /\ UNCHANGED <<mutex, fast, browser, pc, overlap>>

-----------------------------------------------------------------------------
Step(t) == Display(t) \/ (t = "browser" /\ (Paint \/ FlushUnlocked))
                      \/ (t = "main" /\ DrawBar)

Next == /\ fault = Null
        /\ \/ \E t \in Thread : Open(t) \/ Redisplay(t) \/ Step(t) \/ Destruct(t)
           \/ Redraw \/ Refuse \/ ScaleUpdate
           \/ DrawVolume \/ ProcessKey \/ Seconds

Spec == Init /\ [][Next]_vars

\* Operations that have begun go on, and a mutex that is given back again and
\* again is obtained; the browser sends what it owes; time goes by, and VDR
\* passes keys (or none) to the page in every round of its loop.
FairSpec == /\ Spec
            /\ \A t \in Thread : SF_vars(fault = Null /\ Step(t))
            /\ WF_vars(fault = Null /\ (ScaleUpdate \/ Refuse))
            /\ WF_vars(fault = Null /\ Seconds) /\ SF_vars(fault = Null /\ ProcessKey)
-----------------------------------------------------------------------------
\* The variables keep to their types.
TypeOK ==
  /\ page \in {"none", "live"}
  /\ osd \in Osd \cup {Null} /\ pixmap \in Osd \cup {Null}
  /\ pixmapVol \in Osd \cup {Null}
  /\ disp \in Size \cup {Null} /\ expired \in BOOLEAN
  /\ shown \in {"old", "latest"} \X (Size \cup {Null})
  /\ live \subseteq Osd /\ pics \subseteq Osd /\ bars \subseteq Osd
  /\ mutex \in Thread \cup {Null} /\ fast \in BOOLEAN
  /\ owed \in BOOLEAN /\ missed \in BOOLEAN
  /\ update \in {"old", "latest"} \X (Size \cup {Null})
  /\ pc \in [Thread -> {"idle", "d_check", "d_lock", "d_null", "d_new", "d_areas",
                        "d_size", "d_reload", "u_paint", "u_flush", "v_draw"}]
  /\ overlap \in {"safe", "raced", "displays"}
  /\ fault \in Faults \cup {Null}

\* Although Display creates the osd without the mutex and tests it before, and
\* two of them may run at once, a painter that gets the mutex never finds a
\* deleted pixmap.  It meets a deleted osd only where it flushes without the
\* mutex, which no build does but one with ENABLE_FAST_SCALE.
PainterSafe ==
  /\ mutex = Null => pixmap \in pics \cup {Null} /\ pics \subseteq live
  /\ fault = "update" => fast

\* As long as two Displays do not overlap, no osd is lost: what exists is the
\* page's, and none is left when the page is gone.
NoOsdLost == overlap # "displays" => live \subseteq {osd}

\* If only paintings overlap with other operations, two things can go wrong (but
\* for a page that is deleted under an operation): DrawVolume draws on a bar that
\* a Display took away with its osd, and in a build with ENABLE_FAST_SCALE a
\* painter flushes the osd that a Display has just deleted.
OverlapSafe ==
  overlap = "safe" => \/ fault \in {Null, "bar", "deleted"}
                      \/ fast /\ fault = "update"

\* When all is quiet the page shows the browser's picture, scaled to the size
\* of the OSD it is on, whatever was painted before, during or after a Display;
\* except that nobody repeats a ReloadOSD that failed.
Shown == shown = <<"latest", disp>>
PictureShown ==
  page = "live" /\ fault = Null /\ ~owed /\ ~missed
     /\ (\A t \in Thread : pc[t] = "idle") => Shown

\* A bar goes away after a while unless the volume keeps changing or the page
\* dies ("check if volumebar is displayed and kill it after a timeout").
BarGoesAway == \/ []<>(pixmapVol = Null) \/ []<><<DrawBar>>_vars
               \/ <>(fault # Null)

\* Once nobody shows the page again and the picture stays, it is on the screen
\* in the end: no operation gets stuck on the mutex.
PictureArrives ==
  <>[][~(Redraw \/ \E t \in Thread : Open(t) \/ Redisplay(t))]_vars
    => <>[](Shown \/ missed \/ page = "none" \/ fault # Null)
=============================================================================
