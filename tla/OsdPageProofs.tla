--------------------------- MODULE OsdPageProofs ---------------------------
(***************************************************************************)
(* Theorems about OsdPage, for any addresses and sizes: a painter under    *)
(* the mutex meets neither a deleted osd nor a deleted pixmap, no osd is   *)
(* lost while two Displays do not overlap, what an overlap with a painting *)
(* can do, and that the page shows the latest picture when all is quiet.   *)
(***************************************************************************)
EXTENDS OsdPage, TLAPS

USE DEF Faults

\* pixmap is only replaced while it is not in use: the mutex is held exactly
\* from the deletion of the osd until its pointer is cleared.
PixmapInv ==
  /\ pics \subseteq live /\ pixmap \in pics \cup {Null}
  /\ mutex # Null => pc[mutex] = "d_null"
  /\ osd \notin live \cup {Null} => mutex # Null
  /\ pc["browser"] = "u_flush" => fast
  /\ fault = "update" => fast

\* The one Display there is has deleted the page's osd before it makes another.
OwnerInv ==
  overlap # "displays" =>
    /\ live \subseteq {osd}
    /\ fault = Null => ~(Displaying(pc["main"]) /\ Displaying(pc["browser"]))
    /\ \A t \in Thread : pc[t] \in {"d_null", "d_new"} => live = {}

IInv == TypeOK /\ PixmapInv /\ OwnerInv

\* The invariant holds initially.
LEMMA InitIInv == Init => IInv
<1> SUFFICES ASSUME Init PROVE IInv
  OBVIOUS
<1> USE NullAssumption DEF Init, Thread
<1>1. TypeOK
  BY DEF TypeOK, Blank
<1>2. PixmapInv
  BY DEF PixmapInv
<1>3. OwnerInv
  BY DEF OwnerInv, Displaying
<1> QED
  BY <1>1, <1>2, <1>3 DEF IInv

\* An operation that begins as no "displays" overlap did not begin a Display
\* next to another one.
LEMMA MeetApart ==
  ASSUME NEW t \in Thread, NEW first, Meet(t, first), overlap' # "displays"
  PROVE  overlap # "displays" /\ ~(Displaying(first) /\ Displaying(pc[Other(t)]))
  BY DEF Meet

\* How two operations overlap keeps its type.
LEMMA MeetType ==
  ASSUME NEW t \in Thread, NEW first, Meet(t, first), TypeOK
  PROVE  overlap' \in {"safe", "raced", "displays"}
  BY DEF Meet, TypeOK

\* There is always another thread.
LEMMA OtherThread == \A t \in Thread : Other(t) \in Thread /\ Other(t) # t
  BY DEF Thread, Other

\* A fault leaves everything else as it was.
LEMMA FaultIInv ==
  ASSUME IInv, NEW t \in Thread, pc[t] # "d_null",
         NEW what \in {"display", "update", "volume", "bar"}, Fault(t, what),
         what = "update" => fast,
         overlap' \in {"safe", "raced", "displays"},
         overlap' # "displays" => overlap # "displays"
  PROVE  IInv'
<1> USE NullAssumption DEF IInv, Fault, Goto, pointers, picture, heap, browser
<1>1. TypeOK'
  BY DEF TypeOK, Thread
<1>2. PixmapInv'
  BY DEF PixmapInv, TypeOK, Thread
<1>3. OwnerInv'
  BY DEF OwnerInv, TypeOK, Thread, Displaying
<1> QED
  BY <1>1, <1>2, <1>3

-----------------------------------------------------------------------------
\* A Display that begins, on a new page or on the old one.
LEMMA BeginIInv ==
  ASSUME IInv, fault = Null, NEW t \in Thread, Open(t) \/ Redisplay(t) PROVE IInv'
<1> USE DEF IInv, Open, Redisplay, MayDisplay, Goto, pointers, picture, heap, browser
<1>1. TypeOK'
  BY MeetType DEF TypeOK, Thread
<1>2. PixmapInv'
  BY DEF PixmapInv, TypeOK, Thread
<1>3. OwnerInv'
  BY MeetApart DEF OwnerInv, TypeOK, Thread, Displaying, Other
<1> QED
  BY <1>1, <1>2, <1>3

\* Display tests osd.
LEMMA DisplayCheckIInv ==
  ASSUME IInv, fault = Null, NEW t \in Thread, DisplayCheck(t) PROVE IInv'
<1> USE NullAssumption DEF IInv, DisplayCheck, Goto, pointers, picture, heap, browser
<1>1. TypeOK'
  BY DEF TypeOK, Thread
<1>2. PixmapInv'
  BY DEF PixmapInv, TypeOK, Thread
<1>3. OwnerInv'
  BY DEF OwnerInv, TypeOK, Thread, Displaying
<1> QED
  BY <1>1, <1>2, <1>3

\* Display takes the mutex and deletes the old osd.
LEMMA DisplayLockIInv ==
  ASSUME IInv, fault = Null, NEW t \in Thread, DisplayLock(t) PROVE IInv'
<1>1. CASE pixmap # Null /\ osd \notin live
  <2>1. Fault(t, "display") /\ UNCHANGED overlap /\ pc[t] # "d_null"
    BY <1>1 DEF DisplayLock
  <2> QED
    BY <2>1, FaultIInv DEF IInv, TypeOK
<1>2. CASE ~(pixmap # Null /\ osd \notin live)
  <2> USE <1>2, NullAssumption DEF IInv, DisplayLock, Goto, browser
  <2>1. TypeOK'
    BY DEF TypeOK, Thread, Blank
  <2>2. PixmapInv'
    BY DEF PixmapInv, TypeOK, Thread
  <2>3. OwnerInv'
    BY DEF OwnerInv, TypeOK, Thread, Displaying
  <2> QED
    BY <2>1, <2>2, <2>3
<1> QED
  BY <1>1, <1>2

\* Display clears osd and gives the mutex back.
LEMMA DisplayNullIInv ==
  ASSUME IInv, fault = Null, NEW t \in Thread, DisplayNull(t) PROVE IInv'
<1> USE NullAssumption DEF IInv, DisplayNull, Goto, pointers, picture, heap, browser
<1>1. TypeOK'
  BY DEF TypeOK, Thread
<1>2. PixmapInv'
  BY DEF PixmapInv, TypeOK, Thread
<1>3. OwnerInv'
  BY DEF OwnerInv, TypeOK, Thread, Displaying
<1> QED
  BY <1>1, <1>2, <1>3

\* Display asks VDR for a new osd.
LEMMA DisplayNewIInv ==
  ASSUME IInv, fault = Null, NEW t \in Thread, DisplayNew(t) PROVE IInv'
<1> DEFINE free == Osd \ (live \cup {osd, pixmap, pixmapVol})
<1>1. PICK o \in Osd : osd' = o /\ o \notin live /\ live' = live \cup {o}
  <2>1. free # {} /\ osd' = (CHOOSE o \in free : TRUE) /\ live' = live \cup {osd'}
    BY DEF DisplayNew
  <2>2. osd' \in free
    BY <2>1
  <2> QED
    BY <2>1, <2>2
<1> HIDE DEF free
<1>2. /\ pc[t] = "d_new" /\ pc' = [pc EXCEPT ![t] = "d_areas"]
      /\ UNCHANGED <<page, pixmap, pixmapVol, disp, shown, expired, pics, bars, mutex,
                     fast, owed, missed, update, overlap, fault>>
  BY DEF DisplayNew, Goto, picture, browser
<1> USE NullAssumption, <1>1, <1>2 DEF IInv
<1>3. TypeOK'
  BY DEF TypeOK, Thread
<1>4. PixmapInv'
  BY DEF PixmapInv, TypeOK, Thread
<1>5. OwnerInv'
  BY DEF OwnerInv, TypeOK, Thread, Displaying
<1> QED
  BY <1>3, <1>4, <1>5

\* Display sets up the areas, then makes the pixmap.
LEMMA DisplaySizeIInv ==
  ASSUME IInv, fault = Null, NEW t \in Thread, DisplayAreas(t) \/ SetOsdSize(t)
  PROVE  IInv'
<1>1. CASE osd \notin live
  <2>1. Fault(t, "display") /\ UNCHANGED overlap /\ pc[t] # "d_null"
    BY <1>1 DEF DisplayAreas, SetOsdSize
  <2> QED
    BY <2>1, FaultIInv DEF IInv, TypeOK
<1>2. CASE osd \in live
  <2> USE <1>2, NullAssumption DEF IInv, DisplayAreas, SetOsdSize, Goto, pointers, heap,
          browser
  <2>1. TypeOK'
    BY DEF TypeOK, Thread, Blank
  <2>2. PixmapInv'
    BY DEF PixmapInv, TypeOK, Thread
  <2>3. OwnerInv'
    BY DEF OwnerInv, TypeOK, Thread, Displaying
  <2> QED
    BY <2>1, <2>2, <2>3
<1> QED
  BY <1>1, <1>2

\* Display asks the browser to paint.
LEMMA ReloadOSDIInv ==
  ASSUME IInv, fault = Null, NEW t \in Thread, ReloadOSD(t) PROVE IInv'
<1> USE DEF IInv, ReloadOSD, Goto, pointers, picture, heap
<1>1. TypeOK'
  <2>1. /\ owed' \in BOOLEAN /\ missed' \in BOOLEAN
        /\ pc' = [pc EXCEPT ![t] = "idle"]
        /\ UNCHANGED <<page, osd, pixmap, pixmapVol, disp, shown, expired, live, pics, bars,
                       mutex, fast, update, overlap, fault>>
    BY DEF TypeOK
  <2> HIDE DEF ReloadOSD, Goto
  <2> QED
    BY <2>1 DEF TypeOK, Thread
<1>2. PixmapInv'
  BY DEF PixmapInv, TypeOK, Thread
<1>3. OwnerInv'
  BY DEF OwnerInv, TypeOK, Thread, Displaying
<1> QED
  BY <1>1, <1>2, <1>3

-----------------------------------------------------------------------------
\* The browser draws, or is refused.
LEMMA RedrawIInv == ASSUME IInv, fault = Null, Redraw \/ Refuse PROVE IInv'
<1> USE DEF IInv, Redraw, Refuse, pointers, picture, heap
<1>a. owed' \in BOOLEAN
  OBVIOUS
<1>b. \A s \in {"old", "latest"} \X (Size \cup {Null}) :
        <<"old", s[2]>> \in {"old", "latest"} \X (Size \cup {Null})
  OBVIOUS
<1>c. /\ shown' = shown \/ shown' = <<"old", shown[2]>>
      /\ update' = update \/ update' = <<"old", update[2]>>
  OBVIOUS
<1>1. TypeOK'
  BY <1>a, <1>b, <1>c DEF TypeOK
<1>2. PixmapInv'
  BY DEF PixmapInv
<1>3. OwnerInv'
  BY DEF OwnerInv
<1> QED
  BY <1>1, <1>2, <1>3

\* A painter reads the size and scales, before it has the mutex.
LEMMA ScaleUpdateIInv == ASSUME IInv, fault = Null, ScaleUpdate PROVE IInv'
<1> USE DEF IInv, ScaleUpdate, Goto, pointers, picture, heap
<1>0. "browser" \in Thread
  BY DEF Thread
<1>1. TypeOK'
  BY <1>0, MeetType DEF TypeOK, Thread
<1>2. PixmapInv'
  BY DEF PixmapInv, TypeOK, Thread
<1>3. OwnerInv'
  BY <1>0, MeetApart DEF OwnerInv, TypeOK, Thread, Displaying
<1> QED
  BY <1>1, <1>2, <1>3

\* Where the mutex matters: who holds it has deleted the osd.
LEMMA PaintIInv == ASSUME IInv, fault = Null, Paint PROVE IInv'
<1> DEFINE early == fast /\ update[2] # Render
<1>1. pixmap \in pics \cup {Null} /\ osd \in live \cup {Null}
  BY DEF IInv, PixmapInv, Paint
<1>2. /\ pc["browser"] = "u_paint" /\ UNCHANGED overlap
      /\ shown' = IF pixmap # Null THEN update ELSE shown
      /\ pc' = [pc EXCEPT !["browser"] = IF early THEN "u_flush" ELSE "idle"]
      /\ update' = Blank
      /\ UNCHANGED <<page, osd, pixmap, pixmapVol, disp, expired, live, pics, bars,
                     mutex, fast, owed, missed, fault>>
  BY <1>1 DEF Paint, PaintNow, Goto, pointers, heap
<1>3. early => fast
  OBVIOUS
<1> HIDE DEF early
<1> USE <1>2, <1>3, NullAssumption DEF IInv
<1>4. TypeOK'
  BY DEF TypeOK, Thread, Blank
<1>5. PixmapInv'
  BY DEF PixmapInv, TypeOK, Thread
<1>6. OwnerInv'
  BY DEF OwnerInv, TypeOK, Thread, Displaying
<1> QED
  BY <1>4, <1>5, <1>6

\* A painter flushes without the mutex.
LEMMA FlushUnlockedIInv == ASSUME IInv, fault = Null, FlushUnlocked PROVE IInv'
<1>0. "browser" \in Thread
  BY DEF Thread
<1>1. CASE osd \notin live \cup {Null}
  <2>1. Fault("browser", "update") /\ UNCHANGED overlap /\ pc["browser"] # "d_null" /\ fast
    BY <1>1 DEF FlushUnlocked, IInv, PixmapInv
  <2> QED
    BY <1>0, <2>1, FaultIInv DEF IInv, TypeOK
<1>2. CASE osd \in live \cup {Null}
  <2> USE <1>2, NullAssumption DEF IInv, FlushUnlocked, Goto, pointers, picture, heap, browser
  <2>1. TypeOK'
    BY DEF TypeOK, Thread
  <2>2. PixmapInv'
    BY DEF PixmapInv, TypeOK, Thread
  <2>3. OwnerInv'
    BY DEF OwnerInv, TypeOK, Thread, Displaying
  <2> QED
    BY <2>1, <2>2, <2>3
<1> QED
  BY <1>1, <1>2

-----------------------------------------------------------------------------
\* The bar's operations leave osds and pixmaps alone.
LEMMA VolumeIInv ==
  ASSUME IInv, fault = Null, DrawVolume \/ DrawBar \/ ProcessKey PROVE IInv'
<1>0. "main" \in Thread
  BY DEF Thread
<1>a. /\ overlap' \in {"safe", "raced", "displays"}
      /\ overlap' # "displays" => overlap # "displays"
  BY <1>0, MeetType, MeetApart DEF DrawVolume, DrawBar, ProcessKey, IInv, TypeOK
<1>1. CASE fault' # Null
  <2>1. \E what \in {"volume", "bar"} : Fault("main", what) /\ pc["main"] # "d_null"
    BY <1>1 DEF DrawVolume, DrawBar, ProcessKey
  <2> QED
    BY <1>0, <1>a, <2>1, FaultIInv
<1>2. CASE fault' = Null
  <2>1. /\ pc["main"] \in {"idle", "v_draw"}
        /\ pc' \in {pc, [pc EXCEPT !["main"] = "v_draw"], [pc EXCEPT !["main"] = "idle"]}
        /\ UNCHANGED <<page, osd, pixmap, disp, shown, live, pics, mutex, fast, owed,
                       missed, update>>
    BY <1>2 DEF DrawVolume, DrawBar, ProcessKey, Fault, Goto, pointers, picture, heap,
                browser, IInv, TypeOK
  <2>2. /\ expired' \in BOOLEAN /\ pixmapVol' \in Osd \cup {Null} /\ bars' \subseteq Osd
    BY <1>2, NullAssumption DEF DrawVolume, DrawBar, ProcessKey, Fault, pointers, heap, IInv, TypeOK
  <2> USE <1>a, <1>2, <2>1, <2>2, NullAssumption DEF IInv
  <2>3. TypeOK'
    BY DEF TypeOK, Thread
  <2>4. PixmapInv'
    BY DEF PixmapInv, TypeOK, Thread
  <2>5. OwnerInv'
    BY DEF OwnerInv, TypeOK, Thread, Displaying
  <2> QED
    BY <2>3, <2>4, <2>5
<1> QED
  BY <1>1, <1>2

\* Time passes.
LEMMA SecondsIInv == ASSUME IInv, fault = Null, Seconds PROVE IInv'
<1> USE DEF IInv, Seconds, pointers, picture, heap, browser
<1>1. TypeOK'
  BY DEF TypeOK
<1>2. PixmapInv'
  BY DEF PixmapInv
<1>3. OwnerInv'
  BY DEF OwnerInv
<1> QED
  BY <1>1, <1>2, <1>3

\* The page is deleted.
LEMMA DestructIInv ==
  ASSUME IInv, fault = Null, NEW t \in Thread, Destruct(t) PROVE IInv'
<1> USE NullAssumption DEF IInv, Destruct, browser
<1>1. TypeOK'
  BY DEF TypeOK, Blank
<1>2. PixmapInv'
  BY DEF PixmapInv, TypeOK
<1>3. OwnerInv'
  BY DEF OwnerInv, TypeOK, Displaying
<1> QED
  BY <1>1, <1>2, <1>3

-----------------------------------------------------------------------------
\* No step breaks the invariant.
LEMMA StepIInv == IInv /\ [Next]_vars => IInv'
<1> SUFFICES ASSUME IInv, [Next]_vars PROVE IInv'
  OBVIOUS
<1>1. CASE Next
  <2>1. fault = Null
    BY <1>1 DEF Next
  <2>2. ASSUME NEW t \in Thread, Open(t) \/ Redisplay(t) PROVE IInv'
    BY <2>1, <2>2, BeginIInv
  <2>3. ASSUME NEW t \in Thread, Display(t) PROVE IInv'
    BY <2>1, <2>3, DisplayCheckIInv, DisplayLockIInv, DisplayNullIInv, DisplayNewIInv,
       DisplaySizeIInv, ReloadOSDIInv DEF Display
  <2> QED
    BY <1>1, <2>1, <2>2, <2>3, RedrawIInv, ScaleUpdateIInv, PaintIInv, FlushUnlockedIInv,
       VolumeIInv, SecondsIInv, DestructIInv DEF Next, Step
<1>2. CASE UNCHANGED vars
  <2> USE <1>2 DEF IInv, vars, pointers, picture, heap, browser
  <2>1. TypeOK'
    BY DEF TypeOK
  <2>2. PixmapInv'
    BY DEF PixmapInv
  <2>3. OwnerInv'
    BY DEF OwnerInv
  <2> QED
    BY <2>1, <2>2, <2>3
<1> QED
  BY <1>1, <1>2

\* The invariant the others follow from.
LEMMA OsdInvariant == Spec => []IInv
  BY InitIInv, StepIInv, PTL DEF Spec

\* The variables keep to their types.
THEOREM OsdTypeCorrect == Spec => []TypeOK
<1>1. IInv => TypeOK
  BY DEF IInv
<1> QED
  BY <1>1, OsdInvariant, PTL

\* A painter that gets the mutex never meets a deleted pixmap, and meets a deleted
\* osd only in a build with ENABLE_FAST_SCALE, where it flushes without the mutex.
THEOREM PaintersAreSafe == Spec => []PainterSafe
<1>1. IInv => PainterSafe
  BY DEF IInv, PixmapInv, PainterSafe
<1> QED
  BY <1>1, OsdInvariant, PTL

\* No osd is lost as long as two Displays do not overlap.
THEOREM NoOsdIsLost == Spec => []NoOsdLost
<1>1. IInv => NoOsdLost
  BY DEF IInv, OwnerInv, NoOsdLost
<1> QED
  BY <1>1, OsdInvariant, PTL

-----------------------------------------------------------------------------
(***************************************************************************)
(* What goes wrong when only paintings overlap with other operations, and  *)
(* what the page shows in the end.                                         *)
(***************************************************************************)

\* While only paintings overlap with other operations, at most one of these is
\* under way, on a page that exists, and the page has its osd except where a
\* Display replaces it.
OverlapInv ==
  overlap = "safe" /\ fault = Null =>
    /\ ~Painting(pc["main"]) /\ (pc["main"] = "idle" \/ ~Displaying(pc["browser"]))
    /\ \A t \in Thread : pc[t] # "idle" => page = "live"
    /\ page = "none" => osd = Null
    /\ \A t \in Thread : pc[t] \in {"d_lock", "d_areas", "d_size", "d_reload"} => osd \in live
    /\ page = "live" /\ (\A t \in Thread : ~Displaying(pc[t])) => osd \in live

\* A Display that takes the pixmap away makes another, and ends by asking the
\* browser for its picture: once no Display is under way and the browser owes
\* nothing, what it paints is its latest picture in the page's size.
PictureInv ==
  page = "live" /\ fault = Null =>
    /\ pixmap = Null => \E t \in Thread : Displaying(pc[t]) /\ pc[t] # "d_reload"
    /\ ~owed /\ ~missed /\ (\A t \in Thread : ~Displaying(pc[t])) =>
         IF pc["browser"] = "u_paint" THEN update = <<"latest", disp>> ELSE Shown

OverlapGoal == OverlapInv' /\ OverlapSafe'

\* A fault that may come leaves nothing to show.
LEMMA FaultOverlap ==
  ASSUME IInv, NEW t \in Thread, NEW what, Fault(t, what), what # Null,
         what = "bar" \/ (what = "update" /\ fast) \/ overlap' # "safe"
  PROVE  OverlapGoal
BY DEF IInv, Fault, OverlapGoal, OverlapInv, OverlapSafe

\* What an operation knows that begins and overlaps with paintings only.
LEMMA MeetSafe ==
  ASSUME NEW t \in Thread, NEW first, Meet(t, first), overlap' = "safe"
  PROVE  /\ overlap = "safe"
         /\ Painting(first) \/ pc[Other(t)] = "idle" \/ Painting(pc[Other(t)])
BY DEF Meet

\* The osd a Display may have deleted is only missing inside that Display.
LEMMA OsdThere ==
  ASSUME IInv, NEW t \in Thread, \A u \in Thread \ {t} : ~Displaying(pc[u]),
         pc[t] # "d_null"
  PROVE  osd \in live \cup {Null}
BY NullAssumption DEF IInv, TypeOK, PixmapInv, Displaying

\* A Display begins.
LEMMA BeginOverlap ==
  ASSUME IInv, OverlapInv, OverlapSafe, fault = Null, NEW t \in Thread,
         Open(t) \/ Redisplay(t)
  PROVE  OverlapGoal
<1> SUFFICES ASSUME overlap' = "safe" PROVE OverlapInv' /\ OverlapSafe'
  BY DEF OverlapGoal, OverlapInv, OverlapSafe
<1>1. /\ overlap = "safe" /\ (pc[Other(t)] = "idle" \/ Painting(pc[Other(t)]))
      /\ pc[t] = "idle" /\ pc' = [pc EXCEPT ![t] = "d_check"] /\ page' = "live"
      /\ UNCHANGED <<osd, live, fault>>
  BY MeetSafe DEF Open, Redisplay, MayDisplay, Goto, Painting, pointers, heap
<1>2. OverlapSafe'
  BY <1>1 DEF OverlapSafe
<1>3. OverlapInv'
  BY <1>1 DEF OverlapInv, IInv, TypeOK, Thread, Displaying, Painting, Other
<1> QED BY <1>2, <1>3

\* The steps of Display.
LEMMA DisplayOverlap ==
  ASSUME IInv, OverlapInv, OverlapSafe, fault = Null, NEW t \in Thread, Display(t)
  PROVE  OverlapGoal
<1> SUFFICES ASSUME overlap' = "safe" PROVE OverlapInv' /\ OverlapSafe'
  BY DEF OverlapGoal, OverlapInv, OverlapSafe
<1>1. overlap = "safe" /\ Displaying(pc[t])
  BY DEF Display, DisplayCheck, DisplayLock, DisplayNull, DisplayNew, DisplayAreas,
     SetOsdSize, ReloadOSD, Displaying
<1>2. /\ \A u \in Thread \ {t} : ~Displaying(pc[u])
      /\ t = "browser" => pc["main"] = "idle"
      /\ page = "live"
      /\ pc[t] \in {"d_lock", "d_areas", "d_size", "d_reload"} => osd \in live
  BY <1>1 DEF OverlapInv, IInv, OwnerInv, Thread, Displaying, Painting
<1>3. pc[t] # "d_null" => osd \in live \cup {Null}
  BY <1>2, OsdThere
<1>4. CASE DisplayCheck(t)
  <2>1. /\ pc[t] = "d_check" /\ pc' = [pc EXCEPT ![t] = IF osd # Null THEN "d_lock" ELSE "d_new"]
        /\ UNCHANGED <<page, osd, live, fault>>
    BY <1>4 DEF DisplayCheck, Goto, pointers, heap
  <2>2. \E l \in {"d_lock", "d_new"} :
          /\ pc' = [pc EXCEPT ![t] = l]
          /\ l = "d_lock" => osd \in live
    BY <1>3, <2>1
  <2> QED
    BY <1>1, <1>2, <2>1, <2>2 DEF OverlapInv, OverlapSafe, IInv, TypeOK, Thread, Displaying, Painting
<1>5. CASE DisplayLock(t)
  BY <1>1, <1>2, <1>5 DEF DisplayLock, Goto, OverlapInv, OverlapSafe, IInv, TypeOK,
     Thread, Displaying, Painting
<1>6. CASE DisplayNull(t)
  BY <1>1, <1>2, <1>6 DEF DisplayNull, Goto, pointers, heap, OverlapInv, OverlapSafe, IInv, TypeOK,
     Thread, Displaying, Painting
<1>7. CASE DisplayNew(t)
  <2>1. osd' \in live' /\ pc[t] = "d_new" /\ pc' = [pc EXCEPT ![t] = "d_areas"]
        /\ UNCHANGED <<page, fault>>
    BY <1>7 DEF DisplayNew, Goto
  <2> QED
    BY <1>1, <1>2, <2>1 DEF OverlapInv, OverlapSafe, IInv, TypeOK, Thread, Displaying, Painting
<1>8. CASE DisplayAreas(t) \/ SetOsdSize(t)
  BY <1>1, <1>2, <1>8 DEF DisplayAreas, SetOsdSize, Goto, pointers, heap, OverlapInv, OverlapSafe,
     IInv, TypeOK, Thread, Displaying, Painting
<1>9. CASE ReloadOSD(t)
  BY <1>1, <1>2, <1>9 DEF ReloadOSD, Goto, pointers, heap, OverlapInv, OverlapSafe, IInv, TypeOK,
     Thread, Displaying, Painting
<1> QED BY <1>4, <1>5, <1>6, <1>7, <1>8, <1>9 DEF Display

\* The browser's pictures, and the passing of time.
LEMMA UpdatesOverlap ==
  ASSUME IInv, OverlapInv, OverlapSafe, fault = Null,
         Redraw \/ Refuse \/ Seconds \/ ScaleUpdate \/ Paint
  PROVE  OverlapGoal
<1> SUFFICES ASSUME overlap' = "safe" PROVE OverlapInv' /\ OverlapSafe'
  BY DEF OverlapGoal, OverlapInv, OverlapSafe
<1>1. CASE Redraw \/ Refuse \/ Seconds
  BY <1>1 DEF Redraw, Refuse, Seconds, pointers, heap, browser, OverlapInv, OverlapSafe
<1>2. CASE ScaleUpdate
  <2>1. /\ overlap = "safe" /\ page = "live" /\ pc["browser"] = "idle"
        /\ pc' = [pc EXCEPT !["browser"] = "u_paint"]
        /\ UNCHANGED <<page, osd, live, fault>>
    BY <1>2, MeetSafe DEF ScaleUpdate, Goto, pointers, heap, Thread
  <2> QED
    BY <2>1 DEF OverlapInv, OverlapSafe, IInv, TypeOK, Thread, Displaying, Painting
<1>3. CASE Paint
  <2>1. pixmap \in pics \cup {Null} /\ osd \in live \cup {Null}
    BY <1>3 DEF IInv, PixmapInv, Paint
  <2>2. /\ overlap = "safe" /\ pc["browser"] = "u_paint"
        /\ \E l \in {"u_flush", "idle"} : pc' = [pc EXCEPT !["browser"] = l]
        /\ UNCHANGED <<page, osd, live, fault>>
    BY <1>3, <2>1 DEF Paint, PaintNow, Goto, pointers, heap
  <2> QED
    BY <2>2 DEF OverlapInv, OverlapSafe, IInv, TypeOK, Thread, Displaying, Painting
<1> QED BY <1>1, <1>2, <1>3

\* A flush without the mutex.
LEMMA FlushOverlap ==
  ASSUME IInv, OverlapInv, OverlapSafe, fault = Null, FlushUnlocked
  PROVE  OverlapGoal
<1>1. CASE osd \notin live \cup {Null}
  BY <1>1, FaultOverlap, NullAssumption DEF FlushUnlocked, IInv, PixmapInv, Thread, Fault,
     OverlapGoal, OverlapInv, OverlapSafe
<1>2. CASE osd \in live \cup {Null}
  <2>1. /\ pc["browser"] = "u_flush" /\ pc' = [pc EXCEPT !["browser"] = "idle"]
        /\ UNCHANGED <<page, osd, live, fault, overlap>>
    BY <1>2 DEF FlushUnlocked, Goto, pointers, heap
  <2> QED
    BY <2>1 DEF OverlapGoal, OverlapInv, OverlapSafe, IInv, TypeOK, Thread, Displaying,
       Painting
<1> QED BY <1>1, <1>2

\* The bar's operations: a bar a Display took away is the one thing they miss.
LEMMA VolumeOverlap ==
  ASSUME IInv, OverlapInv, OverlapSafe, fault = Null, DrawVolume \/ DrawBar \/ ProcessKey
  PROVE  OverlapGoal
<1> SUFFICES ASSUME overlap' = "safe" PROVE OverlapInv' /\ OverlapSafe'
  BY DEF OverlapGoal, OverlapInv, OverlapSafe
<1>1. overlap = "safe" /\ page = "live"
      /\ (DrawBar \/ pc["browser"] = "idle" \/ Painting(pc["browser"]))
  BY MeetSafe DEF DrawVolume, DrawBar, ProcessKey, Thread, Other, Painting, OverlapInv
<1>2. osd \in live
  BY <1>1 DEF DrawVolume, DrawBar, ProcessKey, OverlapInv, Thread, Displaying, Painting
<1>3. CASE DrawBar /\ pixmapVol \notin bars
  BY <1>1, <1>3, NullAssumption DEF DrawBar, Fault, OverlapInv, OverlapSafe
<1>4. CASE ~(DrawBar /\ pixmapVol \notin bars)
  <2>1. /\ \E l \in {"idle", "v_draw"} : pc' = [pc EXCEPT !["main"] = l]
        /\ UNCHANGED <<page, osd, live, fault>>
        /\ ~Displaying(pc["browser"])
    <3>1. pc = [pc EXCEPT !["main"] = pc["main"]]
      BY DEF IInv, TypeOK
    <3>2. CASE DrawVolume
      BY <1>1, <1>2, <3>2 DEF DrawVolume, DrawBar, Goto, Painting, Displaying
    <3>3. CASE ProcessKey
      BY <1>1, <1>2, <3>1, <3>3 DEF ProcessKey, DrawBar, Painting, Displaying
    <3>4. CASE DrawBar
      BY <1>1, <1>2, <1>4, <3>4 DEF DrawBar, Goto, pointers, heap, OverlapInv
    <3> QED BY <3>2, <3>3, <3>4
  <2> QED
    BY <1>1, <1>2, <2>1 DEF OverlapInv, OverlapSafe, IInv, TypeOK, Thread, Displaying,
       Painting
<1> QED BY <1>3, <1>4

\* The page is deleted.
LEMMA DestructOverlap ==
  ASSUME IInv, OverlapInv, OverlapSafe, fault = Null, NEW t \in Thread, Destruct(t)
  PROVE  OverlapGoal
<1>1. OverlapSafe'
  BY DEF Destruct, OverlapSafe
<1>2. ASSUME pc[Other(t)] # "idle" PROVE OverlapInv'
  BY <1>2, NullAssumption DEF Destruct, OverlapInv
<1>3. ASSUME pc[Other(t)] = "idle" PROVE OverlapInv'
  <2>1. /\ page' = "none" /\ osd' = Null
        /\ \A u \in Thread : pc'[u] = "idle"
    BY <1>3 DEF Destruct, Thread, Other
  <2> QED
    BY <2>1 DEF OverlapInv, Thread, Displaying, Painting
<1> QED BY <1>1, <1>2, <1>3 DEF OverlapGoal

\* If only paintings overlap with other operations, what can go wrong is a volume
\* bar that a Display took away, a page that is deleted under an operation, and,
\* with ENABLE_FAST_SCALE, the osd that a painter flushes without the mutex.
THEOREM OverlapsAreSafe == Spec => []OverlapSafe
<1> USE DEF OverlapGoal
<1>1. Init => OverlapInv /\ OverlapSafe
  BY NullAssumption DEF Init, OverlapInv, OverlapSafe, Thread, Displaying, Painting
<1>2. IInv /\ OverlapInv /\ OverlapSafe /\ [Next]_vars => OverlapInv' /\ OverlapSafe'
  <2> SUFFICES ASSUME IInv, OverlapInv, OverlapSafe, [Next]_vars PROVE OverlapGoal
    OBVIOUS
  <2>1. CASE Next
    <3>1. fault = Null
      BY <2>1 DEF Next
    <3>2. ASSUME NEW t \in Thread, Open(t) \/ Redisplay(t) \/ Display(t)
          PROVE  OverlapGoal
      BY <3>1, <3>2, BeginOverlap, DisplayOverlap
    <3> QED
      BY <2>1, <3>1, <3>2, UpdatesOverlap, FlushOverlap, VolumeOverlap, DestructOverlap
         DEF Next, Step
  <2>2. CASE UNCHANGED vars
    BY <2>2 DEF vars, pointers, heap, OverlapInv, OverlapSafe
  <2> QED BY <2>1, <2>2
<1> QED
  BY <1>1, <1>2, OsdInvariant, PTL DEF Spec

-----------------------------------------------------------------------------
\* A thread that goes on with its Display: it still has to make the pixmap, or
\* to ask for the picture.
LEMMA DisplayingPicture ==
  ASSUME IInv, NEW t \in Thread, Displaying(pc'[t]),
         pixmap' = Null => pc'[t] # "d_reload"
  PROVE  PictureInv'
BY DEF PictureInv

\* A Display begins.
LEMMA BeginPicture ==
  ASSUME IInv, NEW t \in Thread, Open(t) \/ Redisplay(t) PROVE PictureInv'
<1>1. pc'[t] = "d_check"
  BY DEF Open, Redisplay, Goto, IInv, TypeOK
<1> QED BY <1>1, DisplayingPicture DEF Displaying

\* A fault ends the process, and a page that is gone shows nothing.
LEMMA GonePicture ==
  ASSUME page' = "none" \/ fault' # Null PROVE PictureInv'
BY DEF PictureInv

\* The steps of Display.
LEMMA DisplayPicture ==
  ASSUME IInv, PictureInv, fault = Null, NEW t \in Thread, Display(t), fault' = Null
  PROVE  PictureInv'
<1>1. CASE ReloadOSD(t)
  <2>1. /\ owed' \/ missed'
        /\ pc[t] = "d_reload" /\ pc' = [pc EXCEPT ![t] = "idle"]
        /\ UNCHANGED <<page, pixmap, fault>>
    BY <1>1 DEF ReloadOSD, Goto, pointers
  <2>2. ASSUME page = "live", pixmap' = Null
        PROVE  \E u \in Thread : Displaying(pc'[u]) /\ pc'[u] # "d_reload"
    <3>1. PICK u \in Thread : Displaying(pc[u]) /\ pc[u] # "d_reload"
      BY <2>1, <2>2 DEF PictureInv
    <3>2. pc'[u] = pc[u]
      BY <2>1, <3>1 DEF IInv, TypeOK
    <3> QED BY <3>1, <3>2
  <2> QED BY <2>1, <2>2 DEF PictureInv
<1>2. CASE SetOsdSize(t)
  <2>1. pixmap' = osd /\ osd \in live /\ pc' = [pc EXCEPT ![t] = "d_reload"]
    BY <1>2, NullAssumption DEF SetOsdSize, Goto, Fault
  <2>2. pc'[t] = "d_reload" /\ pixmap' # Null
    BY <2>1, NullAssumption DEF IInv, TypeOK
  <2> QED BY <2>2, DisplayingPicture DEF Displaying
<1>3. CASE DisplayCheck(t) \/ DisplayLock(t) \/ DisplayNull(t) \/ DisplayNew(t) \/ DisplayAreas(t)
  <2>1. \E l \in {"d_lock", "d_new", "d_null", "d_areas", "d_size"} :
          pc' = [pc EXCEPT ![t] = l]
    <3>1. CASE DisplayCheck(t) \/ DisplayNull(t) \/ DisplayNew(t)
      BY <3>1 DEF DisplayCheck, DisplayNull, DisplayNew, Goto
    <3>2. CASE DisplayLock(t) \/ DisplayAreas(t)
      BY <3>2, NullAssumption DEF DisplayLock, DisplayAreas, Goto, Fault
    <3> QED BY <1>3, <3>1, <3>2
  <2>2. pc'[t] \in {"d_lock", "d_new", "d_null", "d_areas", "d_size"}
    BY <2>1 DEF IInv, TypeOK
  <2> QED BY <2>2, DisplayingPicture DEF Displaying
<1> QED BY <1>1, <1>2, <1>3 DEF Display

\* Steps that change neither what is painted nor how far a Display is.
LEMMA KeptPicture ==
  ASSUME IInv, PictureInv,
         UNCHANGED <<page, pixmap, disp, shown, owed, missed, update, fault>>,
         \A t \in Thread : /\ Displaying(pc[t]) => pc'[t] = pc[t]
                           /\ Displaying(pc'[t]) => Displaying(pc[t]),
         (pc["browser"] = "u_paint") <=> (pc'["browser"] = "u_paint")
  PROVE  PictureInv'
BY DEF PictureInv, Shown

\* The browser's picture is scaled for the size the page has now.
LEMMA ScalePicture ==
  ASSUME IInv, PictureInv, fault = Null, ScaleUpdate PROVE PictureInv'
<1>1. /\ pc["browser"] = "idle" /\ pc' = [pc EXCEPT !["browser"] = "u_paint"]
      /\ update' = <<"latest", disp>>
      /\ UNCHANGED <<page, pixmap, disp, fault>>
  BY DEF ScaleUpdate, Goto, pointers, picture
<1>2. /\ pc'["browser"] = "u_paint"
      /\ \A t \in Thread : Displaying(pc[t]) => pc'[t] = pc[t]
  BY <1>1 DEF IInv, TypeOK, Thread, Displaying
<1> QED BY <1>1, <1>2 DEF PictureInv

\* What is painted when no Display is under way is what is shown.
LEMMA PaintPicture ==
  ASSUME IInv, PictureInv, fault = Null, Paint PROVE PictureInv'
<1>1. pixmap \in pics \cup {Null} /\ osd \in live \cup {Null}
  BY DEF IInv, PixmapInv, Paint
<1>2. /\ pc["browser"] = "u_paint"
      /\ shown' = IF pixmap # Null THEN update ELSE shown
      /\ \E l \in {"u_flush", "idle"} : pc' = [pc EXCEPT !["browser"] = l]
      /\ UNCHANGED <<page, pixmap, disp, owed, missed, fault>>
  BY <1>1 DEF Paint, PaintNow, Goto, pointers
<1>3. /\ pc'["browser"] # "u_paint"
      /\ \A t \in Thread : /\ Displaying(pc[t]) => pc'[t] = pc[t]
                           /\ Displaying(pc'[t]) => Displaying(pc[t])
  BY <1>2 DEF IInv, TypeOK, Thread, Displaying
<1>4. ASSUME page = "live", ~owed, ~missed, \A t \in Thread : ~Displaying(pc[t])
      PROVE  Shown'
  BY <1>2, <1>4 DEF PictureInv, Shown
<1> QED BY <1>2, <1>3, <1>4 DEF PictureInv

\* The other updates, and the bar's operations.
LEMMA OthersPicture ==
  ASSUME IInv, PictureInv, fault = Null, fault' = Null,
         Redraw \/ Refuse \/ Seconds \/ FlushUnlocked \/ DrawVolume \/ DrawBar \/ ProcessKey
  PROVE  PictureInv'
<1>1. CASE Redraw
  BY <1>1 DEF Redraw, pointers, PictureInv
<1>2. CASE Refuse
  BY <1>2, GonePicture DEF Refuse
<1>3. CASE Seconds
  BY <1>3, KeptPicture DEF Seconds, pointers, picture, browser
<1>4. CASE FlushUnlocked \/ DrawVolume \/ DrawBar \/ ProcessKey
  <2>1. UNCHANGED <<page, pixmap, disp, shown, owed, missed, update, fault>>
    <3>1. CASE FlushUnlocked
      BY <3>1, NullAssumption DEF FlushUnlocked, Fault, pointers, picture, browser
    <3>2. CASE DrawVolume
      BY <3>2, NullAssumption DEF DrawVolume, Fault, picture, browser
    <3>3. CASE DrawBar
      BY <3>3, NullAssumption DEF DrawBar, Fault, pointers, picture, browser
    <3>4. CASE ProcessKey
      BY <3>4, NullAssumption DEF ProcessKey, Fault, picture, browser
    <3> QED BY <1>4, <3>1, <3>2, <3>3, <3>4
  <2>2. \/ pc["browser"] = "u_flush" /\ pc' = [pc EXCEPT !["browser"] = "idle"]
        \/ pc["main"] = "idle" /\ pc' = [pc EXCEPT !["main"] = "v_draw"]
        \/ pc["main"] = "v_draw" /\ pc' = [pc EXCEPT !["main"] = "idle"]
        \/ pc' = pc
    <3>1. CASE FlushUnlocked
      BY <3>1 DEF FlushUnlocked, Fault, Goto
    <3>2. CASE DrawVolume
      BY <3>2, NullAssumption DEF DrawVolume, Fault, Goto
    <3>3. CASE DrawBar
      BY <3>3 DEF DrawBar, Fault, Goto
    <3>4. CASE ProcessKey
      BY <3>4, NullAssumption DEF ProcessKey, Fault
    <3> QED BY <1>4, <3>1, <3>2, <3>3, <3>4
  <2>3. \A t \in Thread : /\ Displaying(pc[t]) => pc'[t] = pc[t]
                          /\ Displaying(pc'[t]) => Displaying(pc[t])
    BY <2>2 DEF IInv, TypeOK, Thread, Displaying
  <2>4. (pc["browser"] = "u_paint") <=> (pc'["browser"] = "u_paint")
    BY <2>2 DEF IInv, TypeOK, Thread
  <2> QED BY <2>1, <2>3, <2>4, KeptPicture
<1> QED BY <1>1, <1>2, <1>3, <1>4

\* When all is quiet the page shows the browser's latest picture in its size.
THEOREM PicturesAreShown == Spec => []PictureShown
<1>1. Init => PictureInv
  BY DEF Init, PictureInv
<1>2. IInv /\ PictureInv /\ [Next]_vars => PictureInv'
  <2> SUFFICES ASSUME IInv, PictureInv, [Next]_vars, fault' = Null PROVE PictureInv'
    BY GonePicture
  <2>1. CASE Next
    <3>1. fault = Null
      BY <2>1 DEF Next
    <3>2. ASSUME NEW t \in Thread, Open(t) \/ Redisplay(t) \/ Display(t)
          PROVE  PictureInv'
      BY <3>1, <3>2, BeginPicture, DisplayPicture
    <3>3. ASSUME NEW t \in Thread, Destruct(t) PROVE PictureInv'
      BY <3>3, GonePicture DEF Destruct
    <3> QED
      BY <2>1, <3>1, <3>2, <3>3, ScalePicture, PaintPicture, OthersPicture DEF Next, Step
  <2>2. CASE UNCHANGED vars
    BY <2>2 DEF vars, pointers, picture, browser, PictureInv, Shown
  <2> QED BY <2>1, <2>2
<1>3. PictureInv => PictureShown
  BY DEF PictureInv, PictureShown, Shown, Thread, Displaying
<1> QED
  BY <1>1, <1>2, <1>3, OsdInvariant, PTL DEF Spec
=============================================================================
