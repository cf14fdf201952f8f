------------------------------ MODULE Scaling ------------------------------
(***************************************************************************)
(* How the two halves of a page with a video get their places on VDR's     *)
(* OSD: an update of the page is scaled by scaleAndPaint (webosdpage.cpp), *)
(* the video by calcVideoPosition (videocontrol.cpp).  The one rounds, the *)
(* other divides integers, and the page leaves a transparent hole where    *)
(* the video is to be seen.  x and width are scaled alike to y and height, *)
(* so one dimension is enough.                                             *)
(***************************************************************************)
EXTENDS Integers

CONSTANT Lengths   \* <<the page's, the display's>>: how long each may be

ASSUME LengthsAssumption == Lengths \subseteq (Nat \ {0}) \X (Nat \ {0})

VARIABLES
  rendered,  \* render_width, or 0 at first
  display,   \* disp_width and what GetOsdSize gives
  painted,   \* where the update was painted
  video      \* where the video was put

svars == <<rendered, display, painted, video>>

Nowhere == [from |-> 0, length |-> 0]
InitScaling == rendered = 0 /\ display = 0 /\ painted = Nowhere /\ video = Nowhere

\* A double holds disp / width, and what it is multiplied with, exactly only if
\* that is a binary fraction; other quotients are rounded, and their products,
\* so a product may lie a little beside the true one: low, if below it.
\* Bound: a page of up to 4096 columns.
Exact(width, disp) == \E k \in 0..12 : (disp * 2^k) % width = 0
Low(width, disp) == IF Exact(width, disp) THEN {FALSE} ELSE BOOLEAN

\* (int) and lround of a product that stands for a / b: what little it may be
\* off only shows where a / b is a whole number, or half way between two.
Cut(a, b, low) == (a \div b) - (IF low /\ a > 0 /\ a % b = 0 THEN 1 ELSE 0)
Round(a, b, low) ==
  ((2 * a + b) \div (2 * b)) - (IF low /\ (2 * a + b) % (2 * b) = 0 THEN 1 ELSE 0)

\* Mutant: the position is rounded too.
PaintRounded(from, length, width, disp, lowFrom, lowLength) ==
  [from   |-> Round(from * disp, width, lowFrom),
   length |-> Round(length * disp, width, lowLength)]

\* The point's coordinates are cut off, the image's size is rounded.
ScaleAndPaint(from, length, width, disp, lowFrom, lowLength) ==
  IF width = disp THEN [from |-> from, length |-> length]
  ELSE [from   |-> Cut(from * disp, width, lowFrom),
        length |-> Round(length * disp, width, lowLength)]

\* Mutant: a pixel more, not to leave a gap.
VideoWider(from, length, width, disp) ==
  [from |-> (from * disp) \div width, length |-> (length * disp) \div width + 1]

\* In integers; the page is 1280 x 720.
CalcVideoPosition(from, length, width, disp) ==
  [from |-> (from * disp) \div width, length |-> (length * disp) \div width]

\* The page has a hole there, paints it, and has the video put into it.  The
\* next one does not depend on it, so one is enough.
PlaceVideo(from, length, width, disp) ==
  /\ rendered = 0 /\ rendered' = width /\ display' = disp
  /\ \E lowFrom, lowLength \in Low(width, disp) :
       painted' = ScaleAndPaint(from, length, width, disp, lowFrom, lowLength)
  /\ video' = CalcVideoPosition(from, length, width, disp)

NextScaling == \E l \in Lengths : \E from \in 0..(l[1] - 1) : \E length \in 1..(l[1] - from) :
                 PlaceVideo(from, length, l[1], l[2])

SpecScaling == InitScaling /\ [][NextScaling]_svars
-----------------------------------------------------------------------------
\* A part of the page stays on the display, however its edges are rounded.
PaintedInside == 0 <= painted.from /\ painted.from + painted.length <= display

\* The video is as wide as its hole or a column less.  It begins where the hole
\* does, or, on a display whose size is no binary fraction of the page's, one
\* column further right; it never covers the page left of its hole.
VideoFitsHole ==
  rendered # 0 =>
    /\ painted.length - video.length \in {0, 1}
    /\ video.from - painted.from \in IF Exact(rendered, display) THEN {0} ELSE {0, 1}
=============================================================================
