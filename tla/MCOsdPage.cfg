SPECIFICATION MCSpec
CONSTANTS
  Osd = {o1, o2, o3, o4}
  Size = {hd, uhd}
  Render = hd
  Null = Null
  Pixel <- MCPixel
  Lengths <- MCLengths
INVARIANTS
  PainterSafe
  NoOsdLost
  OverlapSafe
  PictureShown
  RoundTrip
  PaintedInside
  VideoFitsHole
PROPERTIES
  BarGoesAway
  PictureArrives
\* A fault ends the process, and a picture has a last pixel.
CHECK_DEADLOCK FALSE
