--------------------------- MODULE PictureProofs ---------------------------
(***************************************************************************)
(* The picture on its way to the OSD: what Qoi and Scaling promise holds   *)
(* for all pictures, and for pages and displays of every length.           *)
(***************************************************************************)
EXTENDS Qoi, Scaling, SequenceTheorems, TLAPS

-----------------------------------------------------------------------------
(***************************************************************************)
(* Scaling.                                                                *)
(***************************************************************************)

\* What an integer division leaves.
LEMMA Division ==
  ASSUME NEW a \in Nat, NEW b \in Nat \ {0}
  PROVE  /\ a \div b \in Nat
         /\ b * (a \div b) <= a
         /\ a < b * (a \div b) + b
  BY Z3

\* Numbers whose multiples are less than one step apart.
LEMMA Cancel ==
  ASSUME NEW b \in Nat \ {0}, NEW m \in Int, NEW n \in Int, b * m < b * n + b
  PROVE  m <= n
<1>1. SUFFICES ASSUME m >= n + 1 PROVE FALSE
  OBVIOUS
<1>2. PICK k \in Nat : k = m - (n + 1)
  BY <1>1
<1>3. b * k >= 0
  OBVIOUS
<1>4. b * k = b * m - b * n - b
  BY <1>2
<1> QED BY <1>3, <1>4

\* A part of a page is scaled to no more than the whole page.
LEMMA ProductMonotone ==
  ASSUME NEW m \in Nat, NEW n \in Nat, NEW d \in Nat, m <= n
  PROVE  m * d <= n * d
<1>1. PICK k \in Nat : k = n - m
  OBVIOUS
<1>2. k * d >= 0
  OBVIOUS
<1>3. k * d = n * d - m * d
  BY <1>1
<1> QED BY <1>2, <1>3

\* Products and quotients by name, which keeps the arithmetic out of sight where
\* a lemma is to be applied.
IsProduct(x, a, b) == x = a * b
IsQuotient(x, a, b) == x = a \div b
IsRounded(x, a, b) == x = (2 * a + b) \div (2 * b)
IsMultiple(a, b) == a % b = 0
IsHalfWay(a, b) == (2 * a + b) % (2 * b) = 0

\* What a division, whose result has a name, leaves.
LEMMA Quotient ==
  ASSUME NEW a \in Nat, NEW b \in Nat \ {0}, NEW x, IsQuotient(x, a, b)
  PROVE  /\ x \in Nat /\ b * x <= a /\ a < b * x + b
         /\ IsMultiple(a, b) => a = b * x
<1>1. x = a \div b
  BY DEF IsQuotient
<1>2. x \in Nat /\ b * x <= a /\ a < b * x + b
  BY <1>1, Division
<1>3. ASSUME IsMultiple(a, b) PROVE a = b * x
  <2>1. a % b = 0
    BY <1>3 DEF IsMultiple
  <2>2. a = b * (a \div b) + (a % b)
    BY Z3
  <2> QED BY <1>1, <1>2, <2>1, <2>2
<1> QED BY <1>2, <1>3

\* A number that is not below another and not above the next one.
LEMMA Within ==
  ASSUME NEW x \in Int, NEW y \in Int, x <= y, y <= x + 1 PROVE y - x \in {0, 1}
  OBVIOUS

\* q is f, v is l, both over page and cut off; r is l over page, rounded.  The
\* cut position and the rounded size, together, stay on the display; the rounded
\* size is the cut one or one more, and one more when it is half way.
LEMMA ScaledBounds ==
  ASSUME NEW page \in Nat \ {0}, NEW disp \in Nat, NEW f \in Nat, NEW l \in Nat,
         f + l <= page * disp,
         NEW q \in Nat, NEW v \in Nat, NEW r \in Nat,
         page * q <= f, page * v <= l, l < page * v + page,
         2 * (page * r) <= 2 * l + page, 2 * l + page < 2 * (page * r) + 2 * page
  PROVE  /\ q + r <= disp /\ v <= r /\ r <= v + 1
         /\ 2 * l + page = 2 * (page * r) => r = v + 1
<1>1. page * (q + r) = page * q + page * r /\ page * (v + 1) = page * v + page
  OBVIOUS
<1>2. page * q \in Int /\ page * r \in Int /\ page * v \in Int /\ page * disp \in Int
  OBVIOUS
<1>3. q + r <= disp
  <2>1. page * (q + r) < page * disp + page
    BY <1>1, <1>2
  <2> QED BY <2>1, Cancel
<1>4. v <= r
  <2>1. page * v < page * r + page
    BY <1>2
  <2> QED BY <2>1, Cancel
<1>5. r <= v + 1
  <2>1. page * r < page * (v + 1) + page
    BY <1>1, <1>2
  <2> QED BY <2>1, Cancel
<1>6. ASSUME 2 * l + page = 2 * (page * r) PROVE r # v
  BY <1>2, <1>6
<1> QED BY <1>3, <1>4, <1>5, <1>6

\* The same of what is scaled.
LEMMA ScaledPart ==
  ASSUME NEW page \in Nat \ {0}, NEW disp \in Nat \ {0},
         NEW from \in Nat, NEW length \in Nat, from + length <= page,
         NEW f, IsProduct(f, from, disp), NEW l, IsProduct(l, length, disp),
         NEW q, IsQuotient(q, f, page), NEW v, IsQuotient(v, l, page),
         NEW r, IsRounded(r, l, page)
  PROVE  /\ f \in Nat /\ l \in Nat /\ q \in Nat /\ v \in Nat /\ r \in Nat
         /\ q + r <= disp /\ r - v \in {0, 1}
         /\ f > 0 /\ IsMultiple(f, page) => q >= 1
         /\ IsHalfWay(l, page) => r = v + 1
<1>1. f \in Nat /\ l \in Nat
  BY DEF IsProduct
<1>2. f + l <= page * disp
  <2>1. (from + length) * disp <= page * disp
    BY ProductMonotone
  <2>2. (from + length) * disp = from * disp + length * disp
    OBVIOUS
  <2> QED BY <2>1, <2>2 DEF IsProduct
<1>3. PICK n \in Nat, b \in Nat \ {0} : n = 2 * l + page /\ b = 2 * page
  BY <1>1
<1>4. /\ q \in Nat /\ page * q <= f
      /\ IsMultiple(f, page) => f = page * q
  BY <1>1, Quotient
<1>5. v \in Nat /\ page * v <= l /\ l < page * v + page
  BY <1>1, Quotient
<1>6. /\ r \in Nat /\ b * r <= n /\ n < b * r + b
      /\ IsMultiple(n, b) => n = b * r
  <2>1. IsQuotient(r, n, b)
    BY <1>3 DEF IsRounded, IsQuotient
  <2> QED BY <2>1, Quotient
<1>7. b * r = 2 * (page * r)
  BY <1>3, <1>6
<1>8. /\ 2 * (page * r) <= 2 * l + page /\ 2 * l + page < 2 * (page * r) + 2 * page
      /\ IsHalfWay(l, page) => 2 * l + page = 2 * (page * r)
  <2>1. IsHalfWay(l, page) => IsMultiple(n, b)
    BY <1>3 DEF IsHalfWay, IsMultiple
  <2> QED BY <1>3, <1>6, <1>7, <2>1
<1>9. /\ q + r <= disp /\ v <= r /\ r <= v + 1
      /\ 2 * l + page = 2 * (page * r) => r = v + 1
  BY <1>1, <1>2, <1>4, <1>5, <1>6, <1>8, ScaledBounds
<1>10. r - v \in {0, 1}
  BY <1>5, <1>6, <1>9, Within
<1>11. ASSUME f > 0, IsMultiple(f, page) PROVE q >= 1
  <2>1. f = page * q
    BY <1>4, <1>11
  <2>2. q # 0
    BY <1>11, <2>1
  <2> QED BY <1>4, <2>2
<1> QED BY <1>1, <1>4, <1>5, <1>6, <1>8, <1>9, <1>10, <1>11

-----------------------------------------------------------------------------
\* Both hold before anything is placed, and PlaceVideo, which happens once,
\* establishes both.
Inv == PaintedInside /\ VideoFitsHole

\* Nothing is painted initially.
LEMMA InvInit == InitScaling => Inv
  BY DEF InitScaling, Nowhere, Inv, PaintedInside, VideoFitsHole

\* On a display of the page's size nothing is scaled.
LEMMA SameSize ==
  ASSUME NEW page \in Nat \ {0}, NEW a \in Nat PROVE (a * page) \div page = a
<1> DEFINE d == (a * page) \div page
<1>1. a * page \in Nat /\ a * page = page * a
  OBVIOUS
<1>2. /\ d \in Nat /\ page * d <= page * a /\ page * a < page * d + page
  BY <1>1, Division
<1> HIDE DEF d
<1>3. page * d < page * a + page
  BY <1>2
<1>4. d <= a /\ a <= d
  BY <1>2, <1>3, Cancel
<1> QED BY <1>2, <1>4 DEF d

\* What a product is off by goes away from the right edge.
LEMMA OffBy ==
  ASSUME NEW page \in Nat \ {0}, NEW disp \in Nat \ {0},
         NEW from \in Nat, NEW length \in Nat, from + length <= page,
         NEW lowFrom \in Low(page, disp), NEW lowLength \in Low(page, disp),
         NEW f, IsProduct(f, from, disp), NEW l, IsProduct(l, length, disp),
         NEW p, p = Cut(f, page, lowFrom), NEW s, s = Round(l, page, lowLength),
         NEW q, IsQuotient(q, f, page), NEW v, IsQuotient(v, l, page)
  PROVE  /\ p \in Nat /\ s \in Nat /\ q \in Nat /\ v \in Nat
         /\ p + s <= disp /\ s - v \in {0, 1}
         /\ q - p \in IF Exact(page, disp) THEN {0} ELSE {0, 1}
<1>1. PICK r : IsRounded(r, l, page)
  BY DEF IsRounded
<1>2. /\ f \in Nat /\ l \in Nat /\ q \in Nat /\ v \in Nat /\ r \in Nat
      /\ q + r <= disp /\ r - v \in {0, 1}
      /\ f > 0 /\ IsMultiple(f, page) => q >= 1
      /\ IsHalfWay(l, page) => r = v + 1
  BY <1>1, ScaledPart
<1>3. /\ lowFrom \in BOOLEAN /\ lowLength \in BOOLEAN
      /\ Exact(page, disp) => lowFrom = FALSE
  BY DEF Low
<1>4. p = q - IF lowFrom /\ f > 0 /\ IsMultiple(f, page) THEN 1 ELSE 0
  BY DEF Cut, IsQuotient, IsMultiple
<1>5. s = r - IF lowLength /\ IsHalfWay(l, page) THEN 1 ELSE 0
  BY <1>1 DEF Round, IsRounded, IsHalfWay
<1>6. p = q \/ (p = q - 1 /\ q >= 1 /\ ~Exact(page, disp))
  BY <1>2, <1>3, <1>4
<1>7. s = r \/ (s = r - 1 /\ r = v + 1)
  BY <1>2, <1>3, <1>5
<1> QED BY <1>2, <1>6, <1>7

\* Every step keeps what is painted inside.
LEMMA InvNext == Inv /\ [NextScaling]_svars => Inv'
<1>1. SUFFICES ASSUME Inv, [NextScaling]_svars PROVE Inv'
  OBVIOUS
<1>2. CASE UNCHANGED svars
  BY <1>1, <1>2 DEF svars, Inv, PaintedInside, VideoFitsHole, Exact
<1>3. CASE NextScaling
  <2>0. PICK l \in Lengths : \E from \in 0..(l[1] - 1) : \E length \in 1..(l[1] - from) :
                            PlaceVideo(from, length, l[1], l[2])
    BY <1>3 DEF NextScaling
  <2>1. PICK from \in 0..(l[1] - 1) :
          \E length \in 1..(l[1] - from) : PlaceVideo(from, length, l[1], l[2])
    BY <2>0
  <2>2. PICK length \in 1..(l[1] - from) : PlaceVideo(from, length, l[1], l[2])
    BY <2>1
  <2>3. PICK page \in Nat \ {0}, disp \in Nat \ {0} : page = l[1] /\ disp = l[2]
    BY LengthsAssumption
  <2>4. from \in Nat /\ length \in Nat /\ from + length <= page
    BY <2>3
  <2>5. PICK lowFrom \in Low(page, disp), lowLength \in Low(page, disp) :
          painted' = ScaleAndPaint(from, length, page, disp, lowFrom, lowLength)
    BY <2>2, <2>3 DEF PlaceVideo
  <2>f. PICK f, l0 : IsProduct(f, from, disp) /\ IsProduct(l0, length, disp)
    BY DEF IsProduct
  <2>6. PICK q, v : IsQuotient(q, f, page) /\ IsQuotient(v, l0, page)
    BY DEF IsQuotient
  <2>7. /\ rendered' = page /\ display' = disp
        /\ video' = [from |-> q, length |-> v]
    BY <2>2, <2>3, <2>f, <2>6 DEF PlaceVideo, CalcVideoPosition, IsProduct, IsQuotient
  <2>8. Exact(rendered, display)' <=> Exact(page, disp)
    BY <2>7 DEF Exact
  <2>9. CASE page = disp
    <3>1. q = from /\ v = length
      BY <2>4, <2>f, <2>6, <2>9, SameSize DEF IsProduct, IsQuotient
    <3>2. painted' = [from |-> from, length |-> length]
      BY <2>5, <2>9 DEF ScaleAndPaint
    <3> QED BY <2>3, <2>4, <2>7, <2>9, <3>1, <3>2 DEF Inv, PaintedInside, VideoFitsHole
  <2>10. CASE page # disp
    <3>1. PICK p, s : p = Cut(f, page, lowFrom) /\ s = Round(l0, page, lowLength)
      OBVIOUS
    <3>2. painted' = [from |-> p, length |-> s]
      BY <2>5, <2>10, <2>f, <3>1 DEF ScaleAndPaint, IsProduct
    <3>3. /\ p \in Nat /\ s \in Nat /\ q \in Nat /\ v \in Nat
          /\ p + s <= disp /\ s - v \in {0, 1}
          /\ q - p \in IF Exact(page, disp) THEN {0} ELSE {0, 1}
      BY <2>4, <2>f, <2>6, <3>1, OffBy
    <3> QED BY <2>7, <2>8, <3>2, <3>3 DEF Inv, PaintedInside, VideoFitsHole
  <2> QED BY <2>9, <2>10
<1> QED BY <1>1, <1>2, <1>3

\* What scaleAndPaint draws stays on a display of any size, for a page of any
\* size.
THEOREM PaintingStaysInside == SpecScaling => []PaintedInside
<1>1. Inv => PaintedInside
  BY DEF Inv
<1> QED BY InvInit, InvNext, <1>1, PTL DEF SpecScaling

\* calcVideoPosition puts the video into the hole that scaleAndPaint leaves for
\* it, whatever the sizes: never left of it, and no more than a column right of
\* it, on a display whose size is no binary fraction of the page's.
THEOREM VideoFits == SpecScaling => []VideoFitsHole
<1>1. Inv => VideoFitsHole
  BY DEF Inv
<1> QED BY InvInit, InvNext, <1>1, PTL DEF SpecScaling
-----------------------------------------------------------------------------
(***************************************************************************)
(* qoi_decode gives back what qoi_encode was given.                        *)
(***************************************************************************)

Bytes == 0..255
Rgba  == Bytes \X Bytes \X Bytes \X Bytes
Table == [0..63 -> Rgba]

\* The tables have 64 entries.
LEMMA HashType == ASSUME NEW p \in Rgba PROVE Hash(p) \in 0..63
<1>1. p[1] \in Nat /\ p[2] \in Nat /\ p[3] \in Nat /\ p[4] \in Nat
  BY DEF Rgba, Bytes
<1>2. p[1] * 3 + p[2] * 5 + p[3] * 7 + p[4] * 11 \in Nat
  BY <1>1
<1>3. ASSUME NEW n \in Nat PROVE n % 64 \in 0..63
  OBVIOUS
<1> QED BY <1>2, <1>3 DEF Hash

\* The decoder also enters the pixel of a run into its table, which the encoder
\* does not: they differ by the pixel that both start with, until one with the
\* same hash comes.
Alike(table, dtable) ==
  \A h \in 0..63 : \/ dtable[h] = table[h]
                   \/ h = Hash(First) /\ table[h] = Zero /\ dtable[h] = First

\* The encoder's last pixel is in its table, unless it is the initial one.
Entered(p, table) ==
  table[Hash(p)] = p \/ (p = First /\ table[Hash(p)] = Zero)

\* What Chunk calls vr, vg, vb and vg_r, vg_b.
Difference(p, last, i) == Signed(p[i] - last[i])
Luma(p, last, i) == Signed(Difference(p, last, i) - Difference(p, last, 2))

\* A pixel has four bytes.
LEMMA Channels ==
  ASSUME NEW p \in Rgba
  PROVE  /\ p = <<p[1], p[2], p[3], p[4]>>
         /\ p[1] \in Bytes /\ p[2] \in Bytes /\ p[3] \in Bytes
         /\ p[1] \in Int /\ p[2] \in Int /\ p[3] \in Int
  BY DEF Rgba, Bytes

\* Signed is the difference of two bytes again, up to the byte's wrap.
LEMMA SignedWraps ==
  ASSUME NEW a \in Bytes, NEW b \in Bytes
  PROVE  Signed(a - b) \in (-128)..127 /\ Byte(b + Signed(a - b)) = a
  BY DEF Signed, Byte, Bytes

\* LUMA writes the differences of red and blue to that of green.
LEMMA LumaWraps ==
  ASSUME NEW a \in Bytes, NEW b \in Bytes, NEW vg \in (-128)..127
  PROVE  Byte(b + vg + Signed(Signed(a - b) - vg)) = a
  BY DEF Signed, Byte, Bytes

\* Where the initial pixels would lie in the tables.
LEMMA HashOfStart == Hash(First) = 53 /\ Hash(Zero) = 0
  BY DEF Hash, First, Zero

\* What DIFF and LUMA pack into a byte.
LEMMA DiffBits ==
  ASSUME NEW i \in 0..3, NEW j \in 0..3, NEW k \in 0..3,
         NEW b, b = 64 + 16 * i + 4 * j + k
  PROVE  b \div 64 = 1 /\ (b \div 16) % 4 = i /\ (b \div 4) % 4 = j /\ b % 4 = k
<1>1. b \in Nat
  OBVIOUS
<1>2. b \div 64 = 1 /\ b % 4 = k
  OBVIOUS
<1>3. b \div 16 = 4 + i
  OBVIOUS
<1>4. b \div 4 = 16 + 4 * i + j
  OBVIOUS
<1>5. (4 + i) % 4 = i /\ (16 + 4 * i + j) % 4 = j
  OBVIOUS
<1> QED BY <1>2, <1>3, <1>4, <1>5

\* The bits of a QOI_OP_LUMA chunk, green.
LEMMA LumaGreenBits ==
  ASSUME NEW i \in 0..63
  PROVE  (128 + i) \div 64 = 2 /\ (128 + i) % 64 = i
  OBVIOUS

\* The bits of a QOI_OP_LUMA chunk, red and blue.
LEMMA LumaOthersBits ==
  ASSUME NEW j \in 0..15, NEW k \in 0..15
  PROVE  (16 * j + k) \div 16 = j /\ (16 * j + k) % 16 = k
  OBVIOUS

\* An index chunk decodes to its index.
LEMMA IndexDecodes ==
  ASSUME NEW p \in Rgba, NEW last \in Rgba, NEW table \in Table, NEW dtable \in Table,
         Alike(table, dtable), table[Hash(p)] = p
  PROVE  Decoded(<<Hash(p)>>, last, dtable) = p
<1>1. Hash(p) \in 0..63
  BY HashType
<1>2. dtable[Hash(p)] = p
  BY <1>1, HashOfStart DEF Alike
<1>3. Hash(p) \div 64 = 0 /\ Hash(p) # 254 /\ Hash(p) # 255
  BY <1>1
<1> QED BY <1>2, <1>3 DEF Decoded

\* A difference chunk decodes to its pixel, across the wrap of a byte.
LEMMA DiffDecodes ==
  ASSUME NEW p \in Rgba, NEW last \in Rgba, NEW dtable \in Table, p[4] = last[4],
         Difference(p, last, 1) \in (-2)..1, Difference(p, last, 2) \in (-2)..1,
         Difference(p, last, 3) \in (-2)..1
  PROVE  Decoded(<<64 + 16 * (Difference(p, last, 1) + 2)
                      + 4 * (Difference(p, last, 2) + 2)
                      + (Difference(p, last, 3) + 2)>>, last, dtable) = p
<1> DEFINE vr == Difference(p, last, 1)
           vg == Difference(p, last, 2)
           vb == Difference(p, last, 3)
           b  == 64 + 16 * (vr + 2) + 4 * (vg + 2) + (vb + 2)
<1>1. vr \in (-2)..1 /\ vg \in (-2)..1 /\ vb \in (-2)..1
  OBVIOUS
<1>2. /\ Byte(last[1] + vr) = p[1]
      /\ Byte(last[2] + vg) = p[2]
      /\ Byte(last[3] + vb) = p[3]
  BY Channels, SignedWraps DEF Difference
<1> HIDE DEF vr, vg, vb
<1>3. /\ b \in 64..127 /\ b \div 64 = 1
      /\ (b \div 16) % 4 = vr + 2 /\ (b \div 4) % 4 = vg + 2 /\ b % 4 = vb + 2
  <2> DEFINE i == vr + 2
             j == vg + 2
             k == vb + 2
  <2>1. i \in 0..3 /\ j \in 0..3 /\ k \in 0..3
    BY <1>1
  <2>2. b = 64 + 16 * i + 4 * j + k
    OBVIOUS
  <2> HIDE DEF b, i, j, k
  <2>3. b \div 64 = 1 /\ (b \div 16) % 4 = i /\ (b \div 4) % 4 = j /\ b % 4 = k
    BY <2>1, <2>2, DiffBits
  <2>4. b \in 64..127
    BY <2>1, <2>2
  <2> QED BY <2>3, <2>4 DEF i, j, k
<1> HIDE DEF b
<1>4. b # 254 /\ b # 255
  BY <1>3
<1>5. /\ last[1] + ((b \div 16) % 4) - 2 = last[1] + vr
      /\ last[2] + ((b \div 4) % 4) - 2 = last[2] + vg
      /\ last[3] + (b % 4) - 2 = last[3] + vb
  BY <1>1, <1>3, Channels
<1>6. Decoded(<<b>>, last, dtable) =
        <<Byte(last[1] + ((b \div 16) % 4) - 2), Byte(last[2] + ((b \div 4) % 4) - 2),
          Byte(last[3] + (b % 4) - 2), last[4]>>
  BY <1>3, <1>4 DEF Decoded
<1>7. p = <<p[1], p[2], p[3], p[4]>>
  BY Channels
<1> QED BY <1>2, <1>5, <1>6, <1>7 DEF b, vr, vg, vb

\* A luma chunk decodes to its pixel.
LEMMA LumaDecodes ==
  ASSUME NEW p \in Rgba, NEW last \in Rgba, NEW dtable \in Table, p[4] = last[4],
         Difference(p, last, 2) \in (-32)..31,
         Luma(p, last, 1) \in (-8)..7, Luma(p, last, 3) \in (-8)..7
  PROVE  Decoded(<<128 + Difference(p, last, 2) + 32,
                   16 * (Luma(p, last, 1) + 8) + (Luma(p, last, 3) + 8)>>,
                 last, dtable) = p
<1> DEFINE vg  == Difference(p, last, 2)
           vgr == Luma(p, last, 1)
           vgb == Luma(p, last, 3)
           b   == 128 + vg + 32
           c   == 16 * (vgr + 8) + (vgb + 8)
<1>1. vg \in (-32)..31 /\ vgr \in (-8)..7 /\ vgb \in (-8)..7
  OBVIOUS
<1>2. /\ Byte(last[1] + vg + vgr) = p[1]
      /\ Byte(last[2] + vg) = p[2]
      /\ Byte(last[3] + vg + vgb) = p[3]
  <2>1. Byte(last[2] + vg) = p[2]
    BY Channels, SignedWraps DEF Difference
  <2> HIDE DEF vg
  <2>2. vg \in (-128)..127
    BY <1>1
  <2>3. vgr = Signed(Signed(p[1] - last[1]) - vg) /\ vgb = Signed(Signed(p[3] - last[3]) - vg)
    BY DEF Luma, Difference, vg
  <2> HIDE DEF vgr, vgb
  <2>4. Byte(last[1] + vg + vgr) = p[1] /\ Byte(last[3] + vg + vgb) = p[3]
    BY <2>2, <2>3, Channels, LumaWraps
  <2> QED BY <2>1, <2>4
<1> HIDE DEF vg, vgr, vgb
<1>3. /\ b \in 128..191 /\ b \div 64 = 2 /\ b % 64 = vg + 32
      /\ c \div 16 = vgr + 8 /\ c % 16 = vgb + 8
  <2> DEFINE i == vg + 32
             j == vgr + 8
             k == vgb + 8
  <2>1. i \in 0..63 /\ j \in 0..15 /\ k \in 0..15
    BY <1>1
  <2>2. b = 128 + i /\ c = 16 * j + k
    BY <1>1
  <2> HIDE DEF b, c, i, j, k
  <2>3. b \div 64 = 2 /\ b % 64 = i
    BY <2>1, <2>2, LumaGreenBits
  <2>4. c \div 16 = j /\ c % 16 = k
    BY <2>1, <2>2, LumaOthersBits
  <2>5. b \in 128..191
    BY <2>1, <2>2
  <2> QED BY <2>3, <2>4, <2>5 DEF i, j, k
<1> HIDE DEF b, c
<1>4. b # 254 /\ b # 255
  BY <1>3
<1> DEFINE w == (b % 64) - 32
<1>5. /\ w = vg
      /\ last[1] + w - 8 + (c \div 16) = last[1] + vg + vgr
      /\ last[3] + w - 8 + (c % 16) = last[3] + vg + vgb
  <2>1. w = vg
    BY <1>1, <1>3
  <2> HIDE DEF w
  <2> QED BY <1>1, <1>3, <2>1, Channels
<1>6. Decoded(<<b, c>>, last, dtable) =
        <<Byte(last[1] + w - 8 + (c \div 16)), Byte(last[2] + w),
          Byte(last[3] + w - 8 + (c % 16)), last[4]>>
  BY <1>3, <1>4 DEF Decoded
<1>7. p = <<p[1], p[2], p[3], p[4]>>
  BY Channels
<1> HIDE DEF w
<1> QED BY <1>2, <1>5, <1>6, <1>7 DEF b, c, vg, vgr, vgb

\* Whatever chunk the encoder chose for a pixel, the decoder makes that pixel.
LEMMA ChunkDecodes ==
  ASSUME NEW p \in Rgba, NEW last \in Rgba, NEW table \in Table, NEW dtable \in Table,
         Alike(table, dtable)
  PROVE  Decoded(Chunk(p, last, table), last, dtable) = p
<1> DEFINE vr   == Difference(p, last, 1)
           vg   == Difference(p, last, 2)
           vb   == Difference(p, last, 3)
           vg_r == Luma(p, last, 1)
           vg_b == Luma(p, last, 3)
           small == vr \in (-2)..1 /\ vg \in (-2)..1 /\ vb \in (-2)..1
           luma  == vg_r \in (-8)..7 /\ vg \in (-32)..31 /\ vg_b \in (-8)..7
<1>1. Chunk(p, last, table) =
        IF table[Hash(p)] = p THEN <<Hash(p)>>
        ELSE IF p[4] # last[4] THEN <<255, p[1], p[2], p[3], p[4]>>
        ELSE IF small THEN <<64 + 16 * (vr + 2) + 4 * (vg + 2) + (vb + 2)>>
        ELSE IF luma THEN <<128 + vg + 32, 16 * (vg_r + 8) + (vg_b + 8)>>
        ELSE <<254, p[1], p[2], p[3]>>
  BY DEF Chunk, Difference, Luma
<1>2. p = <<p[1], p[2], p[3], p[4]>>
  BY Channels
<1>3. CASE table[Hash(p)] = p
  BY <1>1, <1>3, IndexDecodes
<1>4. CASE table[Hash(p)] # p /\ p[4] # last[4]
  BY <1>1, <1>2, <1>4 DEF Decoded
<1>5. CASE table[Hash(p)] # p /\ p[4] = last[4] /\ small
  <2>1. Chunk(p, last, table) = <<64 + 16 * (vr + 2) + 4 * (vg + 2) + (vb + 2)>>
    BY <1>1, <1>5
  <2> QED BY <1>5, <2>1, DiffDecodes
<1>6. CASE table[Hash(p)] # p /\ p[4] = last[4] /\ ~small /\ luma
  <2>1. Chunk(p, last, table) = <<128 + vg + 32, 16 * (vg_r + 8) + (vg_b + 8)>>
    BY <1>1, <1>6
  <2> QED BY <1>6, <2>1, LumaDecodes
<1>7. CASE table[Hash(p)] # p /\ p[4] = last[4] /\ ~small /\ ~luma
  <2>1. Chunk(p, last, table) = <<254, p[1], p[2], p[3]>>
    BY <1>1, <1>7
  <2> QED BY <1>2, <1>7, <2>1 DEF Decoded
<1> QED BY <1>3, <1>4, <1>5, <1>6, <1>7

\* No other chunk is taken for a run.
LEMMA ChunkIsNoRun ==
  ASSUME NEW p \in Rgba, NEW last \in Rgba, NEW table \in Table
  PROVE  Chunk(p, last, table)[1] \notin 192..253
<1> DEFINE vr   == Difference(p, last, 1)
           vg   == Difference(p, last, 2)
           vb   == Difference(p, last, 3)
           vg_r == Luma(p, last, 1)
           vg_b == Luma(p, last, 3)
           small == vr \in (-2)..1 /\ vg \in (-2)..1 /\ vb \in (-2)..1
           luma  == vg_r \in (-8)..7 /\ vg \in (-32)..31 /\ vg_b \in (-8)..7
<1>1. Chunk(p, last, table)[1] =
        IF table[Hash(p)] = p THEN Hash(p)
        ELSE IF p[4] # last[4] THEN 255
        ELSE IF small THEN 64 + 16 * (vr + 2) + 4 * (vg + 2) + (vb + 2)
        ELSE IF luma THEN 128 + vg + 32
        ELSE 254
  BY DEF Chunk, Difference, Luma
<1>2. Hash(p) \notin 192..253
  BY HashType
<1> HIDE DEF vr, vg, vb, vg_r, vg_b
<1>3. small => 64 + 16 * (vr + 2) + 4 * (vg + 2) + (vb + 2) \notin 192..253
  OBVIOUS
<1>4. luma => 128 + vg + 32 \notin 192..253
  OBVIOUS
<1> QED BY <1>1, <1>2, <1>3, <1>4

-----------------------------------------------------------------------------
(* The invariant follows the chunks of one round of the encoder's loop      *)
(* through the decoder's: none are left, a run, a run and a chunk, a chunk. *)

Types ==
  /\ prev \in Rgba /\ index \in Table /\ run \in 0..61
  /\ px \in Rgba /\ dindex \in Table /\ lag \in Nat /\ ended \in BOOLEAN

CaughtUp == /\ chunks = <<>> /\ lag = run /\ (ended => run = 0)
            /\ px = prev /\ Alike(index, dindex)

RunToCome(n) == /\ chunks = <<Run(n)>> /\ run = 0 /\ lag = n
                /\ px = prev /\ Alike(index, dindex)

\* The tables are alike but for the entry of the chunk's pixel.
Before(table) == /\ run = 0
                 /\ Alike(table, dindex) /\ Entered(px, table)
                 /\ index = [table EXCEPT ![Hash(prev)] = prev]

BothToCome(n, table) == /\ chunks = <<Run(n), Chunk(prev, px, table)>>
                        /\ lag = n + 1 /\ Before(table)

ChunkToCome(table) == /\ chunks = <<Chunk(prev, px, table)>>
                      /\ lag = 1 /\ Before(table)

QoiInv == /\ Types /\ Entered(prev, index)
          /\ \/ CaughtUp
             \/ \E n \in 1..62 : RunToCome(n)
             \/ \E n \in 1..61, table \in Table : BothToCome(n, table)
             \/ \E table \in Table : ChunkToCome(table)

\* The pixels coders begin with are pixels.
LEMMA StartsInRgba == First \in Rgba /\ Zero \in Rgba /\ Pixel \subseteq Rgba
  BY PixelAssumption DEF First, Zero, Rgba, Bytes

\* The coders begin in step.
LEMMA QoiInvInit == InitQoi => QoiInv
<1>1. SUFFICES ASSUME InitQoi PROVE QoiInv
  OBVIOUS
<1>2. Types
  <2>1. [i \in 0..63 |-> Zero] \in Table
    BY StartsInRgba DEF Table
  <2>2. ended \in BOOLEAN
    BY <1>1 DEF InitQoi
  <2>3. prev \in Rgba /\ index \in Table /\ px \in Rgba /\ dindex \in Table
    <3> HIDE DEF Zero, First
    <3> QED BY <1>1, <2>1, StartsInRgba DEF InitQoi
  <2>4. run \in 0..61 /\ lag \in Nat
    BY <1>1 DEF InitQoi
  <2> QED BY <2>2, <2>3, <2>4 DEF Types
<1>3. Entered(prev, index)
  BY <1>1, HashOfStart DEF InitQoi, Entered
<1>4. CaughtUp
  BY <1>1 DEF InitQoi, CaughtUp, Alike
<1> QED BY <1>2, <1>3, <1>4 DEF QoiInv

\* A run is one chunk of its own length, and repeats the pixel.
LEMMA RunDecodes ==
  ASSUME NEW n \in 1..62, NEW last \in Rgba, NEW table \in Table
  PROVE  /\ Run(n)[1] \in 192..253 /\ (Run(n)[1] % 64) + 1 = n
         /\ Decoded(Run(n), last, table) = last
<1>1. Run(n)[1] = 191 + n
  BY DEF Run
<1>2. 191 + n \in 192..253 /\ (191 + n) % 64 = n - 1 /\ (191 + n) \div 64 = 3
  OBVIOUS
<1>3. Run(n)[1] \in 192..253 /\ (Run(n)[1] % 64) + 1 = n /\ Run(n)[1] \div 64 = 3
  BY <1>1, <1>2
<1>4. Decoded(Run(n), last, table) = last
  BY <1>3 DEF Decoded
<1> QED BY <1>3, <1>4

\* Once the decoder has entered a pixel that the encoder's table holds (or holds
\* not yet, if it is the initial one), the tables are alike still.
LEMMA EnterAgain ==
  ASSUME NEW p \in Rgba, NEW table \in Table, NEW dtable \in Table,
         Alike(table, dtable), Entered(p, table)
  PROVE  Alike(table, [dtable EXCEPT ![Hash(p)] = p])
  BY HashType DEF Alike, Entered, Table

\* Both enter the pixel of a chunk.
LEMMA EnterBoth ==
  ASSUME NEW p \in Rgba, NEW table \in Table, NEW dtable \in Table,
         Alike(table, dtable)
  PROVE  Alike([table EXCEPT ![Hash(p)] = p], [dtable EXCEPT ![Hash(p)] = p])
  BY HashType DEF Alike, Table

\* What a table holds after an update.
LEMMA Updated ==
  ASSUME NEW p \in Rgba, NEW table \in Table
  PROVE  /\ [table EXCEPT ![Hash(p)] = p] \in Table
         /\ Entered(p, [table EXCEPT ![Hash(p)] = p])
  BY HashType DEF Table, Entered

\* Two chunks in a row.
LEMMA TwoChunks == ASSUME NEW a, NEW b PROVE <<a>> \o <<b>> = <<a, b>>
<1> DEFINE s == <<a>> \o <<b>>
           t == <<a, b>>
<1>1. <<a>> \in Seq({a, b}) /\ <<b>> \in Seq({a, b}) /\ t \in Seq({a, b})
  OBVIOUS
<1>2. s \in Seq({a, b}) /\ Len(s) = 2 /\ s[1] = a /\ s[2] = b
  BY <1>1, ConcatProperties
<1>3. Len(t) = 2 /\ t[1] = a /\ t[2] = b
  OBVIOUS
<1> HIDE DEF s, t
<1>4. \A i \in 1..Len(s) : s[i] = t[i]
  BY <1>2, <1>3
<1>5. s = t
  BY <1>1, <1>2, <1>3, <1>4, SeqEqual
<1> QED BY <1>5 DEF s, t

\* The encoder keeps in step.
LEMMA EncodeKeeps ==
  ASSUME QoiInv, NEW p \in Pixel, NEW last \in BOOLEAN, Encode(p, last)
  PROVE  QoiInv'
<1>1. p \in Rgba
  BY StartsInRgba
<1>2. CaughtUp
  BY DEF QoiInv, Encode, RunToCome, BothToCome, ChunkToCome
<1>3. Types /\ Entered(prev, index)
  BY DEF QoiInv
<1>4. prev' = p /\ lag' = lag + 1 /\ ended' = last /\ px' = px /\ dindex' = dindex
  BY DEF Encode, decoder
<1>5. CASE p = prev /\ (run + 1 = 62 \/ last)
  <2>1. chunks' = <<Run(run + 1)>> /\ run' = 0 /\ index' = index
    BY <1>5 DEF Encode
  <2>2. Types' /\ Entered(prev, index)'
    BY <1>1, <1>3, <1>4, <1>5, <2>1 DEF Types, Entered
  <2>3. PICK n \in 1..62 : n = run + 1
    BY <1>3 DEF Types
  <2>4. RunToCome(n)'
    BY <1>2, <1>4, <1>5, <2>1, <2>3 DEF CaughtUp, RunToCome, Alike
  <2> QED BY <2>2, <2>4 DEF QoiInv
<1>6. CASE p = prev /\ ~(run + 1 = 62 \/ last)
  <2>1. chunks' = chunks /\ run' = run + 1 /\ index' = index
    BY <1>6 DEF Encode
  <2>2. Types' /\ Entered(prev, index)'
    BY <1>1, <1>3, <1>4, <1>6, <2>1 DEF Types, Entered
  <2>3. CaughtUp'
    BY <1>2, <1>3, <1>4, <1>6, <2>1 DEF Types, CaughtUp, Alike
  <2> QED BY <2>2, <2>3 DEF QoiInv
<1>7. CASE p # prev
  <2>1. /\ chunks' = (IF run > 0 THEN <<Run(run)>> ELSE <<>>) \o <<Chunk(p, prev, index)>>
        /\ run' = 0 /\ index' = [index EXCEPT ![Hash(p)] = p]
    BY <1>7 DEF Encode
  <2>2. index \in Table /\ prev \in Rgba
    BY <1>3 DEF Types
  <2>3. index' \in Table /\ Entered(p, index')
    BY <1>1, <2>1, <2>2, Updated
  <2>4. Types' /\ Entered(prev, index)'
    BY <1>1, <1>3, <1>4, <2>1, <2>3 DEF Types, Entered
  <2>5. PICK table \in Table : table = index
    BY <2>2
  <2>6. Before(table)'
    BY <1>2, <1>3, <1>4, <2>1, <2>5 DEF Before, CaughtUp, Alike, Entered
  <2>7. CASE run = 0
    <3>1. chunks' = <<Chunk(p, prev, index)>>
      BY <2>1, <2>7
    <3>2. ChunkToCome(table)'
      BY <1>2, <1>4, <2>5, <2>6, <2>7, <3>1 DEF ChunkToCome, CaughtUp
    <3> QED BY <2>4, <3>2 DEF QoiInv
  <2>8. CASE run > 0
    <3>1. chunks' = <<Run(run), Chunk(p, prev, index)>>
      <4>1. chunks' = <<Run(run)>> \o <<Chunk(p, prev, index)>>
        BY <2>1, <2>8
      <4> QED BY <4>1, TwoChunks
    <3>2. PICK n \in 1..61 : n = run
      BY <1>3, <2>8 DEF Types
    <3>3. BothToCome(n, table)'
      BY <1>2, <1>4, <2>5, <2>6, <3>1, <3>2 DEF BothToCome, CaughtUp
    <3> QED BY <2>4, <3>3 DEF QoiInv
  <2> QED BY <1>3, <2>7, <2>8 DEF Types
<1> QED BY <1>5, <1>6, <1>7

\* A run decoded: nothing changes but that its pixel is entered again.
LEMMA DecodeRun ==
  ASSUME Types, Decode, NEW n \in 1..62, Head(chunks) = Run(n), NEW k \in Nat, lag = n + k
  PROVE  /\ px' = px /\ dindex' = [dindex EXCEPT ![Hash(px)] = px] /\ lag' = k
         /\ Types'
<1>1. Decoded(Run(n), px, dindex) = px
  BY RunDecodes DEF Types
<1>2. px' = px /\ dindex' = [dindex EXCEPT ![Hash(px)] = px]
  BY <1>1 DEF Decode
<1>3. lag' = lag - (IF Run(n)[1] \in 192..253 THEN (Run(n)[1] % 64) + 1 ELSE 1)
  BY DEF Decode
<1>4. lag' = k
  <2>1. Run(n)[1] \in 192..253 /\ (Run(n)[1] % 64) + 1 = n
    BY RunDecodes DEF Types
  <2>2. lag' = lag - n
    BY <1>3, <2>1
  <2> QED BY <2>2
<1>5. dindex' \in Table
  BY <1>2, Updated DEF Types
<1> QED BY <1>2, <1>4, <1>5 DEF Types, Decode, encoder

\* The decoder keeps in step.
LEMMA DecodeKeeps ==
  ASSUME QoiInv, Decode
  PROVE  QoiInv'
<1>1. Types /\ Entered(prev, index)
  BY DEF QoiInv
<1>2. prev' = prev /\ index' = index /\ run' = run /\ ended' = ended
  BY DEF Decode, encoder
<1>3. chunks # <<>> /\ chunks' = Tail(chunks)
  BY DEF Decode
<1>4. Entered(prev, index)'
  BY <1>1, <1>2 DEF Entered
<1>5. CASE CaughtUp
  BY <1>3, <1>5 DEF CaughtUp
<1>6. ASSUME NEW n \in 1..62, RunToCome(n) PROVE QoiInv'
  <2>1. Head(chunks) = Run(n) /\ chunks' = <<>> /\ lag = n + 0
    BY <1>3, <1>6 DEF RunToCome
  <2>2. px' = px /\ dindex' = [dindex EXCEPT ![Hash(px)] = px] /\ lag' = 0 /\ Types'
    BY <1>1, <2>1, DecodeRun
  <2>3. Alike(index, dindex')
    BY <1>1, <1>6, <2>2, EnterAgain DEF RunToCome, Types
  <2>4. CaughtUp'
    BY <1>2, <1>6, <2>1, <2>2, <2>3 DEF CaughtUp, RunToCome, Alike
  <2> QED BY <1>4, <2>2, <2>4 DEF QoiInv
<1>7. ASSUME NEW n \in 1..61, NEW table \in Table, BothToCome(n, table) PROVE QoiInv'
  <2>1. /\ Head(chunks) = Run(n) /\ chunks' = <<Chunk(prev, px, table)>>
        /\ lag = n + 1
    BY <1>3, <1>7 DEF BothToCome
  <2>2. px' = px /\ dindex' = [dindex EXCEPT ![Hash(px)] = px] /\ lag' = 1 /\ Types'
    <3>1. n \in 1..62
      OBVIOUS
    <3> QED BY <1>1, <2>1, <3>1, DecodeRun
  <2>3. Alike(table, dindex')
    BY <1>1, <1>7, <2>2, EnterAgain DEF BothToCome, Before, Types
  <2>4. ChunkToCome(table)'
    BY <1>2, <1>7, <2>1, <2>2, <2>3 DEF ChunkToCome, BothToCome, Before, Alike, Entered
  <2> QED BY <1>4, <2>2, <2>4 DEF QoiInv
<1>8. ASSUME NEW table \in Table, ChunkToCome(table) PROVE QoiInv'
  <2>1. Head(chunks) = Chunk(prev, px, table) /\ chunks' = <<>> /\ lag = 1
    BY <1>3, <1>8 DEF ChunkToCome
  <2>2. px' = prev
    BY <1>1, <1>8, <2>1, ChunkDecodes DEF Decode, Types, ChunkToCome, Before
  <2>3. dindex' = [dindex EXCEPT ![Hash(prev)] = prev]
    BY <2>2 DEF Decode
  <2>4. lag' = lag - (IF Chunk(prev, px, table)[1] \in 192..253
                      THEN (Chunk(prev, px, table)[1] % 64) + 1 ELSE 1)
    BY <2>1 DEF Decode
  <2>5. lag' = 0
    BY <1>1, <2>1, <2>4, ChunkIsNoRun DEF Types
  <2>6. Types'
    BY <1>1, <1>2, <2>2, <2>3, <2>5, Updated DEF Types
  <2>7. Alike(index, dindex')
    BY <1>1, <1>8, <2>3, EnterBoth DEF ChunkToCome, Before, Types
  <2>8. CaughtUp'
    BY <1>2, <1>8, <2>1, <2>2, <2>5, <2>7 DEF CaughtUp, ChunkToCome, Before, Alike
  <2> QED BY <1>4, <2>6, <2>8 DEF QoiInv
<1> QED BY <1>5, <1>6, <1>7, <1>8 DEF QoiInv

\* For every set of pixels: no sequence of them makes the decoder lose its step
\* with the encoder, although the two fill their tables differently.
THEOREM PictureSurvives == SpecQoi => []RoundTrip
<1>1. QoiInv /\ [NextQoi]_qvars => QoiInv'
  <2>1. SUFFICES ASSUME QoiInv, [NextQoi]_qvars PROVE QoiInv'
    OBVIOUS
  <2>2. CASE UNCHANGED qvars
    BY <2>1, <2>2 DEF qvars, encoder, decoder, QoiInv, Types, CaughtUp, RunToCome,
                      BothToCome, ChunkToCome, Before, Entered, Alike
  <2>3. ASSUME NEW p \in Pixel, NEW last \in BOOLEAN, Encode(p, last) PROVE QoiInv'
    BY <2>1, <2>3, EncodeKeeps
  <2>4. CASE Decode
    BY <2>1, <2>4, DecodeKeeps
  <2> QED BY <2>1, <2>2, <2>3, <2>4 DEF NextQoi
<1>2. QoiInv => RoundTrip
  BY DEF QoiInv, CaughtUp, RunToCome, BothToCome, ChunkToCome, RoundTrip
<1> QED BY QoiInvInit, <1>1, <1>2, PTL DEF SpecQoi
=============================================================================
