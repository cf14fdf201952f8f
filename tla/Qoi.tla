-------------------------------- MODULE Qoi --------------------------------
(***************************************************************************)
(* The picture's encoding (qoi.h): the browser's qoi_encode, pixel by      *)
(* pixel, and the plugin's qoi_decode, chunk by chunk.  Decoding right     *)
(* behind the encoder instead of after it changes nothing, since the two   *)
(* share only the bytes.  A pixel is <<r, g, b, a>>, each a byte.          *)
(***************************************************************************)
EXTENDS Integers, Sequences

CONSTANT Pixel   \* the pixels of a picture

ASSUME PixelAssumption == Pixel \subseteq (0..255) \X (0..255) \X (0..255) \X (0..255)

VARIABLES
  prev, index, run,   \* the encoder's: px_prev, index, run
  chunks,             \* written and not read yet
  px, dindex,         \* the decoder's: px, index
  lag,                \* pixels encoded and not decoded yet
  ended               \* the last pixel has been encoded

encoder == <<prev, index, run>>
decoder == <<px, dindex>>
qvars   == <<encoder, chunks, decoder, lag, ended>>

Zero  == <<0, 0, 0, 0>>
First == <<0, 0, 0, 255>>

InitQoi == /\ prev = First /\ index = [i \in 0..63 |-> Zero] /\ run = 0
           /\ chunks = <<>>
           /\ px = First /\ dindex = [i \in 0..63 |-> Zero]
           /\ lag = 0 /\ ended = FALSE

-----------------------------------------------------------------------------
\* QOI_COLOR_HASH
Hash(p) == (p[1] * 3 + p[2] * 5 + p[3] * 7 + p[4] * 11) % 64

\* What a signed char and an unsigned char make of a number.
Signed(n) == ((n + 128) % 256) - 128
Byte(n)   == n % 256

\* QOI_OP_RUN of n pixels
Run(n) == <<192 + n - 1>>

\* Mutant: the alpha is not looked at.
ChunkNoAlpha(p, last, table) ==
  LET vr == Signed(p[1] - last[1])
      vg == Signed(p[2] - last[2])
      vb == Signed(p[3] - last[3])
  IN IF table[Hash(p)] = p THEN <<Hash(p)>>
     ELSE IF vr \in (-2)..1 /\ vg \in (-2)..1 /\ vb \in (-2)..1
     THEN <<64 + 16 * (vr + 2) + 4 * (vg + 2) + (vb + 2)>>
     ELSE <<254, p[1], p[2], p[3]>>

\* The chunk of a pixel that differs from the last one: QOI_OP_INDEX, RGBA,
\* DIFF, LUMA or RGB.
Chunk(p, last, table) ==
  LET vr   == Signed(p[1] - last[1])
      vg   == Signed(p[2] - last[2])
      vb   == Signed(p[3] - last[3])
      vg_r == Signed(vr - vg)
      vg_b == Signed(vb - vg)
  IN IF table[Hash(p)] = p THEN <<Hash(p)>>
     ELSE IF p[4] # last[4] THEN <<255, p[1], p[2], p[3], p[4]>>
     ELSE IF vr \in (-2)..1 /\ vg \in (-2)..1 /\ vb \in (-2)..1
     THEN <<64 + 16 * (vr + 2) + 4 * (vg + 2) + (vb + 2)>>
     ELSE IF vg_r \in (-8)..7 /\ vg \in (-32)..31 /\ vg_b \in (-8)..7
     THEN <<128 + vg + 32, 16 * (vg_r + 8) + (vg_b + 8)>>
     ELSE <<254, p[1], p[2], p[3]>>

\* The pixel after chunk b; a run repeats the one before.
Decoded(b, last, table) ==
  IF b[1] = 254 THEN <<b[2], b[3], b[4], last[4]>>
  ELSE IF b[1] = 255 THEN <<b[2], b[3], b[4], b[5]>>
  ELSE CASE b[1] \div 64 = 0 -> table[b[1]]
         [] b[1] \div 64 = 1 ->
              <<Byte(last[1] + ((b[1] \div 16) % 4) - 2),
                Byte(last[2] + ((b[1] \div 4) % 4) - 2),
                Byte(last[3] + (b[1] % 4) - 2), last[4]>>
         [] b[1] \div 64 = 2 ->
              LET vg == (b[1] % 64) - 32
              IN <<Byte(last[1] + vg - 8 + (b[2] \div 16)), Byte(last[2] + vg),
                   Byte(last[3] + vg - 8 + (b[2] % 16)), last[4]>>
         [] b[1] \div 64 = 3 -> last

-----------------------------------------------------------------------------
\* One round of qoi_encode's loop: pixel p, the picture's last one if last.
Encode(p, last) ==
  /\ chunks = <<>> /\ ~ended
  /\ IF p = prev
     THEN IF run + 1 = 62 \/ last
          THEN chunks' = <<Run(run + 1)>> /\ run' = 0 /\ UNCHANGED index
          ELSE run' = run + 1 /\ UNCHANGED <<chunks, index>>
     ELSE /\ chunks' = (IF run > 0 THEN <<Run(run)>> ELSE <<>>)
                         \o <<Chunk(p, prev, index)>>
          /\ run' = 0
          /\ index' = [index EXCEPT ![Hash(p)] = p]
  /\ prev' = p /\ lag' = lag + 1 /\ ended' = last
  /\ UNCHANGED decoder

\* qoi_decode from one chunk to the next: one pixel, or those of a run.
Decode ==
  /\ chunks # <<>>
  /\ LET b == Head(chunks) IN
     /\ px' = Decoded(b, px, dindex)
     /\ dindex' = [dindex EXCEPT ![Hash(px')] = px']
     /\ lag' = lag - (IF b[1] \in 192..253 THEN (b[1] % 64) + 1 ELSE 1)
  /\ chunks' = Tail(chunks)
  /\ UNCHANGED <<encoder, ended>>

NextQoi == (\E p \in Pixel, last \in BOOLEAN : Encode(p, last)) \/ Decode

SpecQoi == InitQoi /\ [][NextQoi]_qvars
-----------------------------------------------------------------------------
\* Whenever the decoder has caught up it has made the very pixels that were
\* encoded but for the run that is not written yet, and all at the end: the
\* two index tables, which differ, never lead to another pixel.
RoundTrip == chunks = <<>> => px = prev /\ lag = run /\ (ended => run = 0)
=============================================================================
