------------------------------ MODULE TsPackets ------------------------------
(***************************************************************************)
(* VideoPlayer::PlayPacket (videocontrol.cpp): the transcoder's stream     *)
(* comes in chunks of any length, the device wants whole TS packets.  What *)
(* a chunk leaves over is saved in a static buffer and completed by the    *)
(* next one.  The browser's requests (pause, resume, seek) clear that      *)
(* buffer from another thread while PlayPacket runs; the build loads       *)
(* bufsize once for the test and the copy, and again after PlayTs.         *)
(*                                                                         *)
(* A byte is its position in the stream.  The player stays the same here;  *)
(* how it comes and goes is WebSession's subject.                          *)
(***************************************************************************)
EXTENDS Integers, Sequences

CONSTANTS
  PacketSize,  \* 188
  MaxRetries,  \* 10
  Chunks,      \* the lengths of the transcoder's chunks
  MaxBytes     \* bound: how much of the stream is sent

ASSUME SizeAssumption  == PacketSize \in Nat \ {0}
ASSUME RetryAssumption == MaxRetries \in Nat
\* "at least one tspacket", says PlayPacket of a chunk that is not empty.
ASSUME ChunkAssumption == Chunks \subseteq {0} \cup {n \in Nat : n >= PacketSize}
ASSUME BoundAssumption == MaxBytes \in Nat

VARIABLES
  bufsize, buf,   \* the saved partial packet
  pause,
  pc,             \* where PlayPacket is
  at, left,       \* buffer and len: the rest of the chunk
  retries,        \* retry_loop_count
  sent,           \* history: how far the transcoder has got
  delivered,      \* history: the packets the device accepted
  cut,            \* history: how the last reset since a chunk began met PlayPacket
  calm,           \* history: nothing was paused, reset or refused so far
  disturbed,      \* history: the packets may be torn
  since           \* history: how many were delivered when they last began anew

chunk == <<at, left, retries>>
vars  == <<bufsize, buf, pause, pc, chunk, sent, delivered, cut, calm,
           disturbed, since>>

Init ==
  /\ bufsize = 0 /\ buf = [i \in 1..PacketSize |-> 0] /\ pause = FALSE
  /\ pc = "idle" /\ at = 0 /\ left = 0 /\ retries = 0
  /\ sent = 0 /\ delivered = <<>>
  /\ cut = "none" /\ calm = TRUE /\ disturbed = FALSE /\ since = 0

-----------------------------------------------------------------------------
\* The packets in n bytes from position a on.
Packets(a, n) == [k \in 1..(n \div PacketSize) |->
                    [i \in 1..PacketSize |-> a + (k-1) * PacketSize + i - 1]]

\* Where a new stream begins: after a seek the transcoder starts another one.
Anew == ((sent + PacketSize - 1) \div PacketSize) * PacketSize

\* A chunk arrives.  A paused player drops it; an empty one does nothing.
\* After a reset the stream goes on or begins anew.
PlayPacket(n) ==
  /\ pc = "idle"
  /\ \E a \in IF cut = "none" THEN {sent} ELSE {sent, Anew} :
       /\ a + n <= MaxBytes
       /\ sent' = a + n
       /\ at' = a
       /\ IF cut = "clean" /\ a = Anew
          THEN /\ disturbed' = FALSE
               /\ since' = IF disturbed THEN Len(delivered) ELSE since
          ELSE /\ disturbed' = (disturbed \/ cut # "none")
               /\ UNCHANGED since
  /\ cut' = "none"
  /\ left' = n
  /\ retries' = 0
  /\ pc' = IF pause \/ n = 0 THEN "idle" ELSE "join"
  /\ calm' = (calm /\ ~pause)
  /\ UNCHANGED <<bufsize, buf, pause, delivered>>

\* Complete the saved packet and play it; what PlayTs answers is not looked at.
PlaySaved ==
  /\ pc = "join" /\ bufsize > 0
  /\ buf' = [i \in 1..PacketSize |->
               IF i <= bufsize THEN buf[i] ELSE at + i - bufsize - 1]
  /\ \/ delivered' = Append(delivered, buf') /\ UNCHANGED calm
     \/ UNCHANGED delivered /\ calm' = FALSE
  /\ pc' = "advance"
  /\ UNCHANGED <<bufsize, pause, chunk, sent, cut, disturbed, since>>

\* Mutant: the saved packet stays saved.
AdvanceKeeps ==
  /\ pc = "advance"
  /\ at' = at + PacketSize - bufsize
  /\ left' = left - (PacketSize - bufsize)
  /\ pc' = "save"
  /\ UNCHANGED <<bufsize, buf, pause, retries, sent, delivered, cut, calm,
                 disturbed, since>>

\* bufsize is read again here: a reset during PlayTs has made it 0.
Advance ==
  /\ pc = "advance"
  /\ at' = at + PacketSize - bufsize
  /\ left' = left - (PacketSize - bufsize)
  /\ bufsize' = 0
  /\ pc' = "save"
  /\ UNCHANGED <<buf, pause, retries, sent, delivered, cut, calm, disturbed, since>>

NothingSaved ==
  /\ pc = "join" /\ bufsize = 0
  /\ pc' = "save"
  /\ UNCHANGED <<bufsize, buf, pause, chunk, sent, delivered, cut, calm,
                 disturbed, since>>

\* Copy rest bytes from a position into buf and take them off the chunk.
SaveBytes(rest, from, size) ==
  /\ pc = "save"
  /\ buf' = [i \in 1..PacketSize |-> IF i <= rest THEN from + i - 1 ELSE buf[i]]
  /\ bufsize' = IF rest > 0 THEN size ELSE bufsize
  /\ left' = left - rest
  /\ pc' = "play"
  /\ UNCHANGED <<pause, at, retries, sent, delivered, cut, calm, disturbed, since>>

\* Mutants: the whole chunk counts as saved, the size is forgotten, the rest is
\* played as well.
SaveAll    == SaveBytes(left % PacketSize, at, left)
SaveForgot == SaveBytes(left % PacketSize, at + left - (left % PacketSize), 0)
SavePlayed == SaveBytes((left % PacketSize) - PacketSize,
                        at + left - (left % PacketSize), left % PacketSize)

\* Save what is left over behind the last whole packet.
Save == LET rest == left % PacketSize
        IN  SaveBytes(rest, at + left - rest, rest)

\* The device accepts some packets: PlayTs returns their bytes.
Accepted ==
  /\ pc = "play" /\ left >= PacketSize
  /\ \E k \in 1..(left \div PacketSize) :
       /\ delivered' = delivered \o Packets(at, k * PacketSize)
       /\ at' = at + k * PacketSize
       /\ left' = left - k * PacketSize
  /\ UNCHANGED <<bufsize, buf, pause, pc, retries, sent, cut, calm, disturbed, since>>

\* Mutant: the count starts over instead of giving up.
RefusedAgain ==
  /\ pc = "play" /\ left >= PacketSize
  /\ retries' = IF retries < MaxRetries THEN retries + 1 ELSE 0
  /\ calm' = FALSE
  /\ UNCHANGED <<bufsize, buf, pause, pc, at, left, sent, delivered, cut,
                 disturbed, since>>

\* It accepts none: try again later, but not for ever.
Refused ==
  /\ pc = "play" /\ left >= PacketSize
  /\ IF retries < MaxRetries
     THEN retries' = retries + 1 /\ UNCHANGED pc
     ELSE pc' = "idle" /\ UNCHANGED retries
  /\ calm' = FALSE
  /\ UNCHANGED <<bufsize, buf, pause, at, left, sent, delivered, cut,
                 disturbed, since>>

\* PlayTs fails.
PlayError ==
  /\ pc = "play" /\ left >= PacketSize
  /\ pc' = "idle"
  /\ calm' = FALSE
  /\ UNCHANGED <<bufsize, buf, pause, chunk, sent, delivered, cut, disturbed, since>>

Played ==
  /\ pc = "play" /\ left < PacketSize
  /\ pc' = "idle"
  /\ UNCHANGED <<bufsize, buf, pause, chunk, sent, delivered, cut, calm,
                 disturbed, since>>

Handler == PlaySaved \/ Advance \/ NothingSaved \/ Save
             \/ Accepted \/ Refused \/ PlayError \/ Played
-----------------------------------------------------------------------------
\* The browser's thread.
Pause ==
  /\ pause' = TRUE
  /\ UNCHANGED <<bufsize, buf, pc, chunk, sent, delivered, cut, calm,
                 disturbed, since>>

\* A reset before PlayPacket has saved the rest of its chunk comes too late to
\* clear that rest, and may shift where it takes the packets of the chunk.
TooLate == pc \in {"join", "advance", "save"}

\* Mutant: the saved packet stays saved.
ResetKeeps ==
  /\ cut' = IF TooLate THEN "late" ELSE "clean"
  /\ calm' = FALSE
  /\ disturbed' = (disturbed \/ TooLate)
  /\ UNCHANGED <<bufsize, buf, pc, chunk, sent, delivered, since>>

Reset ==
  /\ bufsize' = 0
  /\ cut' = IF TooLate THEN "late" ELSE "clean"
  /\ calm' = FALSE
  /\ disturbed' = (disturbed \/ TooLate)
  /\ UNCHANGED <<buf, pc, chunk, sent, delivered, since>>

\* Seeked and ResetVideo.
ResetVideo == Reset /\ UNCHANGED pause
Resume     == Reset /\ pause' = FALSE

Next == (\E n \in Chunks : PlayPacket(n)) \/ Handler
          \/ Pause \/ ResetVideo \/ Resume

Spec     == Init /\ [][Next]_vars
\* The transcoder's thread keeps running.
FairSpec == Spec /\ WF_vars(Handler)
-----------------------------------------------------------------------------
\* The variables keep to their types.
TypeOK ==
  /\ bufsize \in 0..(PacketSize - 1)
  /\ buf \in [1..PacketSize -> 0..MaxBytes]
  /\ {pause, calm, disturbed} \subseteq BOOLEAN
  /\ cut \in {"none", "clean", "late"}
  /\ pc \in {"idle", "join", "advance", "save", "play"}
  /\ at \in 0..MaxBytes /\ sent \in 0..MaxBytes /\ left \in Nat
  /\ retries \in 0..MaxRetries

\* PlayPacket never copies beyond the saved packet or the chunk, although a
\* reset may clear bufsize between any two of its steps: what it takes for the
\* rest of the chunk always lies in the chunk, and the chunk always has the
\* bytes that the saved packet lacks.
CopiesInBounds ==
  /\ left >= 0 /\ at + left <= sent
  /\ pc = "join" /\ bufsize > 0 => left >= PacketSize - bufsize

\* No byte reaches the device twice or out of order, whatever is paused,
\* refused, repeated or reset meanwhile.
Ordered(p) == \A i, j \in 1..PacketSize : i < j => p[i] < p[j]
DeliveredInOrder ==
  /\ \A n \in DOMAIN delivered : Ordered(delivered[n])
  /\ \A m, n \in DOMAIN delivered :
       m < n => delivered[m][PacketSize] < delivered[n][1]

\* The device gets whole packets of the stream, however it is cut into chunks
\* and wherever a reset meets PlayPacket's loop.  They may be torn (disturbed)
\* only from a reset that the stream goes on after, or from one that comes
\* before PlayPacket has saved the rest of its chunk (videocontrol.cpp:63
\* against 102-120: the stale rest is joined with the new stream), until the
\* stream begins anew after a later reset that comes in time.
DeliveredWhole ==
  ~disturbed => \A n \in DOMAIN delivered : n > since =>
    /\ delivered[n][1] % PacketSize = 0
    /\ \A i \in 1..PacketSize : delivered[n][i] = delivered[n][1] + i - 1

\* Nothing is lost between chunks: unless something was paused, reset or
\* refused, the device has every packet of the stream when PlayPacket returns,
\* and the rest of the stream is saved.
DeliveredAll ==
  calm /\ pc = "idle" =>
    /\ delivered = Packets(0, sent)
    /\ bufsize = sent % PacketSize

\* PlayPacket returns, even when the device accepts nothing: it does not block
\* the transcoder's request for ever.
PlayPacketReturns == pc # "idle" ~> pc = "idle"
=============================================================================
