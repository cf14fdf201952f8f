--------------------------- MODULE TsPacketsProofs ---------------------------
(***************************************************************************)
(* Theorems about TsPackets, for any packet size, chunk lengths and number *)
(* of retries: no copy leaves its buffer, no byte reaches the device twice *)
(* or out of order, whenever the saved packet is cleared, and what reaches *)
(* it are whole packets, all of them if nothing disturbs.                  *)
(***************************************************************************)
EXTENDS TsPackets, SequenceTheorems, TLAPS

\* Until the saved packet is dealt with the chunk has a whole packet: Advance
\* may take all of it although fewer bytes were copied.
ChunkWhole == pc \in {"join", "advance"} => left >= PacketSize

IInv == TypeOK /\ CopiesInBounds /\ ChunkWhole

\* How a reset may meet PlayPacket.
Cuts == {"none", "clean", "late"}

-----------------------------------------------------------------------------
\* What the rest of a division by the packet size is.
LEMMA RestBound ==
  ASSUME NEW n \in Nat
  PROVE  n % PacketSize \in 0..(PacketSize - 1) /\ n % PacketSize <= n
<1>1. PacketSize \in Nat /\ PacketSize > 0
  BY SizeAssumption
<1>2. n % PacketSize \in 0..(PacketSize - 1)
  BY <1>1
<1>3. n \div PacketSize \in Nat /\ n = PacketSize * (n \div PacketSize) + (n % PacketSize)
  BY <1>1
<1>4. PacketSize * (n \div PacketSize) >= 0
  BY <1>1, <1>3
<1> QED
  BY <1>1, <1>2, <1>3, <1>4

\* Whole packets that fit in n bytes have no more than n bytes.
LEMMA PacketsFit ==
  ASSUME NEW n \in Nat, NEW k \in 1..(n \div PacketSize)
  PROVE  k * PacketSize \in Nat /\ k * PacketSize <= n
<1>1. PacketSize \in Nat /\ PacketSize > 0
  BY SizeAssumption
<1>2. /\ n \div PacketSize \in Nat /\ n % PacketSize \in Nat
      /\ n = PacketSize * (n \div PacketSize) + (n % PacketSize)
  BY <1>1
<1>3. PICK d \in Nat : n \div PacketSize = k + d
  <2>1. (n \div PacketSize) - k \in Nat
    BY <1>2
  <2> QED
    BY <1>2, <2>1
<1>4. PacketSize * (k + d) = k * PacketSize + PacketSize * d /\ PacketSize * d \in Nat
      /\ k * PacketSize \in Nat
  BY <1>1
<1> QED
  BY <1>2, <1>3, <1>4

\* A new stream begins at a byte.
LEMMA AnewType == ASSUME sent \in Nat PROVE Anew \in Nat
<1>1. PacketSize \in Nat /\ PacketSize > 0 /\ sent + PacketSize - 1 \in Nat
  BY SizeAssumption
<1>2. (sent + PacketSize - 1) \div PacketSize \in Nat
  BY <1>1
<1> QED
  BY <1>1, <1>2 DEF Anew

\* The invariant holds initially.
LEMMA InitIInv == Init => IInv
<1> SUFFICES ASSUME Init PROVE IInv
  OBVIOUS
<1>1. PacketSize \in Nat /\ PacketSize > 0 /\ MaxRetries \in Nat /\ MaxBytes \in Nat
  BY SizeAssumption, RetryAssumption, BoundAssumption
<1>2. buf \in [1..PacketSize -> 0..MaxBytes]
  BY <1>1 DEF Init
<1>3. {pause, calm, disturbed} \subseteq BOOLEAN /\ cut \in Cuts
  BY DEF Init, Cuts
<1>4. TypeOK
  BY <1>1, <1>2, <1>3 DEF Init, TypeOK
<1> QED
  BY <1>4 DEF Init, IInv, CopiesInBounds, ChunkWhole

-----------------------------------------------------------------------------
\* A chunk arrives.
LEMMA ChunkStep == ASSUME IInv, NEW n \in Chunks, PlayPacket(n) PROVE IInv'
<1> USE DEF IInv
<1>1. PacketSize \in Nat /\ PacketSize > 0 /\ n \in Nat /\ (n = 0 \/ n >= PacketSize)
  BY SizeAssumption, ChunkAssumption
<1>2. PICK a \in {sent, Anew} : /\ a + n <= MaxBytes
                                /\ sent' = a + n /\ at' = a
                                /\ disturbed' \in BOOLEAN
  BY DEF PlayPacket, TypeOK
<1>3. a \in Nat /\ MaxBytes \in Nat
  BY AnewType, BoundAssumption DEF TypeOK
<1>4. /\ cut' = "none" /\ left' = n /\ retries' = 0
      /\ pc' = (IF pause \/ n = 0 THEN "idle" ELSE "join")
      /\ calm' = (calm /\ ~pause)
      /\ UNCHANGED <<bufsize, buf, pause, delivered>>
  BY DEF PlayPacket
<1>5. at' \in 0..MaxBytes /\ sent' \in 0..MaxBytes /\ left' \in Nat
  BY <1>1, <1>2, <1>3, <1>4
<1>6. {pause', calm', disturbed'} \subseteq BOOLEAN /\ cut' \in Cuts
  BY <1>2, <1>4 DEF TypeOK, Cuts
<1>7. TypeOK'
  BY <1>4, <1>5, <1>6, RetryAssumption DEF TypeOK, Cuts
<1>8. CopiesInBounds' /\ ChunkWhole'
  BY <1>1, <1>2, <1>3, <1>4 DEF TypeOK, CopiesInBounds, ChunkWhole
<1> QED
  BY <1>7, <1>8

\* The steps of PlayPacket.
LEMMA HandlerStep == ASSUME IInv, Handler PROVE IInv'
<1> USE DEF IInv
<1>0. /\ PacketSize \in Nat /\ PacketSize > 0 /\ MaxBytes \in Nat /\ MaxRetries \in Nat
      /\ bufsize \in 0..(PacketSize - 1) /\ left \in Nat
      /\ at \in 0..MaxBytes /\ sent \in 0..MaxBytes /\ at + left <= sent
      /\ buf \in [1..PacketSize -> 0..MaxBytes]
  BY SizeAssumption, BoundAssumption, RetryAssumption DEF TypeOK, CopiesInBounds
<1>1. CASE PlaySaved
  <2>1. /\ left >= PacketSize /\ pc' = "advance"
        /\ buf' = [i \in 1..PacketSize |->
                     IF i <= bufsize THEN buf[i] ELSE at + i - bufsize - 1]
        /\ UNCHANGED <<bufsize, pause, at, left, retries, sent, cut, disturbed, since>>
        /\ calm' = calm \/ calm' = FALSE
    BY <1>1 DEF PlaySaved, chunk, ChunkWhole
  <2>2. ASSUME NEW i \in 1..PacketSize, ~(i <= bufsize)
        PROVE  at + i - bufsize - 1 \in 0..MaxBytes
    BY <1>0, <2>1, <2>2
  <2>3. buf' \in [1..PacketSize -> 0..MaxBytes]
    BY <1>0, <2>1, <2>2
  <2> QED
    BY <1>0, <2>1, <2>3 DEF TypeOK, CopiesInBounds, ChunkWhole
<1>2. CASE Advance
  <2>1. /\ left >= PacketSize /\ pc' = "save" /\ bufsize' = 0
        /\ at' = at + PacketSize - bufsize
        /\ left' = left - (PacketSize - bufsize)
        /\ UNCHANGED <<buf, pause, retries, sent, cut, calm, disturbed, since>>
    BY <1>2 DEF Advance, ChunkWhole
  <2>2. at' \in 0..MaxBytes /\ left' \in Nat /\ at' + left' <= sent'
    BY <1>0, <2>1
  <2> QED
    BY <1>0, <2>1, <2>2 DEF TypeOK, CopiesInBounds, ChunkWhole
<1>3. CASE NothingSaved
  BY <1>0, <1>3 DEF NothingSaved, chunk, TypeOK, CopiesInBounds, ChunkWhole
<1>4. CASE Save
  <2> DEFINE rest == left % PacketSize
  <2>1. rest \in 0..(PacketSize - 1) /\ rest <= left
    BY <1>0, RestBound
  <2>2. /\ pc' = "play"
        /\ buf' = [i \in 1..PacketSize |->
                     IF i <= rest THEN at + left - rest + i - 1 ELSE buf[i]]
        /\ bufsize' = (IF rest > 0 THEN rest ELSE bufsize)
        /\ left' = left - rest
        /\ UNCHANGED <<pause, at, retries, sent, cut, calm, disturbed, since>>
    BY <1>4 DEF Save, SaveBytes
  <2> HIDE DEF rest
  <2>3. ASSUME NEW i \in 1..PacketSize, i <= rest
        PROVE  at + left - rest + i - 1 \in 0..MaxBytes
    BY <1>0, <2>1, <2>3
  <2>4. buf' \in [1..PacketSize -> 0..MaxBytes]
    BY <1>0, <2>2, <2>3
  <2>5. left' \in Nat /\ at' + left' <= sent' /\ bufsize' \in 0..(PacketSize - 1)
    BY <1>0, <2>1, <2>2
  <2>6. TypeOK'
    <3>1. {pause', calm', disturbed'} \subseteq BOOLEAN /\ cut' \in Cuts
      BY <2>2 DEF TypeOK, Cuts
    <3> QED
      BY <1>0, <2>2, <2>4, <2>5, <3>1 DEF TypeOK, Cuts
  <2>7. CopiesInBounds' /\ ChunkWhole'
    BY <2>2, <2>5 DEF CopiesInBounds, ChunkWhole
  <2> QED
    BY <2>6, <2>7
<1>5. CASE Accepted
  <2>1. PICK k \in 1..(left \div PacketSize) :
          at' = at + k * PacketSize /\ left' = left - k * PacketSize
    BY <1>5 DEF Accepted
  <2>2. k * PacketSize \in Nat /\ k * PacketSize <= left
    BY <1>0, PacketsFit
  <2>3. at' \in 0..MaxBytes /\ left' \in Nat /\ at' + left' <= sent
    BY <1>0, <2>1, <2>2
  <2>4. pc = "play" /\ UNCHANGED <<bufsize, buf, pause, pc, retries, sent, cut,
                                   calm, disturbed, since>>
    BY <1>5 DEF Accepted
  <2>5. TypeOK'
    <3>1. {pause', calm', disturbed'} \subseteq BOOLEAN /\ cut' \in Cuts
      BY <2>4 DEF TypeOK, Cuts
    <3> QED
      BY <1>0, <2>3, <2>4, <3>1 DEF TypeOK, Cuts
  <2>6. CopiesInBounds' /\ ChunkWhole'
    BY <2>3, <2>4 DEF CopiesInBounds, ChunkWhole
  <2> QED
    BY <2>5, <2>6
<1>6. CASE Refused \/ PlayError \/ Played
  <2>1. /\ pc' \in {"play", "idle"} /\ calm' \in {calm, FALSE}
        /\ retries' \in 0..MaxRetries
        /\ UNCHANGED <<bufsize, buf, pause, at, left, sent, cut, disturbed, since>>
    <3>1. retries \in 0..MaxRetries
      BY DEF TypeOK
    <3>2. CASE Refused
      <4>1. CASE retries < MaxRetries
        <5>1. /\ pc' = pc /\ pc = "play" /\ calm' = FALSE /\ retries' = retries + 1
              /\ UNCHANGED <<bufsize, buf, pause, at, left, sent, cut, disturbed, since>>
          BY <3>2, <4>1 DEF Refused
        <5>2. retries' \in 0..MaxRetries
          BY <1>0, <3>1, <4>1, <5>1
        <5> QED
          BY <5>1, <5>2
      <4>2. CASE ~(retries < MaxRetries)
        <5>1. /\ pc' = "idle" /\ calm' = FALSE
              /\ UNCHANGED <<retries, bufsize, buf, pause, at, left, sent, cut,
                             disturbed, since>>
          BY <3>2, <4>2 DEF Refused
        <5> QED
          BY <3>1, <5>1
      <4> QED
        BY <4>1, <4>2
    <3>3. CASE PlayError
      BY <3>1, <3>3 DEF PlayError, chunk
    <3>4. CASE Played
      BY <3>1, <3>4 DEF Played, chunk
    <3> QED
      BY <1>6, <3>2, <3>3, <3>4
  <2>2. TypeOK'
    <3>1. {pause', calm', disturbed'} \subseteq BOOLEAN /\ cut' \in Cuts
      BY <2>1 DEF TypeOK, Cuts
    <3> QED
      BY <1>0, <2>1, <3>1 DEF TypeOK, Cuts
  <2>3. CopiesInBounds' /\ ChunkWhole'
    BY <1>0, <2>1 DEF CopiesInBounds, ChunkWhole
  <2> QED
    BY <2>2, <2>3
<1> QED
  BY <1>1, <1>2, <1>3, <1>4, <1>5, <1>6 DEF Handler

\* The browser's requests.
LEMMA RequestStep == ASSUME IInv, Pause \/ ResetVideo \/ Resume PROVE IInv'
<1> USE DEF IInv
<1>1. /\ bufsize' \in {bufsize, 0}
      /\ pause' \in {pause, TRUE, FALSE} /\ cut' \in Cuts
      /\ calm' \in {calm, FALSE} /\ disturbed' \in {disturbed, TRUE, FALSE}
      /\ UNCHANGED <<buf, pc, at, left, retries, sent>>
  BY DEF Pause, ResetVideo, Resume, Reset, chunk, TypeOK, Cuts
<1>2. {pause', calm', disturbed'} \subseteq BOOLEAN /\ cut' \in Cuts
  BY <1>1 DEF TypeOK, Cuts
<1>3. bufsize' \in 0..(PacketSize - 1)
  BY <1>1, SizeAssumption DEF TypeOK
<1>4. CopiesInBounds' /\ ChunkWhole'
  <2>1. PacketSize \in Nat /\ left \in Nat /\ at \in Nat /\ sent \in Nat
    BY SizeAssumption DEF TypeOK
  <2>2. /\ left' >= 0 /\ at' + left' <= sent' /\ ChunkWhole'
        /\ bufsize' = bufsize \/ bufsize' = 0
    BY <1>1, <2>1 DEF CopiesInBounds, ChunkWhole
  <2>3. pc' = "join" /\ bufsize' > 0 => left' >= PacketSize - bufsize'
    <3>1. CASE bufsize' = 0
      BY <3>1
    <3>2. CASE bufsize' = bufsize
      BY <1>1, <3>2 DEF CopiesInBounds
    <3> QED
      BY <2>2, <3>1, <3>2
  <2> QED
    BY <2>2, <2>3 DEF CopiesInBounds
<1> QED
  BY <1>1, <1>2, <1>3, <1>4 DEF TypeOK, Cuts

\* No step breaks the invariant.
LEMMA StepIInv == IInv /\ [Next]_vars => IInv'
<1> SUFFICES ASSUME IInv, [Next]_vars PROVE IInv'
  OBVIOUS
<1>1. CASE UNCHANGED vars
  BY <1>1 DEF vars, chunk, IInv, TypeOK, CopiesInBounds, ChunkWhole
<1>2. CASE Next
  BY <1>2, ChunkStep, HandlerStep, RequestStep DEF Next
<1> QED
  BY <1>1, <1>2

\* The invariant the others follow from.
LEMMA PacketInvariant == Spec => []IInv
  BY InitIInv, StepIInv, PTL DEF Spec

\* The variables keep to their types: the saved packet is never a whole one.
THEOREM PacketTypeCorrect == Spec => []TypeOK
<1>1. IInv => TypeOK
  BY DEF IInv
<1> QED
  BY <1>1, PacketInvariant, PTL

\* No copy leaves the chunk or the saved packet.
THEOREM CopiesStayInBounds == Spec => []CopiesInBounds
<1>1. IInv => CopiesInBounds
  BY DEF IInv
<1> QED
  BY <1>1, PacketInvariant, PTL

-----------------------------------------------------------------------------
(***************************************************************************)
(* The order of what is delivered.                                         *)
(***************************************************************************)

Packet == [1..PacketSize -> Nat]
InOrder(d) == /\ \A n \in DOMAIN d : Ordered(d[n])
              /\ \A m, n \in DOMAIN d : m < n => d[m][PacketSize] < d[n][1]

\* Everything in d lies before position x.
Below(d, x) == \A n \in DOMAIN d : d[n][PacketSize] < x

\* A packet has a first and a last byte.
LEMMA Ends == PacketSize \in Nat /\ 1 \in 1..PacketSize /\ PacketSize \in 1..PacketSize
  BY SizeAssumption

\* What lies before a position lies before a later one.
LEMMA BelowMore ==
  ASSUME NEW d \in Seq(Packet), NEW x \in Int, NEW y \in Int, Below(d, x), x <= y
  PROVE  Below(d, y)
<1> SUFFICES ASSUME NEW n \in DOMAIN d PROVE d[n][PacketSize] < y
  BY DEF Below
<1>1. d[n][PacketSize] \in Nat /\ d[n][PacketSize] < x
  BY Ends DEF Below, Packet
<1> QED BY <1>1

\* Ordered packets and ordered packets behind them are ordered packets.
LEMMA ConcatInOrder ==
  ASSUME NEW d \in Seq(Packet), NEW e \in Seq(Packet), NEW a \in Int, NEW x \in Int,
         InOrder(d), InOrder(e), Below(d, a), a <= x, Below(e, x),
         \A n \in DOMAIN e : a <= e[n][1]
  PROVE  d \o e \in Seq(Packet) /\ InOrder(d \o e) /\ Below(d \o e, x)
<1> DEFINE f == d \o e
<1>1. /\ f \in Seq(Packet) /\ Len(f) = Len(d) + Len(e)
      /\ \A i \in 1..(Len(d) + Len(e)) : f[i] = IF i <= Len(d) THEN d[i] ELSE e[i - Len(d)]
  BY ConcatProperties
<1>2. /\ DOMAIN d = 1..Len(d) /\ DOMAIN e = 1..Len(e) /\ DOMAIN f = 1..Len(f)
      /\ Len(d) \in Nat /\ Len(e) \in Nat
  BY <1>1
<1>3. ASSUME NEW n \in DOMAIN f
      PROVE  \/ n \in DOMAIN d /\ f[n] = d[n]
             \/ n - Len(d) \in DOMAIN e /\ f[n] = e[n - Len(d)] /\ n > Len(d)
  BY <1>1, <1>2, <1>3
<1> HIDE DEF f
<1>4. \A n \in DOMAIN d : d[n] \in Packet /\ d[n][1] \in Int /\ d[n][PacketSize] \in Int
  BY <1>2, Ends DEF Packet
<1>5. \A n \in DOMAIN e : e[n] \in Packet /\ e[n][1] \in Int /\ e[n][PacketSize] \in Int
  BY <1>2, Ends DEF Packet
<1>6. ASSUME NEW n \in DOMAIN f PROVE Ordered(f[n])
  BY <1>3, <1>6 DEF InOrder
<1>7. ASSUME NEW n \in DOMAIN f PROVE f[n][PacketSize] < x
  BY <1>3, <1>4, <1>5, <1>7 DEF Below
<1>8. ASSUME NEW m \in DOMAIN f, NEW n \in DOMAIN f, m < n
      PROVE  f[m][PacketSize] < f[n][1]
  <2>1. m \in Int /\ n \in Int
    BY <1>1, <1>2 DEF f
  <2>2. CASE n \in DOMAIN d /\ f[n] = d[n]
    <3>1. m \in DOMAIN d /\ f[m] = d[m]
      BY <1>2, <1>3, <1>8, <2>1, <2>2
    <3> QED BY <1>8, <2>2, <3>1 DEF InOrder
  <2>3. CASE n - Len(d) \in DOMAIN e /\ f[n] = e[n - Len(d)] /\ n > Len(d)
    <3>1. CASE m \in DOMAIN d /\ f[m] = d[m]
      BY <1>4, <1>5, <2>3, <3>1 DEF Below
    <3>2. CASE m - Len(d) \in DOMAIN e /\ f[m] = e[m - Len(d)]
      <4>1. m - Len(d) < n - Len(d)
        BY <1>2, <1>8, <2>1
      <4> QED BY <2>3, <3>2, <4>1 DEF InOrder
    <3> QED BY <1>3, <3>1, <3>2
  <2> QED BY <1>3, <2>2, <2>3
<1> QED BY <1>1, <1>6, <1>7, <1>8 DEF InOrder, Below, f

\* So are ordered packets and one behind them.
LEMMA AppendInOrder ==
  ASSUME NEW d \in Seq(Packet), NEW p \in Packet, NEW x \in Int,
         InOrder(d), Ordered(p), Below(d, p[1]), p[PacketSize] < x
  PROVE  Append(d, p) \in Seq(Packet) /\ InOrder(Append(d, p)) /\ Below(Append(d, p), x)
<1>1. <<p>> \in Seq(Packet) /\ DOMAIN <<p>> = 1..1 /\ <<p>>[1] = p
  OBVIOUS
<1>2. Append(d, p) = d \o <<p>>
  BY AppendIsConcat
<1>3. p[1] \in Int /\ p[PacketSize] \in Int /\ p[1] <= p[PacketSize]
  BY Ends DEF Packet, Ordered
<1>4. InOrder(<<p>>) /\ Below(<<p>>, x) /\ \A n \in DOMAIN <<p>> : p[1] <= <<p>>[n][1]
  BY <1>1, <1>3 DEF InOrder, Below
<1>5. p[1] <= x
  BY <1>3
<1> QED BY <1>1, <1>2, <1>3, <1>4, <1>5, ConcatInOrder

\* A number less than another.
LEMMA DifferenceOf ==
  ASSUME NEW m \in Int, NEW n \in Int, m < n
  PROVE  \E d \in Nat : n = m + 1 + d
<1>1. n - m - 1 \in Nat /\ n = m + 1 + (n - m - 1)
  OBVIOUS
<1> QED BY <1>1

\* How packets lie in the stream.
LEMMA MultipleDivided ==
  ASSUME NEW b \in Nat, b > 0, NEW k \in Nat
  PROVE  (k * b) \div b = k
<1> DEFINE q == (k * b) \div b
<1>1. k * b \in Nat
  OBVIOUS
<1>2. q \in Nat /\ b * q <= k * b /\ k * b < b * q + b
  <2> DEFINE n == k * b
  <2>1. n \in Nat
    BY <1>1
  <2> HIDE DEF n
  <2>2. n \div b \in Nat /\ b * (n \div b) <= n /\ n < b * (n \div b) + b
    BY <2>1, Z3
  <2> QED BY <2>2 DEF n
<1> HIDE DEF q
<1>3. ASSUME q > k PROVE FALSE
  <2>1. PICK d \in Nat : q = k + 1 + d
    BY <1>2, <1>3, DifferenceOf
  <2>2. b * q = k * b + b + b * d /\ b * d >= 0
    BY <1>2, <2>1
  <2> QED BY <1>1, <1>2, <2>2
<1>4. ASSUME q < k PROVE FALSE
  <2>1. PICK d \in Nat : k = q + 1 + d
    BY <1>2, <1>4, DifferenceOf
  <2>2. k * b = b * q + b + b * d /\ b * d >= 0
    BY <1>2, <2>1
  <2> QED BY <1>1, <1>2, <2>2
<1> QED BY <1>2, <1>3, <1>4 DEF q

\* Where the packets of a chunk begin and end.
LEMMA StepsAhead ==
  ASSUME NEW b \in Nat, b > 0, NEW a \in Nat, NEW k \in Nat
  PROVE  /\ \A j \in 1..k : /\ a + (j - 1) * b \in Nat /\ a + (j - 1) * b >= a
                           /\ a + (j - 1) * b + b <= a + k * b
         /\ \A j, l \in 1..k : j < l => a + (j - 1) * b + b <= a + (l - 1) * b
<1>1. ASSUME NEW j \in 1..k, NEW l \in 1..(k + 1), j < l
      PROVE  a + (j - 1) * b + b <= a + (l - 1) * b
  <2>1. PICK d \in Nat : l = j + 1 + d
    BY <1>1, DifferenceOf
  <2>2. (l - 1) * b = (j - 1) * b + b + d * b /\ d * b >= 0
    BY <2>1
  <2>3. (l - 1) * b \in Int /\ (j - 1) * b \in Int /\ d * b \in Int
    BY <2>1
  <2> QED BY <2>2, <2>3
<1>2. ASSUME NEW j \in 1..k
      PROVE  a + (j - 1) * b \in Nat /\ a + (j - 1) * b >= a /\ a + (j - 1) * b + b <= a + k * b
  <2>1. PICK d \in Nat : d = j - 1
    OBVIOUS
  <2>2. d * b \in Nat
    OBVIOUS
  <2>3. k + 1 \in 1..(k + 1) /\ j < k + 1
    OBVIOUS
  <2>4. a + (j - 1) * b + b <= a + (k + 1 - 1) * b
    BY <1>1, <2>3
  <2>5. k + 1 - 1 = k
    OBVIOUS
  <2> QED BY <2>1, <2>2, <2>4, <2>5
<1> QED BY <1>1, <1>2

\* A function on 1..k with packets for values is a sequence of packets.
LEMMA IsSeqOfPackets ==
  ASSUME NEW k \in Nat, NEW e, DOMAIN e = 1..k, e = [j \in 1..k |-> e[j]],
         \A j \in 1..k : e[j] \in Packet
  PROVE  e \in Seq(Packet)
  OBVIOUS

\* Whole packets right out of the stream are in order.
LEMMA PacketsInOrder ==
  ASSUME NEW a \in Nat, NEW k \in Nat
  PROVE  LET e == Packets(a, k * PacketSize)
         IN /\ e \in Seq(Packet) /\ InOrder(e) /\ Below(e, a + k * PacketSize)
            /\ \A n \in DOMAIN e : a <= e[n][1]
<1> DEFINE e == Packets(a, k * PacketSize)
           start(j) == a + (j - 1) * PacketSize
<1>1. PacketSize \in Nat /\ PacketSize > 0
  BY SizeAssumption
<1>2. (k * PacketSize) \div PacketSize = k
  BY <1>1, MultipleDivided
<1>3. e = [j \in 1..k |-> [i \in 1..PacketSize |-> start(j) + i - 1]]
  BY <1>2 DEF Packets
<1>4. \A j \in 1..k : start(j) \in Nat /\ start(j) >= a /\ start(j) + PacketSize <= a + k * PacketSize
  BY <1>1, StepsAhead
<1>5. \A j, l \in 1..k : j < l => start(j) + PacketSize <= start(l)
  BY <1>1, StepsAhead
<1> HIDE DEF start
<1>6. ASSUME NEW j \in 1..k
      PROVE  e[j] \in Packet /\ Ordered(e[j]) /\ e[j][1] = start(j)
             /\ e[j][PacketSize] = start(j) + PacketSize - 1
  <2>1. e[j] = [i \in 1..PacketSize |-> start(j) + i - 1]
    BY <1>3
  <2>2. start(j) \in Nat
    BY <1>4
  <2> HIDE DEF e
  <2> QED BY <1>1, <2>1, <2>2, Ends DEF Packet, Ordered
<1>7. DOMAIN e = 1..k /\ e \in Seq(Packet)
  <2>1. DOMAIN e = 1..k
    BY <1>3
  <2> QED BY <1>3, <1>6, <2>1, IsSeqOfPackets
<1>8. a + k * PacketSize \in Int
  BY <1>1
<1> HIDE DEF e
<1>9. ASSUME NEW m \in 1..k
      PROVE  /\ e[m][PacketSize] < a + k * PacketSize /\ a <= e[m][1]
             /\ \A n \in 1..k : m < n => e[m][PacketSize] < e[n][1]
  <2>1. start(m) \in Nat /\ start(m) >= a /\ start(m) + PacketSize <= a + k * PacketSize
    BY <1>4
  <2>2. e[m][1] = start(m) /\ e[m][PacketSize] = start(m) + PacketSize - 1
    BY <1>6
  <2>3. ASSUME NEW n \in 1..k, m < n PROVE e[m][PacketSize] < e[n][1]
    <3>1. start(m) + PacketSize <= start(n) /\ start(n) \in Nat
      BY <1>4, <1>5, <2>3
    <3>2. e[n][1] = start(n)
      BY <1>6
    <3> QED BY <1>1, <2>1, <2>2, <3>1, <3>2
  <2> QED BY <1>1, <1>8, <2>1, <2>2, <2>3
<1>10. InOrder(e) /\ Below(e, a + k * PacketSize) /\ \A n \in DOMAIN e : a <= e[n][1]
  BY <1>6, <1>7, <1>9 DEF InOrder, Below
<1> QED BY <1>7, <1>10 DEF e

-----------------------------------------------------------------------------
\* The saved bytes, in order and before position x.
SavedInOrder == \A i, j \in 1..bufsize : i < j => buf[i] < buf[j]
SavedBelow(x) == \A i \in 1..bufsize : buf[i] < x
SavedComesNext == bufsize > 0 => Below(delivered, buf[1])

\* What is delivered lies before what is saved, and both before what is left
\* of the chunk, but for the bytes behind it that were saved at its end.
OInv ==
  /\ delivered \in Seq(Packet) /\ InOrder(delivered) /\ SavedInOrder
  /\ pc \in {"idle", "join", "play"} => SavedComesNext
  /\ pc = "idle" => Below(delivered, sent) /\ SavedBelow(sent)
  /\ pc = "join" => Below(delivered, at) /\ SavedBelow(at)
  /\ pc = "advance" => Below(delivered, at + PacketSize - bufsize)
  /\ pc = "save" => bufsize = 0 /\ Below(delivered, at)
  /\ pc = "play" => /\ Below(delivered, at)
                    /\ at + left + bufsize <= sent
                    /\ \A i \in 1..bufsize : buf[i] = at + left + i - 1

\* A new stream begins behind what was sent.
LEMMA AnewAhead == ASSUME sent \in Nat PROVE Anew >= sent
<1>1. PacketSize \in Nat /\ PacketSize > 0
  BY SizeAssumption
<1>2. PICK n \in Nat : n = sent + PacketSize - 1
  BY <1>1
<1>3. n \div PacketSize \in Nat /\ n < PacketSize * (n \div PacketSize) + PacketSize
  BY <1>1, Z3
<1>4. Anew = (n \div PacketSize) * PacketSize
  BY <1>2 DEF Anew
<1>5. PICK q \in Nat : q = n \div PacketSize
  BY <1>3
<1>6. PacketSize * q = q * PacketSize /\ q * PacketSize \in Nat
  BY <1>1
<1> QED
  BY <1>1, <1>2, <1>3, <1>4, <1>5, <1>6

\* What the steps below know of the variables' types.
LEMMA Types ==
  ASSUME IInv
  PROVE  /\ PacketSize \in Nat /\ PacketSize > 0
         /\ bufsize \in 0..(PacketSize - 1) /\ left \in Nat /\ at \in Nat
         /\ sent \in Nat /\ at + left <= sent
         /\ buf \in [1..PacketSize -> Nat]
<1>1. buf \in [1..PacketSize -> 0..MaxBytes] /\ 0..MaxBytes \subseteq Nat
  BY BoundAssumption DEF IInv, TypeOK
<1>2. buf \in [1..PacketSize -> Nat]
  BY <1>1
<1> QED
  BY <1>2, SizeAssumption, BoundAssumption DEF IInv, TypeOK, CopiesInBounds

\* Nothing is delivered or saved initially.
LEMMA InitOInv == ASSUME Init PROVE OInv
<1>1. bufsize = 0 /\ pc = "idle" /\ delivered = <<>> /\ 1..0 = {}
  BY DEF Init
<1>2. delivered \in Seq(Packet) /\ DOMAIN delivered = {}
  BY <1>1
<1> QED
  BY <1>1, <1>2 DEF OInv, InOrder, Below, SavedInOrder, SavedBelow, SavedComesNext

\* A chunk arrives.
LEMMA ChunkOrder ==
  ASSUME IInv, OInv, NEW n \in Chunks, PlayPacket(n)
  PROVE  OInv'
<1>1. /\ pc = "idle" /\ pc' \in {"idle", "join"}
      /\ UNCHANGED <<bufsize, buf, delivered>>
  BY DEF PlayPacket
<1>2. PICK a \in {sent, Anew} : sent' = a + n /\ at' = a
  BY DEF PlayPacket
<1>3. sent <= at' /\ sent <= sent' /\ at' \in Int /\ sent' \in Int
  BY <1>2, Types, AnewType, AnewAhead, ChunkAssumption
<1>4. Below(delivered, at') /\ Below(delivered, sent')
  BY <1>1, <1>3, Types, BelowMore DEF OInv
<1>5. ASSUME NEW i \in 1..bufsize PROVE buf[i] < at' /\ buf[i] < sent'
  <2>1. buf[i] < sent /\ buf[i] \in Nat
    BY <1>1, Types DEF OInv, SavedBelow
  <2> QED BY <1>3, <2>1, Types
<1> QED
  BY <1>1, <1>4, <1>5 DEF OInv, SavedInOrder, SavedBelow, SavedComesNext

\* The saved packet is completed.
LEMMA SavedOrder == ASSUME IInv, OInv, PlaySaved PROVE OInv'
<1>1. /\ pc = "join" /\ bufsize > 0 /\ pc' = "advance"
      /\ UNCHANGED <<bufsize, at>>
      /\ delivered' = Append(delivered, buf') \/ delivered' = delivered
  BY DEF PlaySaved, chunk
<1>2. PICK p : p = buf' /\ p = [i \in 1..PacketSize |->
                 IF i <= bufsize THEN buf[i] ELSE at + i - bufsize - 1]
  BY DEF PlaySaved
<1>3. /\ Below(delivered, buf[1]) /\ Below(delivered, at)
      /\ \A i \in 1..bufsize : buf[i] < at
      /\ \A i, j \in 1..bufsize : i < j => buf[i] < buf[j]
  BY <1>1 DEF OInv, SavedBelow, SavedInOrder, SavedComesNext
<1>4. \A i \in 1..PacketSize :
        /\ i <= bufsize => i \in 1..bufsize /\ p[i] = buf[i] /\ p[i] \in Nat
        /\ ~(i <= bufsize) => p[i] = at + i - bufsize - 1 /\ p[i] \in Nat
  BY <1>2, Types
<1>5. p \in Packet
  BY <1>2, <1>4 DEF Packet
<1>6. ASSUME NEW i \in 1..PacketSize, NEW j \in 1..PacketSize, i < j
      PROVE  p[i] < p[j]
  BY <1>3, <1>4, <1>6, Types
<1>7. PICK x \in Int : x = at + PacketSize - bufsize
  BY Types
<1>8. p[1] = buf[1] /\ p[PacketSize] < x
  <2>1. 1 <= bufsize /\ ~(PacketSize <= bufsize)
    BY <1>1, Types
  <2>2. p[1] = buf[1] /\ p[PacketSize] = at + PacketSize - bufsize - 1
    BY <1>4, <2>1, Ends
  <2> QED BY <1>7, <2>2, Types
<1>9. at \in Int /\ at <= x
  BY <1>7, Types
<1>10. delivered' \in Seq(Packet) /\ InOrder(delivered') /\ Below(delivered', x)
  <2>1. CASE delivered' = delivered
    BY <1>3, <1>9, <2>1, BelowMore DEF OInv
  <2>2. CASE delivered' = Append(delivered, p)
    BY <1>3, <1>5, <1>6, <1>8, <2>2, AppendInOrder DEF OInv, Ordered
  <2> QED BY <1>1, <1>2, <2>1, <2>2
<1>11. ASSUME NEW i \in 1..bufsize, NEW j \in 1..bufsize, i < j PROVE p[i] < p[j]
  BY <1>6, <1>11, Types
<1>12. SavedInOrder'
  BY <1>1, <1>2, <1>11 DEF SavedInOrder
<1>13. Below(delivered', at' + PacketSize - bufsize')
  BY <1>1, <1>7, <1>10
<1> QED
  BY <1>1, <1>10, <1>12, <1>13 DEF OInv

\* The rest of the chunk is saved.
LEMMA SaveOrder == ASSUME IInv, OInv, Save PROVE OInv'
<1>1. PICK rest : rest = left % PacketSize
  OBVIOUS
<1>2. /\ pc = "save" /\ pc' = "play"
      /\ buf' = [i \in 1..PacketSize |->
                   IF i <= rest THEN at + left - rest + i - 1 ELSE buf[i]]
      /\ bufsize' = (IF rest > 0 THEN rest ELSE bufsize)
      /\ left' = left - rest
      /\ UNCHANGED <<at, sent, delivered>>
  BY <1>1 DEF Save, SaveBytes
<1>3. bufsize = 0 /\ Below(delivered, at)
  BY <1>2 DEF OInv
<1>4. rest \in 0..(PacketSize - 1) /\ rest <= left /\ bufsize' = rest
  BY <1>1, <1>2, <1>3, RestBound, Types
<1>5. ASSUME NEW i \in 1..rest
      PROVE  /\ buf'[i] = at + left' + i - 1 /\ buf'[i] \in Nat
  BY <1>2, <1>4, Types
<1>6. SavedInOrder'
  <2>1. ASSUME NEW i \in 1..rest, NEW j \in 1..rest, i < j PROVE buf'[i] < buf'[j]
    BY <1>2, <1>4, <1>5, <2>1, Types
  <2> QED BY <1>4, <2>1 DEF SavedInOrder
<1>7. SavedComesNext'
  <2>1. ASSUME rest > 0 PROVE Below(delivered, buf'[1])
    <3>1. 1 \in 1..rest
      BY <1>4, <2>1
    <3>2. PICK x \in Int : x = buf'[1] /\ at <= x
      BY <1>2, <1>4, <1>5, <3>1, Types
    <3> QED BY <1>3, <3>2, Types, BelowMore DEF OInv
  <2> QED BY <1>2, <1>4, <2>1 DEF SavedComesNext
<1>8. at' + left' + bufsize' <= sent'
  BY <1>2, <1>4, Types
<1>9. \A i \in 1..bufsize' : buf'[i] = at' + left' + i - 1
  BY <1>2, <1>4, <1>5
<1> QED
  BY <1>2, <1>3, <1>6, <1>7, <1>8, <1>9 DEF OInv

\* The device accepts some packets.
LEMMA AcceptOrder == ASSUME IInv, OInv, Accepted PROVE OInv'
<1>1. PICK k \in 1..(left \div PacketSize) :
        /\ delivered' = delivered \o Packets(at, k * PacketSize)
        /\ at' = at + k * PacketSize
        /\ left' = left - k * PacketSize
  BY DEF Accepted
<1>2. pc = "play" /\ UNCHANGED <<bufsize, buf, pc, sent>>
  BY DEF Accepted
<1>3. k \in Nat /\ k * PacketSize \in Nat /\ k * PacketSize <= left
  BY PacketsFit, Types
<1>4. PICK e : e = Packets(at, k * PacketSize)
  OBVIOUS
<1>5. /\ e \in Seq(Packet) /\ InOrder(e) /\ Below(e, at')
      /\ \A n \in DOMAIN e : at <= e[n][1]
  BY <1>1, <1>3, <1>4, Types, PacketsInOrder
<1>6. PICK x \in Int : x = at' /\ at <= x /\ x + left' = at + left /\ left' \in Nat
  <2>1. PICK m \in Nat : m = k * PacketSize /\ m <= left
    BY <1>3
  <2>2. at' = at + m /\ left' = left - m
    BY <1>1, <2>1
  <2>3. at \in Nat /\ left \in Nat
    BY Types
  <2>4. at + m \in Int /\ at <= at + m /\ (at + m) + (left - m) = at + left /\ left - m \in Nat
    BY <2>1, <2>3
  <2> QED BY <2>2, <2>4
<1>7. delivered' \in Seq(Packet) /\ InOrder(delivered') /\ Below(delivered', at')
  <2>1. /\ delivered \in Seq(Packet) /\ InOrder(delivered) /\ Below(delivered, at)
        /\ at \in Int
    BY <1>2, Types DEF OInv
  <2> QED BY <1>1, <1>4, <1>5, <1>6, <2>1, ConcatInOrder
<1>8. /\ at' + left' + bufsize' <= sent'
      /\ \A i \in 1..bufsize' : buf'[i] = at' + left' + i - 1
  BY <1>2, <1>6 DEF OInv
<1>9. SavedComesNext'
  <2>1. ASSUME bufsize > 0 PROVE Below(delivered', buf[1])
    <3>1. 1 \in 1..bufsize
      BY <2>1, Types
    <3>2. buf[1] = at + left + 1 - 1
      BY <1>2, <3>1 DEF OInv
    <3>3. PICK y \in Int : y = buf[1] /\ x <= y
      BY <1>6, <3>2, Types
    <3> QED BY <1>6, <1>7, <3>3, BelowMore
  <2> QED BY <1>2, <2>1 DEF SavedComesNext
<1> QED
  BY <1>2, <1>7, <1>8, <1>9 DEF OInv, SavedInOrder

\* PlayPacket goes on or returns without copying.
LEMMA AdvanceOrder == ASSUME IInv, OInv, Advance PROVE OInv'
<1>1. /\ pc = "advance" /\ pc' = "save" /\ bufsize' = 0
      /\ at' = at + PacketSize - bufsize /\ UNCHANGED <<buf, delivered>>
  BY DEF Advance
<1>2. Below(delivered, at') /\ 1..0 = {}
  BY <1>1 DEF OInv
<1> QED
  BY <1>1, <1>2 DEF OInv, SavedInOrder

\* PlayPacket finds nothing to join, or returns.
LEMMA ReturnOrder ==
  ASSUME IInv, OInv, NothingSaved \/ Refused \/ PlayError \/ Played
  PROVE  OInv'
<1>1. CASE NothingSaved
  BY <1>1 DEF NothingSaved, chunk, OInv, SavedInOrder
<1>2. CASE Refused \/ PlayError \/ Played
  <2>1. /\ pc = "play" /\ pc' \in {"play", "idle"}
        /\ UNCHANGED <<bufsize, buf, at, left, sent, delivered>>
    BY <1>2 DEF Refused, PlayError, Played, chunk
  <2>2. /\ Below(delivered, at) /\ at + left + bufsize <= sent
        /\ \A i \in 1..bufsize : buf[i] = at + left + i - 1
    BY <2>1 DEF OInv
  <2>3. Below(delivered, sent)
    <3>1. at \in Int /\ sent \in Int /\ at <= sent
      BY Types
    <3> QED BY <2>2, <3>1, BelowMore DEF OInv
  <2>4. SavedBelow(sent)
    BY <2>2, Types DEF SavedBelow
  <2> QED
    BY <2>1, <2>2, <2>3, <2>4 DEF OInv, SavedInOrder, SavedBelow, SavedComesNext
<1> QED
  BY <1>1, <1>2

\* The browser's requests: a reset empties the saved packet at any point.
LEMMA RequestOrder == ASSUME IInv, OInv, Pause \/ ResetVideo \/ Resume PROVE OInv'
<1>1. CASE Pause
  BY <1>1 DEF Pause, chunk, OInv, SavedInOrder, SavedBelow, SavedComesNext
<1>2. CASE ResetVideo \/ Resume
  <2>1. bufsize' = 0 /\ UNCHANGED <<buf, pc, at, left, sent, delivered>>
    BY <1>2 DEF ResetVideo, Resume, Reset, chunk
  <2>2. 1..0 = {}
    OBVIOUS
  <2>3. pc = "advance" => Below(delivered, at + PacketSize - 0)
    <3>1. /\ at + PacketSize - bufsize \in Int /\ at + PacketSize - 0 \in Int
          /\ at + PacketSize - bufsize <= at + PacketSize - 0
      BY Types
    <3> QED BY <3>1, BelowMore DEF OInv
  <2>4. pc = "play" => at + left + 0 <= sent
    BY Types
  <2> QED
    BY <2>1, <2>2, <2>3, <2>4 DEF OInv, SavedInOrder, SavedBelow, SavedComesNext
<1> QED
  BY <1>1, <1>2

\* No step breaks the order.
LEMMA StepOInv == IInv /\ OInv /\ [Next]_vars => OInv'
<1> SUFFICES ASSUME IInv, OInv, [Next]_vars PROVE OInv'
  OBVIOUS
<1>1. CASE UNCHANGED vars
  BY <1>1 DEF vars, chunk, OInv, SavedInOrder, SavedBelow, SavedComesNext
<1>2. CASE Next
  BY <1>2, ChunkOrder, SavedOrder, AdvanceOrder, SaveOrder, AcceptOrder, ReturnOrder,
     RequestOrder DEF Next, Handler
<1> QED
  BY <1>1, <1>2

\* No byte reaches the device twice or out of order, whatever is paused,
\* refused, repeated or reset between two of PlayPacket's steps.
THEOREM PacketsStayInOrder == Spec => []DeliveredInOrder
<1>1. Init => OInv
  BY InitOInv
<1>2. OInv => DeliveredInOrder
  BY DEF OInv, InOrder, DeliveredInOrder
<1> QED
  BY <1>1, <1>2, StepOInv, PacketInvariant, PTL DEF Spec

-----------------------------------------------------------------------------
(***************************************************************************)
(* Whole packets, and all of them.                                         *)
(***************************************************************************)

\* A number of whole packets.
Aligned(x) == \E q \in Nat : x = q * PacketSize
Whole(p) == Aligned(p[1]) /\ \A i \in 1..PacketSize : p[i] = p[1] + i - 1
AllWhole(d) == \A n \in DOMAIN d : Whole(d[n])
WholeAfter(d, k) == \A n \in DOMAIN d : n > k => Whole(d[n])

\* A sequence of packets is divided by its length.
LEMMA DivisionOf ==
  ASSUME NEW q \in Nat, NEW r \in 0..(PacketSize - 1)
  PROVE  (q * PacketSize + r) \div PacketSize = q /\ (q * PacketSize + r) % PacketSize = r
<1>1. PacketSize \in Nat /\ PacketSize > 0
  BY SizeAssumption
<1>2. PICK n \in Nat : n = q * PacketSize + r
  <2>1. q * PacketSize \in Nat
    BY <1>1
  <2> QED BY <1>1, <2>1
<1>3. PICK d \in Nat, m \in Nat : /\ d = n \div PacketSize /\ m = n % PacketSize
                                 /\ n = PacketSize * d + m /\ m < PacketSize
  <2>1. /\ n \div PacketSize \in Nat /\ n % PacketSize \in 0..(PacketSize - 1)
        /\ n = PacketSize * (n \div PacketSize) + (n % PacketSize)
    BY <1>1, Z3
  <2> QED BY <1>1, <2>1
<1>4. ASSUME d > q PROVE FALSE
  <2>1. PICK k \in Nat : d = q + 1 + k
    BY <1>4, DifferenceOf
  <2>2. PacketSize * d = q * PacketSize + PacketSize + PacketSize * k
        /\ PacketSize * k \in Nat /\ q * PacketSize \in Nat
    BY <1>1, <2>1
  <2> QED BY <1>1, <1>2, <1>3, <2>2
<1>5. ASSUME d < q PROVE FALSE
  <2>1. PICK k \in Nat : q = d + 1 + k
    BY <1>5, DifferenceOf
  <2>2. q * PacketSize = PacketSize * d + PacketSize + PacketSize * k
        /\ PacketSize * k \in Nat /\ PacketSize * d \in Nat
    BY <1>1, <2>1
  <2> QED BY <1>1, <1>2, <1>3, <2>2
<1>6. d = q
  BY <1>4, <1>5
<1>7. m = r
  <2>1. PacketSize * q = q * PacketSize /\ q * PacketSize \in Nat
    BY <1>1
  <2> QED BY <1>1, <1>2, <1>3, <1>6, <2>1
<1> QED BY <1>2, <1>3, <1>6, <1>7

\* What % says of whole packets.
LEMMA AlignedRest ==
  ASSUME NEW x, Aligned(x) PROVE x \in Nat /\ x % PacketSize = 0
<1>1. PICK q \in Nat : x = q * PacketSize
  BY DEF Aligned
<1>2. PacketSize \in Nat /\ 0 \in 0..(PacketSize - 1) /\ q * PacketSize \in Nat
  BY SizeAssumption
<1>3. q * PacketSize + 0 = q * PacketSize
  BY <1>2
<1> QED BY <1>1, <1>2, <1>3, DivisionOf

\* Whole packets and whole packets are whole packets.
LEMMA AlignedSum ==
  ASSUME NEW x, NEW y, Aligned(x), Aligned(y) PROVE Aligned(x + y)
<1>1. PICK q \in Nat : x = q * PacketSize
  BY DEF Aligned
<1>2. PICK r \in Nat : y = r * PacketSize
  BY DEF Aligned
<1>3. x + y = (q + r) * PacketSize /\ q + r \in Nat
  BY <1>1, <1>2, SizeAssumption
<1> QED BY <1>3 DEF Aligned

\* Nothing and one packet are whole.
LEMMA AlignedSmall == Aligned(0) /\ Aligned(PacketSize)
<1>1. 0 = 0 * PacketSize /\ PacketSize = 1 * PacketSize
  BY SizeAssumption
<1> QED BY <1>1 DEF Aligned

\* What is left without the rest is whole packets.
LEMMA AlignedWithoutRest ==
  ASSUME NEW n \in Nat PROVE Aligned(n - (n % PacketSize))
<1>1. PacketSize \in Nat /\ PacketSize > 0
  BY SizeAssumption
<1>2. /\ n \div PacketSize \in Nat /\ n % PacketSize \in Nat
      /\ n = PacketSize * (n \div PacketSize) + (n % PacketSize)
  BY <1>1, Z3
<1>3. PICK d \in Nat, m \in Nat : d = n \div PacketSize /\ m = n % PacketSize
  BY <1>2
<1>4. d * PacketSize = PacketSize * d /\ d * PacketSize \in Nat
  BY <1>1
<1>5. n - m = d * PacketSize
  BY <1>2, <1>3, <1>4
<1> QED BY <1>3, <1>5 DEF Aligned

\* The packets of a chunk, as a sequence.
LEMMA PacketsOf ==
  ASSUME NEW a \in Nat, NEW k \in Nat
  PROVE  LET e == Packets(a, k * PacketSize)
         IN /\ e \in Seq(Packet) /\ Len(e) = k /\ DOMAIN e = 1..k
            /\ \A j \in 1..k : e[j] = [i \in 1..PacketSize |->
                                        a + (j - 1) * PacketSize + i - 1]
<1> DEFINE e == Packets(a, k * PacketSize)
<1>1. PacketSize \in Nat /\ PacketSize > 0
  BY SizeAssumption
<1>2. (k * PacketSize) \div PacketSize = k
  BY <1>1, MultipleDivided
<1>3. e = [j \in 1..k |-> [i \in 1..PacketSize |-> a + (j - 1) * PacketSize + i - 1]]
  BY <1>2 DEF Packets
<1>4. e \in Seq(Packet)
  BY PacketsInOrder
<1> HIDE DEF e
<1>5. DOMAIN e = 1..k
  BY <1>3
<1>6. Len(e) = k
  <2>1. PICK n \in Nat : n = Len(e) /\ DOMAIN e = 1..n
    BY <1>4, LenProperties
  <2>2. 1..k = 1..n
    BY <1>5, <2>1
  <2> QED BY <2>1, <2>2
<1>7. ASSUME NEW j \in 1..k
      PROVE  e[j] = [i \in 1..PacketSize |-> a + (j - 1) * PacketSize + i - 1]
  BY <1>3
<1> QED BY <1>4, <1>5, <1>6, <1>7 DEF e

\* The packets from the beginning of the stream.
LEMMA PacketsFromStart ==
  ASSUME NEW k \in Nat
  PROVE  LET e == Packets(0, k * PacketSize)
         IN /\ e \in Seq(Packet) /\ Len(e) = k
            /\ \A j \in 1..k : e[j] = [i \in 1..PacketSize |-> 0 + (j - 1) * PacketSize + i - 1]
  BY PacketsOf

\* They are whole.
LEMMA PacketsWhole ==
  ASSUME NEW a \in Nat, NEW k \in Nat, Aligned(a)
  PROVE  AllWhole(Packets(a, k * PacketSize))
<1> DEFINE e == Packets(a, k * PacketSize)
<1> SUFFICES ASSUME NEW j \in 1..k PROVE Whole(e[j])
  BY PacketsOf DEF AllWhole
<1>1. e[j] = [i \in 1..PacketSize |-> a + (j - 1) * PacketSize + i - 1]
  BY PacketsOf
<1>2. PICK x \in Nat : x = a + (j - 1) * PacketSize /\ Aligned(x)
  <2>1. j - 1 \in Nat
    OBVIOUS
  <2>2. Aligned((j - 1) * PacketSize)
    BY <2>1 DEF Aligned
  <2>3. Aligned(a + (j - 1) * PacketSize)
    BY <2>2, AlignedSum
  <2> QED BY <2>3, AlignedRest
<1>3. e[j] = [i \in 1..PacketSize |-> x + i - 1]
  BY <1>1, <1>2
<1> HIDE DEF e
<1>4. e[j][1] = x /\ \A i \in 1..PacketSize : e[j][i] = x + i - 1
  BY <1>3, Ends
<1> QED BY <1>2, <1>4 DEF Whole

\* The packets of the stream up to a position, and those behind it.
LEMMA PacketsContinue ==
  ASSUME NEW x, Aligned(x), NEW k \in Nat
  PROVE  Packets(0, x) \o Packets(x, k * PacketSize) = Packets(0, x + k * PacketSize)
<1>1. PICK q \in Nat : x = q * PacketSize
  BY DEF Aligned
<1>2. x \in Nat
  BY AlignedRest
<1>3. x + k * PacketSize = (q + k) * PacketSize /\ q + k \in Nat
  BY <1>1, SizeAssumption
<1> DEFINE d == Packets(0, q * PacketSize)
           e == Packets(x, k * PacketSize)
           m == q + k
           f == Packets(0, m * PacketSize)
<1>4. /\ d \in Seq(Packet) /\ Len(d) = q
      /\ \A j \in 1..q : d[j] = [i \in 1..PacketSize |-> 0 + (j - 1) * PacketSize + i - 1]
  BY PacketsOf
<1>5. /\ e \in Seq(Packet) /\ Len(e) = k
      /\ \A j \in 1..k : e[j] = [i \in 1..PacketSize |-> x + (j - 1) * PacketSize + i - 1]
  BY <1>2, PacketsOf
<1> HIDE DEF m
<1>6. /\ f \in Seq(Packet) /\ Len(f) = m
      /\ \A j \in 1..m :
           f[j] = [i \in 1..PacketSize |-> 0 + (j - 1) * PacketSize + i - 1]
  <2>1. m \in Nat
    BY DEF m
  <2> QED BY <2>1, PacketsFromStart
<1> HIDE DEF d, e, f
<1>7. /\ d \o e \in Seq(Packet) /\ Len(d \o e) = m
      /\ \A j \in 1..m : (d \o e)[j] = IF j <= q THEN d[j] ELSE e[j - q]
  <2>1. /\ d \o e \in Seq(Packet) /\ Len(d \o e) = Len(d) + Len(e)
        /\ \A j \in 1..(Len(d) + Len(e)) :
             (d \o e)[j] = IF j <= Len(d) THEN d[j] ELSE e[j - Len(d)]
    BY <1>4, <1>5, ConcatProperties
  <2>2. Len(d) = q /\ Len(e) = k
    BY <1>4, <1>5
  <2> QED BY <2>1, <2>2 DEF m
<1>8. ASSUME NEW j \in 1..m PROVE (d \o e)[j] = f[j]
  <2>1. CASE j <= q
    <3>1. j \in 1..q
      BY <2>1 DEF m
    <3> QED BY <1>4, <1>6, <1>7, <2>1, <3>1
  <2>2. CASE ~(j <= q)
    <3>1. j - q \in 1..k
      BY <2>2 DEF m
    <3>2. x + (j - q - 1) * PacketSize = 0 + (j - 1) * PacketSize
      BY <1>1, SizeAssumption DEF m
    <3>3. e[j - q] = [i \in 1..PacketSize |-> x + (j - q - 1) * PacketSize + i - 1]
      BY <1>5, <3>1
    <3> QED BY <1>6, <1>7, <2>2, <3>2, <3>3
  <2> QED BY <2>1, <2>2
<1>9. d \o e = f
  BY <1>6, <1>7, <1>8, SeqEqual
<1> QED BY <1>1, <1>3, <1>9 DEF d, e, f, m

\* One more packet.
LEMMA PacketContinues ==
  ASSUME NEW x, Aligned(x)
  PROVE  Append(Packets(0, x), [i \in 1..PacketSize |-> x + i - 1])
           = Packets(0, x + PacketSize)
<1> DEFINE p == [i \in 1..PacketSize |-> x + i - 1]
           d == Packets(0, x)
           e == Packets(x, 1 * PacketSize)
<1>1. x \in Nat /\ 1 * PacketSize = PacketSize /\ PacketSize \in Nat
  BY AlignedRest, SizeAssumption
<1>2. /\ e \in Seq(Packet) /\ Len(e) = 1
      /\ \A j \in 1..1 : e[j] = [i \in 1..PacketSize |-> x + (j - 1) * PacketSize + i - 1]
  BY <1>1, PacketsOf
<1>3. e[1] = p
  <2>1. e[1] = [i \in 1..PacketSize |-> x + (1 - 1) * PacketSize + i - 1]
    BY <1>2
  <2>2. x + (1 - 1) * PacketSize = x
    BY <1>1
  <2> QED BY <2>1, <2>2
<1>4. d \in Seq(Packet)
  <2>1. PICK q \in Nat : x = q * PacketSize
    BY DEF Aligned
  <2> QED BY <2>1, PacketsOf
<1>5. d \o e = Packets(0, x + PacketSize)
  BY <1>1, PacketsContinue
<1> HIDE DEF d, e, p
<1>6. p \in Packet
  BY <1>2, <1>3
<1>7. e = <<p>>
  BY <1>2, <1>3
<1>8. Append(d, p) = d \o <<p>>
  BY <1>4, <1>6, AppendIsConcat
<1> QED BY <1>5, <1>7, <1>8 DEF d, p

-----------------------------------------------------------------------------
\* The stream is whole packets up to x, and the device has them all.
Due(x) == Aligned(x) /\ (calm => delivered = Packets(0, x))
SavedFrom(x) == \A i \in 1..bufsize : buf[i] = x + i - 1

\* A player that is paused drops chunks, and a seek begins a new stream.
Attentive == pc = "idle" => cut = "none" /\ (pause => calm)

\* Up to where whole packets have been taken at each place, and what is saved.
Places ==
  /\ pc = "idle" => Due(sent - bufsize) /\ SavedFrom(sent - bufsize)
  /\ pc = "join" => Due(at - bufsize) /\ SavedFrom(at - bufsize)
  /\ pc = "advance" => Due(at - bufsize + PacketSize)
  /\ pc = "save" => Due(at)
  /\ pc \in {"join", "advance", "save"} => at + left = sent
  /\ pc = "play" => Due(at) /\ Aligned(left) /\ SavedFrom(at + left)
  /\ pc = "play" /\ cut = "none" => at + left + bufsize = sent

WInv ==
  /\ calm => ~disturbed /\ cut = "none"
  /\ cut = "late" => disturbed
  /\ cut = "clean" => pc \in {"idle", "play"} /\ bufsize = 0
  /\ ~disturbed => WholeAfter(delivered, since)
  /\ ~disturbed /\ Attentive => Places

\* What else the steps below know of the types.
LEMMA Flags ==
  ASSUME IInv
  PROVE  /\ calm \in BOOLEAN /\ cut \in Cuts /\ pause \in BOOLEAN
         /\ disturbed \in BOOLEAN
         /\ pc \in {"idle", "join", "advance", "save", "play"}
  BY DEF IInv, TypeOK, Cuts

\* Nothing was sent, delivered or saved initially.
LEMMA InitWInv == ASSUME Init PROVE WInv
<1>1. /\ bufsize = 0 /\ pc = "idle" /\ delivered = <<>> /\ sent = 0 /\ cut = "none"
      /\ 1..0 = {} /\ 0 - 0 = 0
  BY DEF Init
<1>2. delivered = Packets(0, 0)
  <2>1. 0 \div PacketSize = 0
    <3>1. 0 = 0 * PacketSize + 0 /\ 0 \in 0..(PacketSize - 1)
      BY SizeAssumption
    <3> QED BY <3>1, DivisionOf
  <2> QED BY <1>1, <2>1 DEF Packets
<1>3. WholeAfter(delivered, since)
  BY <1>1 DEF WholeAfter
<1> QED
  BY <1>1, <1>2, <1>3, AlignedSmall DEF Init, WInv, Places, Due, SavedFrom

\* A chunk arrives.
LEMMA ChunkAligned ==
  ASSUME IInv, OInv, WInv, NEW n \in Chunks, PlayPacket(n)
  PROVE  WInv'
<1>1. /\ pc = "idle" /\ cut' = "none" /\ left' = n
      /\ pc' = (IF pause \/ n = 0 THEN "idle" ELSE "join")
      /\ calm' = (calm /\ ~pause)
      /\ UNCHANGED <<bufsize, buf, pause, delivered>>
  BY DEF PlayPacket
<1>2. PICK a : /\ a \in (IF cut = "none" THEN {sent} ELSE {sent, Anew})
               /\ sent' = a + n /\ at' = a
               /\ IF cut = "clean" /\ a = Anew
                  THEN /\ disturbed' = FALSE
                       /\ since' = IF disturbed THEN Len(delivered) ELSE since
                  ELSE disturbed' = (disturbed \/ cut # "none") /\ since' = since
  BY DEF PlayPacket
<1>3. /\ calm => ~disturbed /\ cut = "none"
      /\ ~disturbed => WholeAfter(delivered, since)
      /\ cut = "clean" => bufsize = 0
  BY DEF WInv
<1>4. calm' => ~disturbed'
  BY <1>1, <1>2, <1>3, Flags
<1>5. ~disturbed' => WholeAfter(delivered, since)'
  <2>1. CASE disturbed /\ ~disturbed'
    <3>1. since' = Len(delivered)
      BY <1>2, <2>1, Flags
    <3>2. \A m \in DOMAIN delivered : ~(m > Len(delivered))
      <4>1. delivered \in Seq(Packet)
        BY DEF OInv
      <4> QED BY <4>1, LenProperties
    <3> QED BY <1>1, <3>1, <3>2 DEF WholeAfter
  <2>2. CASE ~disturbed /\ since' = since
    BY <1>1, <1>3, <2>2 DEF WholeAfter
  <2> QED BY <1>2, <2>1, <2>2, Flags
<1>6. ASSUME ~disturbed', Attentive' PROVE Places'
  <2>1. ~pause /\ (disturbed => cut = "clean")
    BY <1>1, <1>2, <1>6, Flags DEF Attentive
  <2>2. Due(a - bufsize) /\ SavedFrom(a - bufsize)
    <3>1. CASE cut # "none"
      <4>1. a = Anew /\ bufsize = 0 /\ ~calm
        BY <1>2, <1>3, <1>6, <3>1, Flags
      <4>2. Aligned(Anew)
        <5>1. sent + PacketSize - 1 \in Nat /\ PacketSize \in Nat /\ PacketSize > 0
          BY Types
        <5>2. PICK m \in Nat : m = sent + PacketSize - 1
          BY <5>1
        <5>3. m \div PacketSize \in Nat
          BY <5>1, <5>2
        <5> QED BY <5>2, <5>3 DEF Anew, Aligned
      <4>3. a - bufsize = a /\ 1..0 = {}
        BY <4>1, <4>2, AlignedRest
      <4> QED BY <4>1, <4>2, <4>3 DEF Due, SavedFrom
    <3>2. CASE cut = "none"
      <4>1. a = sent /\ ~disturbed
        BY <1>2, <2>1, <3>2
      <4>2. Places
        BY <1>1, <2>1, <3>2, <4>1 DEF WInv, Attentive
      <4> QED BY <1>1, <4>1, <4>2 DEF Places
    <3> QED BY <3>1, <3>2
  <2>3. calm' = calm
    BY <1>1, <2>1, Flags
  <2>4. CASE n = 0
    <3>1. a \in Nat
      BY <1>2, AnewType, Types
    <3>2. sent' = a /\ pc' = "idle"
      BY <1>1, <1>2, <2>4, <3>1
    <3> QED BY <1>1, <2>2, <2>3, <3>2 DEF Places, Due, SavedFrom
  <2>5. CASE n # 0
    <3>1. pc' = "join"
      BY <1>1, <2>1, <2>5
    <3> QED BY <1>1, <1>2, <2>2, <2>3, <3>1 DEF Places, Due, SavedFrom
  <2> QED BY <2>4, <2>5
<1> QED
  BY <1>1, <1>4, <1>5, <1>6 DEF WInv

\* The saved packet is completed.
LEMMA SavedAligned == ASSUME IInv, WInv, PlaySaved PROVE WInv'
<1>1. /\ pc = "join" /\ bufsize > 0 /\ pc' = "advance"
      /\ UNCHANGED <<bufsize, pause, at, left, sent, cut, disturbed, since>>
      /\ \/ delivered' = Append(delivered, buf') /\ calm' = calm
         \/ delivered' = delivered /\ calm' = FALSE
  BY DEF PlaySaved, chunk
<1>2. PICK p : p = buf' /\ p = [i \in 1..PacketSize |->
                 IF i <= bufsize THEN buf[i] ELSE at + i - bufsize - 1]
  BY DEF PlaySaved
<1>3. calm' => ~disturbed' /\ cut' = "none"
  BY <1>1 DEF WInv
<1>4. (cut' = "late" => disturbed') /\ cut' # "clean"
  BY <1>1 DEF WInv
<1>5. ASSUME ~disturbed' PROVE WholeAfter(delivered, since)' /\ Places'
  <2>1. ~disturbed /\ WholeAfter(delivered, since) /\ Places
    BY <1>1, <1>5, Flags DEF WInv, Attentive
  <2>2. PICK x : x = at - bufsize /\ Due(x) /\ SavedFrom(x)
    BY <1>1, <2>1 DEF Places
  <2>3. Aligned(x) /\ x \in Nat
    BY <2>2, AlignedRest DEF Due
  <2>4. p = [i \in 1..PacketSize |-> x + i - 1]
    <3>1. ASSUME NEW i \in 1..PacketSize
          PROVE  (IF i <= bufsize THEN buf[i] ELSE at + i - bufsize - 1) = x + i - 1
      <4>1. CASE i <= bufsize
        <5>1. i \in 1..bufsize
          BY <4>1, Types
        <5> QED BY <2>2, <4>1, <5>1 DEF SavedFrom
      <4>2. CASE ~(i <= bufsize)
        BY <2>2, <4>2, Types
      <4> QED BY <4>1, <4>2
    <3> QED BY <1>2, <3>1
  <2>5. Whole(p)
    <3>1. p[1] = x /\ \A i \in 1..PacketSize : p[i] = x + i - 1
      BY <2>3, <2>4, Ends
    <3> QED BY <2>3, <3>1 DEF Whole
  <2>6. WholeAfter(delivered, since)'
    <3>1. CASE delivered' = Append(delivered, p)
      BY <1>1, <2>1, <2>5, <3>1 DEF WholeAfter
    <3>2. CASE delivered' = delivered
      BY <1>1, <2>1, <3>2 DEF WholeAfter
    <3> QED BY <1>1, <1>2, <3>1, <3>2
  <2>7. Aligned(x + PacketSize)
    BY <2>3, AlignedSum, AlignedSmall
  <2>8. calm' => delivered' = Packets(0, x + PacketSize)
    <3>1. calm' => delivered' = Append(Packets(0, x), p)
      BY <1>1, <1>2, <2>2 DEF Due
    <3> QED BY <2>3, <2>4, <3>1, PacketContinues
  <2>9. Places'
    BY <1>1, <2>1, <2>2, <2>7, <2>8 DEF Places, Due
  <2> QED BY <2>6, <2>9
<1> QED
  BY <1>3, <1>4, <1>5 DEF WInv

\* PlayPacket goes on behind the completed packet.
LEMMA AdvanceAligned == ASSUME IInv, WInv, Advance PROVE WInv'
<1>1. /\ pc = "advance" /\ pc' = "save" /\ bufsize' = 0
      /\ at' = at + PacketSize - bufsize
      /\ left' = left - (PacketSize - bufsize)
      /\ UNCHANGED <<sent, delivered, cut, calm, disturbed, since>>
  BY DEF Advance
<1>2. ASSUME ~disturbed' PROVE Places'
  <2>1. Due(at - bufsize + PacketSize) /\ at + left = sent
    BY <1>1, <1>2 DEF WInv, Attentive, Places
  <2>2. at' = at - bufsize + PacketSize /\ at' + left' = sent'
    BY <1>1, <2>1, Types
  <2> QED BY <1>1, <2>1, <2>2 DEF Places, Due
<1> QED
  BY <1>1, <1>2 DEF WInv

\* The rest of the chunk is saved.
LEMMA SaveAligned == ASSUME IInv, OInv, WInv, Save PROVE WInv'
<1>1. PICK rest : rest = left % PacketSize
  OBVIOUS
<1>2. /\ pc = "save" /\ pc' = "play"
      /\ buf' = [i \in 1..PacketSize |->
                   IF i <= rest THEN at + left - rest + i - 1 ELSE buf[i]]
      /\ bufsize' = (IF rest > 0 THEN rest ELSE bufsize)
      /\ left' = left - rest
      /\ UNCHANGED <<at, sent, delivered, cut, calm, disturbed, since>>
  BY <1>1 DEF Save, SaveBytes
<1>3. bufsize = 0
  BY <1>2 DEF OInv
<1>4. rest \in 0..(PacketSize - 1) /\ rest <= left /\ bufsize' = rest
  BY <1>1, <1>2, <1>3, RestBound, Types
<1>5. Aligned(left')
  BY <1>1, <1>2, AlignedWithoutRest, Types
<1>6. ASSUME ~disturbed' PROVE Places'
  <2>1. Due(at) /\ at + left = sent
    BY <1>2, <1>6 DEF WInv, Attentive, Places
  <2>2. at' + left' + bufsize' = sent'
    BY <1>2, <1>4, <2>1, Types
  <2>3. ASSUME NEW i \in 1..rest PROVE buf'[i] = at' + left' + i - 1
    BY <1>2, <1>4, Types
  <2>4. SavedFrom(at + left)'
    BY <1>4, <2>3 DEF SavedFrom
  <2> QED BY <1>2, <1>5, <2>1, <2>2, <2>4 DEF Places, Due
<1> QED
  BY <1>2, <1>6 DEF WInv

\* Taking some of the whole packets away leaves whole packets.
LEMMA AlignedDifference ==
  ASSUME NEW n \in Nat, Aligned(n), NEW k \in 1..(n \div PacketSize)
  PROVE  Aligned(n - k * PacketSize)
<1>1. PICK q \in Nat : n = q * PacketSize
  BY DEF Aligned
<1>2. n \div PacketSize = q
  BY <1>1, SizeAssumption, MultipleDivided
<1>3. q - k \in Nat /\ n - k * PacketSize = (q - k) * PacketSize
  BY <1>1, <1>2, SizeAssumption
<1> QED BY <1>3 DEF Aligned

\* Whole packets behind whole packets.
LEMMA AllWholeConcat ==
  ASSUME NEW d \in Seq(Packet), NEW e \in Seq(Packet), NEW k,
         WholeAfter(d, k), AllWhole(e)
  PROVE  WholeAfter(d \o e, k)
<1>1. /\ d \o e \in Seq(Packet) /\ Len(d \o e) = Len(d) + Len(e)
      /\ \A i \in 1..(Len(d) + Len(e)) :
           (d \o e)[i] = IF i <= Len(d) THEN d[i] ELSE e[i - Len(d)]
  BY ConcatProperties
<1> SUFFICES ASSUME NEW n \in 1..(Len(d) + Len(e)), n > k
             PROVE  Whole((d \o e)[n])
  BY <1>1 DEF WholeAfter
<1>2. CASE n <= Len(d)
  BY <1>1, <1>2 DEF WholeAfter
<1>3. CASE ~(n <= Len(d))
  <2>1. n - Len(d) \in DOMAIN e
    BY <1>3
  <2> QED BY <1>1, <1>3, <2>1 DEF AllWhole
<1> QED BY <1>2, <1>3

\* The device accepts some packets.
LEMMA AcceptAligned == ASSUME IInv, OInv, WInv, Accepted PROVE WInv'
<1>1. PICK k \in 1..(left \div PacketSize) :
        /\ delivered' = delivered \o Packets(at, k * PacketSize)
        /\ at' = at + k * PacketSize
        /\ left' = left - k * PacketSize
  BY DEF Accepted
<1>2. pc = "play" /\ UNCHANGED <<bufsize, buf, pc, sent, cut, calm, disturbed, since>>
  BY DEF Accepted
<1>3. k \in Nat /\ k * PacketSize \in Nat /\ k * PacketSize <= left
  BY PacketsFit, Types
<1>4. ASSUME ~disturbed' PROVE WholeAfter(delivered, since)' /\ Places'
  <2>1. /\ WholeAfter(delivered, since) /\ Due(at) /\ Aligned(left)
        /\ SavedFrom(at + left)
        /\ cut = "none" => at + left + bufsize = sent
    BY <1>2, <1>4 DEF WInv, Attentive, Places
  <2>2. Aligned(at) /\ Aligned(k * PacketSize) /\ Aligned(at + k * PacketSize)
    BY <1>3, <2>1, AlignedSum DEF Due, Aligned
  <2>3. Aligned(left')
    BY <1>1, <2>1, Types, AlignedDifference
  <2>4. at' + left' = at + left /\ (cut' = "none" => at' + left' + bufsize' = sent')
    <3>1. PICK m \in Nat : m = k * PacketSize
      BY <1>3
    <3> QED BY <1>1, <1>2, <2>1, <3>1, Types
  <2>5. WholeAfter(delivered, since)'
    <3>1. PICK e : e = Packets(at, k * PacketSize)
      OBVIOUS
    <3>2. e \in Seq(Packet)
      BY <1>3, <3>1, Types, PacketsOf
    <3>3. AllWhole(e)
      BY <1>3, <2>2, <3>1, Types, PacketsWhole
    <3>4. delivered \in Seq(Packet)
      BY DEF OInv
    <3>5. WholeAfter(delivered \o e, since)
      BY <2>1, <3>2, <3>3, <3>4, AllWholeConcat
    <3> QED BY <1>1, <1>2, <3>1, <3>5 DEF WholeAfter
  <2>6. calm => delivered' = Packets(0, at')
    BY <1>1, <1>3, <2>1, <2>2, PacketsContinue DEF Due
  <2>7. Due(at)'
    BY <1>1, <1>2, <2>2, <2>6 DEF Due
  <2>8. SavedFrom(at + left)'
    BY <1>2, <2>1, <2>4 DEF SavedFrom
  <2> QED BY <1>2, <2>3, <2>4, <2>5, <2>7, <2>8 DEF Places
<1> QED
  BY <1>2, <1>4 DEF WInv

\* PlayPacket finds nothing to join, or returns.
LEMMA ReturnAligned ==
  ASSUME IInv, WInv, NothingSaved \/ Refused \/ PlayError \/ Played
  PROVE  WInv'
<1>1. CASE NothingSaved
  <2>1. /\ pc = "join" /\ bufsize = 0 /\ pc' = "save"
        /\ UNCHANGED <<at, left, sent, delivered, cut, calm, disturbed, since>>
    BY <1>1 DEF NothingSaved, chunk
  <2>2. ASSUME ~disturbed' PROVE Places'
    <3>1. Due(at - bufsize) /\ at + left = sent /\ at - bufsize = at
      BY <2>1, <2>2, Types DEF WInv, Attentive, Places
    <3> QED BY <2>1, <3>1 DEF Places, Due
  <2> QED
    BY <2>1, <2>2 DEF WInv
<1>2. CASE Refused \/ PlayError \/ Played
  <2>1. /\ pc = "play" /\ pc' \in {"play", "idle"} /\ calm' \in {calm, FALSE}
        /\ Played => left < PacketSize
        /\ ~Played => calm' = FALSE
        /\ UNCHANGED <<bufsize, buf, at, left, sent, delivered, cut, disturbed, since>>
    BY <1>2 DEF Refused, PlayError, Played, chunk
  <2>2. ASSUME ~disturbed', Attentive' PROVE Places'
    <3>1. /\ Due(at) /\ Aligned(left) /\ SavedFrom(at + left)
          /\ cut = "none" => at + left + bufsize = sent
      BY <2>1, <2>2 DEF WInv, Attentive, Places
    <3>2. Aligned(at + left) /\ (cut = "none" => sent - bufsize = at + left)
      BY <3>1, Types, AlignedSum DEF Due
    <3>3. calm' => delivered = Packets(0, at + left)
      <4>1. SUFFICES ASSUME calm' PROVE delivered = Packets(0, at + left)
        OBVIOUS
      <4>2. calm /\ left < PacketSize
        BY <2>1, <4>1
      <4>3. left = 0
        <5>1. left % PacketSize = left
          BY <4>2, Types
        <5> QED BY <3>1, <5>1, AlignedRest
      <4> QED BY <3>1, <4>2, <4>3, Types DEF Due
    <3>4. CASE pc' = "idle"
      <4>0. cut = "none"
        BY <2>1, <2>2, <3>4 DEF Attentive
      <4>1. Due(sent - bufsize)' /\ SavedFrom(sent - bufsize)'
        BY <2>1, <3>1, <3>2, <3>3, <4>0 DEF Due, SavedFrom
      <4> QED BY <3>4, <4>1 DEF Places
    <3>5. CASE pc' = "play"
      <4>1. calm' => calm
        BY <2>1, Flags
      <4>2. Due(at)' /\ Aligned(left)' /\ SavedFrom(at + left)'
            /\ (cut' = "none" => at' + left' + bufsize' = sent')
        BY <2>1, <3>1, <4>1 DEF Due, SavedFrom
      <4> QED BY <3>5, <4>2 DEF Places
    <3> QED BY <2>1, <3>4, <3>5
  <2>3. calm' => ~disturbed' /\ cut' = "none"
    BY <2>1, Flags DEF WInv
  <2>4. /\ cut' = "late" => disturbed'
        /\ cut' = "clean" => pc' \in {"idle", "play"} /\ bufsize' = 0
        /\ ~disturbed' => WholeAfter(delivered, since)'
    BY <2>1 DEF WInv, WholeAfter
  <2> QED
    BY <2>2, <2>3, <2>4 DEF WInv
<1> QED
  BY <1>1, <1>2

\* The browser's requests: a reset between two chunks, or while their packets
\* are played, leaves nothing of the old stream behind; an earlier one may.
LEMMA RequestAligned == ASSUME IInv, WInv, Pause \/ ResetVideo \/ Resume PROVE WInv'
<1>1. CASE Pause
  <2>1. /\ pause' = TRUE
        /\ UNCHANGED <<bufsize, buf, pc, at, left, sent, delivered, cut, calm, disturbed, since>>
    BY <1>1 DEF Pause, chunk
  <2>2. Attentive' => Attentive
    BY <2>1 DEF Attentive
  <2>3. Places => Places'
    BY <2>1 DEF Places, Due, SavedFrom
  <2> QED
    BY <2>1, <2>2, <2>3 DEF WInv
<1>2. CASE ResetVideo \/ Resume
  <2>1. /\ bufsize' = 0 /\ calm' = FALSE
        /\ cut' = (IF TooLate THEN "late" ELSE "clean")
        /\ disturbed' = (disturbed \/ TooLate)
        /\ UNCHANGED <<buf, pc, at, left, sent, delivered, since>>
    BY <1>2 DEF ResetVideo, Resume, Reset, chunk
  <2>2. ASSUME ~disturbed', Attentive' PROVE Places'
    <3>1. pc = "play" /\ ~disturbed /\ Places
      BY <2>1, <2>2, Flags DEF WInv, Attentive, TooLate
    <3>2. Due(at)' /\ Aligned(left)' /\ SavedFrom(at + left)'
      <4>1. 1..0 = {}
        OBVIOUS
      <4> QED BY <2>1, <3>1, <4>1 DEF Places, Due, SavedFrom
    <3> QED BY <2>1, <3>1, <3>2, Flags DEF Places, TooLate
  <2>3. ~disturbed' => WholeAfter(delivered, since)'
    BY <2>1 DEF WInv, WholeAfter
  <2>4. cut' = "clean" => pc' \in {"idle", "play"}
    BY <2>1, Flags DEF TooLate
  <2> QED
    BY <2>1, <2>2, <2>3, <2>4 DEF WInv
<1> QED
  BY <1>1, <1>2

\* No step tears a packet apart or loses one.
LEMMA StepWInv == IInv /\ OInv /\ WInv /\ [Next]_vars => WInv'
<1> SUFFICES ASSUME IInv, OInv, WInv, [Next]_vars PROVE WInv'
  OBVIOUS
<1>1. CASE UNCHANGED vars
  BY <1>1 DEF vars, chunk, WInv, Attentive, Places, Due, SavedFrom
<1>2. CASE Next
  BY <1>2, ChunkAligned, SavedAligned, AdvanceAligned, SaveAligned, AcceptAligned,
     ReturnAligned, RequestAligned DEF Next, Handler
<1> QED
  BY <1>1, <1>2

\* The invariant the two theorems follow from.
LEMMA WholeInvariant == Spec => [](IInv /\ WInv)
<1>1. Init => OInv /\ WInv
  BY InitOInv, InitWInv
<1> QED
  BY <1>1, StepOInv, StepWInv, PacketInvariant, PTL DEF Spec

\* The device gets whole packets of the stream, however the transcoder cuts it
\* into chunks and wherever a reset meets the loop that plays them; what a reset
\* tears that the stream goes on after, or that comes before PlayPacket has saved
\* the rest of its chunk, is torn no longer than until the stream begins anew
\* after a reset that comes in time.
THEOREM PacketsStayWhole == Spec => []DeliveredWhole
<1>1. IInv /\ WInv => DeliveredWhole
  BY AlignedRest, Ends DEF WInv, WholeAfter, Whole, DeliveredWhole
<1> QED
  BY <1>1, WholeInvariant, PTL

\* Nothing is lost between chunks of any lengths: unless something was paused,
\* reset or refused, the device has every whole packet of the stream whenever
\* PlayPacket returns, and exactly the rest is saved.
THEOREM NothingIsLost == Spec => []DeliveredAll
<1>1. IInv /\ WInv => DeliveredAll
  <2> SUFFICES ASSUME IInv, WInv, calm, pc = "idle"
               PROVE  delivered = Packets(0, sent) /\ bufsize = sent % PacketSize
    BY DEF DeliveredAll
  <2>1. PICK x : x = sent - bufsize /\ Aligned(x) /\ delivered = Packets(0, x)
    BY DEF WInv, Attentive, Places, Due
  <2>2. PICK q \in Nat : x = q * PacketSize
    BY <2>1 DEF Aligned
  <2>3. x + 0 = x /\ 0 \in 0..(PacketSize - 1) /\ x + bufsize = sent /\ bufsize \in 0..(PacketSize - 1)
    BY <2>1, AlignedRest, Types
  <2>4. x \div PacketSize = q
    BY <2>2, <2>3, DivisionOf
  <2>5. sent \div PacketSize = q /\ sent % PacketSize = bufsize
    BY <2>2, <2>3, DivisionOf
  <2> QED BY <2>1, <2>4, <2>5 DEF Packets
<1> QED
  BY <1>1, WholeInvariant, PTL

-----------------------------------------------------------------------------
(***************************************************************************)
(* Why PlayPacket returns, but for the scheduler that lets it go on.       *)
(***************************************************************************)

\* How many steps PlayPacket still makes at most: the bytes of the chunk, the
\* retries, and the places before its loop.
StepsLeft ==
  IF pc = "idle" THEN 0
  ELSE left + (MaxRetries - retries) + (CASE pc = "join"    -> 4
                                          [] pc = "advance" -> 3
                                          [] pc = "save"    -> 2
                                          [] OTHER          -> 1)

\* There is a step left as long as PlayPacket has not returned.
LEMMA StepsCount ==
  ASSUME IInv
  PROVE  /\ MaxRetries \in Nat /\ retries \in 0..MaxRetries /\ left \in Nat
         /\ bufsize \in 0..(PacketSize - 1) /\ PacketSize \in Nat /\ PacketSize > 0
         /\ StepsLeft \in Nat /\ (pc # "idle" => StepsLeft > 0)
<1>1. /\ MaxRetries \in Nat /\ retries \in 0..MaxRetries /\ left \in Nat
      /\ bufsize \in 0..(PacketSize - 1) /\ PacketSize \in Nat /\ PacketSize > 0
  BY RetryAssumption, SizeAssumption DEF IInv, TypeOK
<1>2. StepsLeft \in Nat /\ (pc # "idle" => StepsLeft > 0)
  BY <1>1 DEF StepsLeft
<1> QED BY <1>1, <1>2

\* Each of PlayPacket's steps leaves fewer.
LEMMA HandlerShrinks ==
  ASSUME IInv, Handler
  PROVE  StepsLeft' < StepsLeft
<1>t. /\ MaxRetries \in Nat /\ retries \in 0..MaxRetries /\ left \in Nat
      /\ bufsize \in 0..(PacketSize - 1) /\ PacketSize \in Nat /\ PacketSize > 0
      /\ StepsLeft \in Nat /\ (pc # "idle" => StepsLeft > 0)
  BY StepsCount
<1>1. CASE PlaySaved
  BY <1>t, <1>1 DEF PlaySaved, StepsLeft, chunk
<1>2. CASE Advance
  BY <1>t, <1>2 DEF Advance, StepsLeft
<1>3. CASE NothingSaved
  BY <1>t, <1>3 DEF NothingSaved, StepsLeft, chunk
<1>4. CASE Save
  <2>1. PICK rest \in Nat : rest = left % PacketSize
    BY <1>t, RestBound
  <2>2. pc = "save" /\ pc' = "play" /\ left' = left - rest /\ retries' = retries
    BY <1>4, <2>1 DEF Save, SaveBytes
  <2> QED BY <1>t, <2>1, <2>2 DEF StepsLeft
<1>5. CASE Accepted
  <2>1. PICK k \in 1..(left \div PacketSize) : left' = left - k * PacketSize
    BY <1>5 DEF Accepted
  <2>2. PICK b \in Nat : b = k * PacketSize /\ b > 0
    <3>1. k \in Nat /\ k > 0
      BY <1>t, <2>1
    <3> QED BY <1>t, <3>1
  <2>3. pc = "play" /\ pc' = "play" /\ left' = left - b /\ retries' = retries
    BY <1>5, <2>1, <2>2 DEF Accepted
  <2> QED BY <1>t, <2>3, <2>2 DEF StepsLeft
<1>6. CASE Refused
  <2>1. pc = "play" /\ left' = left
    BY <1>6 DEF Refused
  <2>2. CASE retries < MaxRetries
    BY <1>t, <1>6, <2>1, <2>2 DEF Refused, StepsLeft
  <2>3. CASE ~(retries < MaxRetries)
    <3>1. pc' = "idle"
      BY <1>6, <2>3 DEF Refused
    <3> QED BY <1>t, <2>1, <3>1 DEF StepsLeft
  <2> QED BY <2>2, <2>3
<1>7. CASE PlayError \/ Played
  BY <1>t, <1>7 DEF PlayError, Played, StepsLeft
<1> QED BY <1>1, <1>2, <1>3, <1>4, <1>5, <1>6, <1>7 DEF Handler

\* A pause or a reset under PlayPacket never gives it more to do, and no chunk
\* comes before it has returned.
LEMMA OthersKeepSteps ==
  ASSUME pc # "idle", Pause \/ ResetVideo \/ Resume \/ UNCHANGED vars
  PROVE  StepsLeft' = StepsLeft
BY DEF Pause, ResetVideo, Resume, Reset, chunk, vars, StepsLeft

\* PlayPacket cannot go round for ever, whatever the device accepts and whatever is
\* paused or reset meanwhile: each of its steps leaves it fewer, and nothing that
\* happens in between gives it more.
THEOREM PlayPacketEnds ==
  Spec => [][pc # "idle" => /\ StepsLeft \in Nat /\ StepsLeft' <= StepsLeft
                            /\ Handler => StepsLeft' < StepsLeft]_vars
<1>1. IInv /\ IInv' /\ [Next]_vars =>
        [pc # "idle" => /\ StepsLeft \in Nat /\ StepsLeft' <= StepsLeft
                        /\ Handler => StepsLeft' < StepsLeft]_vars
  <2> SUFFICES ASSUME IInv, IInv', Next, pc # "idle"
               PROVE  /\ StepsLeft \in Nat /\ StepsLeft' <= StepsLeft
                      /\ Handler => StepsLeft' < StepsLeft
    OBVIOUS
  <2>1. StepsLeft \in Nat
    BY StepsCount
  <2>2. StepsLeft' \in Nat
    BY RetryAssumption DEF StepsLeft, IInv, TypeOK
  <2>3. Handler => StepsLeft' < StepsLeft
    BY HandlerShrinks
  <2>4. Handler \/ Pause \/ ResetVideo \/ Resume
    BY DEF Next, PlayPacket
  <2>5. ~Handler => StepsLeft' = StepsLeft
    BY <2>4, OthersKeepSteps
  <2> QED BY <2>1, <2>2, <2>3, <2>5
<1> QED BY <1>1, PacketInvariant, PTL DEF Spec
=============================================================================
