-------------------------- MODULE ThriftCallProofs --------------------------
(***************************************************************************)
(* Theorems about ThriftCall, for any callers and any older version of the *)
(* peer.  Its steps are steps of BrowserRpc, whose invariant they keep.    *)
(***************************************************************************)
EXTENDS ThriftCall, BrowserRpcProofs

\* Only the holder of the mutex has sent something.
SentByHolder == sent \subseteq Caller /\ \A c \in sent : holder = c /\ Busy(c)

\* At most one message is under way, and somebody waits for it.
OneMessage == \/ up = <<>> /\ down = <<>>
              \/ sent # {} /\ up # <<>> /\ Tail(up) = <<>> /\ down = <<>>
              \/ sent # {} /\ up = <<>> /\ down # <<>> /\ Tail(down) = <<>>

WireInv == IInv /\ SentByHolder /\ OneMessage

\* Serve, but for what it makes of the message.
LEMMA ServeParts ==
  ASSUME Serve
  PROVE  /\ link = "open" /\ up # <<>> /\ up' = Tail(up)
         /\ \E m : down' = Append(down, m)
         /\ UNCHANGED vars \/ \E c \in sent : Run(c)
         /\ sent' = sent /\ request' = request /\ service' = service /\ old' = old
<1>1. CASE old /\ Head(up).name \in Newer
  BY <1>1 DEF Serve
<1>2. CASE ~(old /\ Head(up).name \in Newer)
  <2>1. PICK outcome \in Outcomes(Methods[Head(up).name].result) :
           /\ down' = Append(down, process(Head(up), outcome))
           /\ IF Head(up).name = "ping" THEN UNCHANGED <<vars, served>>
              ELSE \E c \in sent : Run(c)
    BY <1>2 DEF Serve
  <2>2. UNCHANGED vars \/ \E c \in sent : Run(c)
    BY <2>1
  <2> QED BY <2>1, <2>2 DEF Serve
<1> QED BY <1>1, <1>2

\* Every step is one of BrowserRpc, or none of its variables changes.
LEMMA StepIsRpc ==
  ASSUME SentByHolder, [NextThrift]_tvars
  PROVE  [Next]_vars
<1>1. ASSUME NEW c \in Caller, CallStub(c) \/ Begin(c) \/ Dial(c) PROVE Next
  BY <1>1 DEF CallStub, Begin, Dial, Next, Steps
<1>2. ASSUME NEW c \in Caller, Send(c) PROVE UNCHANGED vars
  BY <1>2 DEF Send
<1>3. ASSUME NEW c \in Caller, Receive(c) PROVE Next \/ UNCHANGED vars
  BY <1>3 DEF Receive, Fails, Next, Steps
<1>4. ASSUME NEW c \in Caller, Breaks(c) PROVE Next
  BY <1>4 DEF Breaks, Next, Steps
<1>5. CASE Serve
  BY <1>5, ServeParts DEF Next, Steps, SentByHolder
<1>6. CASE PeerStops \/ PeerStarts
  BY <1>6 DEF PeerStops, PeerStarts, Next
<1>7. CASE UNCHANGED tvars
  BY <1>7 DEF tvars
<1> QED BY <1>1, <1>2, <1>3, <1>4, <1>5, <1>6, <1>7 DEF NextThrift, StepsThrift

\* An empty queue that gets a message holds only that.
LEMMA OneMessageOnly ==
  ASSUME NEW s, s = <<>>, NEW m
  PROVE  Append(s, m) # <<>> /\ Tail(Append(s, m)) = <<>> /\ Head(Append(s, m)) = m
  OBVIOUS

\* The wire is empty initially.
LEMMA InitWireInv == InitThrift => WireInv
  BY InitIInv DEF InitThrift, WireInv, SentByHolder, OneMessage

\* No step breaks the invariant of the wire.
LEMMA StepWireInv == WireInv /\ [NextThrift]_tvars => WireInv'
<1> SUFFICES ASSUME WireInv, [NextThrift]_tvars PROVE WireInv'
  OBVIOUS
<1>i. IInv'
  BY StepIsRpc, StepIInv DEF WireInv
<1>s. SentByHolder /\ OneMessage /\ HolderInside /\ sent \subseteq Caller
  BY DEF WireInv, IInv, SentByHolder
<1>1. ASSUME NEW c \in Caller, CallStub(c) PROVE WireInv'
  <2>1. sent' = sent /\ up' = up /\ down' = down /\ holder' = holder /\ pc[c] = "idle"
        /\ pc' = [pc EXCEPT ![c] = "lock"]
    BY <1>1 DEF CallStub, Call, Goto, wire
  <2>2. SentByHolder'
    BY <1>s, <2>1, <1>i DEF SentByHolder, Busy, WireInv, IInv, TypeOK
  <2> QED BY <1>i, <1>s, <2>1, <2>2 DEF WireInv, OneMessage
<1>2. ASSUME NEW c \in Caller, Begin(c) PROVE WireInv'
  <2>1. sent' = sent /\ up' = up /\ down' = down /\ holder = None
    BY <1>2 DEF Begin, Lock, wire
  <2>2. sent = {}
    BY <1>s, <2>1, NoneAssumption DEF SentByHolder
  <2> QED BY <1>i, <1>s, <2>1, <2>2 DEF WireInv, OneMessage, SentByHolder
<1>3. ASSUME NEW c \in Caller, Dial(c) PROVE WireInv'
  <2>1. sent' = sent /\ up' = up /\ down' = down /\ pc[c] = "connect"
    BY <1>3 DEF Dial, Connect, wire
  <2>2. sent = {}
    BY <1>s, <2>1 DEF SentByHolder, HolderInside, Busy
  <2> QED BY <1>i, <1>s, <2>1, <2>2 DEF WireInv, OneMessage, SentByHolder
<1>4. ASSUME NEW c \in Caller, Send(c) PROVE WireInv'
  <2>1. Busy(c) /\ c \notin sent /\ up' = Append(up, send(c)) /\ sent' = sent \cup {c}
        /\ down' = down /\ holder' = holder /\ pc' = pc
    BY <1>4 DEF Send, vars
  <2>2. holder = c
    BY <1>s, <2>1 DEF HolderInside, Busy
  <2>3. sent = {} /\ up = <<>> /\ down = <<>>
    BY <1>s, <2>1, <2>2 DEF SentByHolder, OneMessage
  <2>4. SentByHolder'
    BY <2>1, <2>2, <2>3 DEF SentByHolder, Busy
  <2>5. OneMessage'
    BY <2>1, <2>3, OneMessageOnly DEF OneMessage
  <2> QED BY <1>i, <2>4, <2>5 DEF WireInv
<1>5. ASSUME NEW c \in Caller, Receive(c) PROVE WireInv'
  <2>1. c \in sent /\ down # <<>>
    BY <1>5 DEF Receive, Readable
  <2>2. holder = c /\ sent = {c} /\ up = <<>> /\ Tail(down) = <<>>
    BY <1>s, <2>1 DEF SentByHolder, OneMessage
  <2>3. CASE recv(c, Head(down)) = "raise"
    <3>1. Closed(c)
      BY <1>5, <2>3 DEF Receive
    <3> QED BY <1>i, <2>2, <3>1 DEF Closed, WireInv, SentByHolder, OneMessage
  <2>4. CASE recv(c, Head(down)) # "raise"
    <3>1. sent' = sent \ {c} /\ down' = Tail(down) /\ up' = up
      BY <1>5, <2>4 DEF Receive
    <3> QED BY <1>i, <2>2, <3>1 DEF WireInv, SentByHolder, OneMessage
  <2> QED BY <2>3, <2>4
<1>6. ASSUME NEW c \in Caller, Breaks(c) PROVE WireInv'
  <2>1. pc[c] \in {"ping", "request"} /\ Closed(c)
    BY <1>6 DEF Breaks, Broken
  <2>2. holder = c
    BY <1>s, <2>1 DEF HolderInside
  <2>3. sent \subseteq {c}
    BY <1>s, <2>2 DEF SentByHolder
  <2> QED BY <1>i, <2>1, <2>3 DEF WireInv, SentByHolder, OneMessage, Closed
<1>7. CASE Serve
  <2>1. PICK m : down' = Append(down, m)
    BY <1>7, ServeParts
  <2>2. up # <<>> /\ up' = Tail(up) /\ sent' = sent /\ pc' = pc /\ holder' = holder
    BY <1>7, ServeParts DEF Run, vars
  <2>3. down = <<>> /\ Tail(up) = <<>> /\ sent # {}
    BY <1>s, <2>2 DEF OneMessage
  <2>4. OneMessage'
    BY <2>1, <2>2, <2>3, OneMessageOnly DEF OneMessage
  <2>5. SentByHolder'
    BY <1>s, <2>2 DEF SentByHolder, Busy
  <2> QED BY <1>i, <2>4, <2>5 DEF WireInv
<1>8. CASE PeerStops
  BY <1>8, <1>i, <1>s DEF PeerStops, BrowserStops, WireInv, SentByHolder, OneMessage, Busy
<1>9. CASE PeerStarts
  BY <1>9, <1>i, <1>s
     DEF PeerStarts, BrowserStarts, wire, WireInv, SentByHolder, OneMessage, Busy
<1>10. CASE UNCHANGED tvars
  BY <1>10, <1>i, <1>s DEF tvars, vars, wire, WireInv, SentByHolder, OneMessage, Busy
<1> QED BY <1>1, <1>2, <1>3, <1>4, <1>5, <1>6, <1>7, <1>8, <1>9, <1>10
        DEF NextThrift, StepsThrift

\* The invariant of the wire holds.
LEMMA WireInvariant == FairThrift => []WireInv
  BY InitWireInv, StepWireInv, PTL DEF FairThrift

\* Whatever breaks and whoever calls, the next caller finds an empty connection:
\* no reply is left for it to take for its own.
THEOREM WireIsDrained == FairThrift => []WireDrained
<1>1. WireInv => WireDrained
  <2> SUFFICES ASSUME WireInv, holder = None PROVE up = <<>> /\ down = <<>> /\ sent = {}
    BY DEF WireDrained
  <2>1. sent = {}
    BY NoneAssumption DEF WireInv, SentByHolder
  <2> QED BY <2>1 DEF WireInv, OneMessage
<1> QED BY <1>1, WireInvariant, PTL

-----------------------------------------------------------------------------
(* What a call is answered.                                                *)

Service == service \in {"CefBrowser", "VdrPluginWeb", "RemoteTranscoder"}
Results == {Result("bool"), Result("string")}

\* Every method of the three interfaces answers; none is called like CommonService's.
LEMMA CefResults ==
  \A m \in DOMAIN Cef!processMap : Cef!processMap[m].result \in Results /\ m # "ping"
  BY DEF Results, Result, Cef!processMap, Cef!Method, Cef!Result, Cef!LoadUrl_result,
         Cef!RedButton_result, Cef!ReloadOSD_result, Cef!StartApplication_result,
         Cef!ProcessKey_result, Cef!StreamError_result, Cef!InsertHbbtv_result,
         Cef!InsertChannel_result, Cef!StopVideo_result

\* VdrPluginWeb's methods have results, and none of them is ping.
LEMMA VdrResults ==
  \A m \in DOMAIN Vdr!processMap : Vdr!processMap[m].result \in Results /\ m # "ping"
  BY DEF Results, Result, Vdr!processMap, Vdr!Method, Vdr!Result,
         Vdr!ProcessOsdUpdate_result, Vdr!ProcessOsdUpdateQOI_result,
         Vdr!ProcessTSPacket_result, Vdr!StartVideo_result, Vdr!StopVideo_result,
         Vdr!PauseVideo_result, Vdr!ResumeVideo_result, Vdr!ResetVideo_result,
         Vdr!Seeked_result, Vdr!VideoSize_result, Vdr!VideoFullscreen_result,
         Vdr!SelectAudioTrack_result, Vdr!IsWebActive_result

\* So do RemoteTranscoder's.
LEMMA TranscoderResults ==
  \A m \in DOMAIN Transcoder!processMap :
    Transcoder!processMap[m].result \in Results /\ m # "ping"
  BY DEF Results, Result, Transcoder!processMap, Transcoder!Method, Transcoder!Result,
         Transcoder!Probe_result, Transcoder!StreamUrl_result, Transcoder!Pause_result,
         Transcoder!SeekTo_result, Transcoder!Resume_result, Transcoder!Stop_result,
         Transcoder!AudioInfo_result, Transcoder!GetVideo_result

\* The clients' functions call the methods of their interface.
LEMMA ClientsCall ==
  /\ \A r \in BrowserApi : r.method \in DOMAIN Cef!processMap
  /\ \A r \in VdrApi : r.method \in DOMAIN Vdr!processMap
  /\ \A r \in TranscoderApi : r.method \in DOMAIN Transcoder!processMap
<1>1. \A r \in BrowserApi : r.method \in DOMAIN Cef!processMap
  BY DEF BrowserApi, Same, Row, Cef!processMap
<1>2. \A r \in VdrApi : r.method \in DOMAIN Vdr!processMap
  BY DEF VdrApi, Same, Row, Vdr!processMap
<1>3. \A r \in TranscoderApi : r.method \in DOMAIN Transcoder!processMap
  BY DEF TranscoderApi, Same, Row, Transcoder!processMap
<1> QED BY <1>1, <1>2, <1>3

\* What a client calls has a result and is not ping.
LEMMA CallsAnswer ==
  ASSUME Service, NEW call \in Calls
  PROVE  call.row.method # "ping" /\ Methods[call.row.method].result \in Results
<1>1. call.row \in Api
  BY DEF Calls
<1>2. CASE service = "CefBrowser"
  BY <1>1, <1>2, CefResults, ClientsCall DEF Api, Methods
<1>3. CASE service = "VdrPluginWeb"
  BY <1>1, <1>3, VdrResults, ClientsCall DEF Api, Methods
<1>4. CASE service = "RemoteTranscoder"
  BY <1>1, <1>4, TranscoderResults, ClientsCall DEF Api, Methods
<1> QED BY <1>2, <1>3, <1>4 DEF Service

\* What the peer wrote into the result is what recv_M finds in it.
LEMMA ResultArrives ==
  ASSUME NEW R \in Results, NEW outcome \in Outcomes(R), outcome # "throw"
  PROVE  /\ outcome \in {"true", "false", "text", "err"}
         /\ ReadResult(R, WriteResult(R, outcome)) = outcome
<1>1. outcome \in {"true", "false", "text", "err"} /\ R # Result("void")
  BY DEF Results, Result, Outcomes
<1>2. CASE outcome = "err"
  <2> DEFINE f == [id |-> 1, type |-> "struct", value |-> Write(OperationFailed, <<>>)]
  <2>1. WriteResult(R, outcome) = {f}
    BY <1>2 DEF WriteResult
  <2>2. f.id = 1 /\ f.type = "struct"
    OBVIOUS
  <2> HIDE DEF f
  <2> QED BY <1>1, <1>2, <2>1, <2>2 DEF ReadResult
<1>3. CASE outcome # "err"
  <2> DEFINE f == [id |-> 0, type |-> R.success, value |-> outcome]
  <2>1. WriteResult(R, outcome) = {f}
    BY <1>1, <1>3 DEF WriteResult
  <2>2. f.id = 0 /\ f.type = R.success /\ f.value = outcome
    OBVIOUS
  <2> HIDE DEF f
  <2>3. \E g \in {f} : g.id = 0 /\ g.type = R.success
    BY <2>2
  <2>4. (CHOOSE g \in {f} : g.id = 0 /\ g.type = R.success) = f
    BY <2>2
  <2> QED BY <1>1, <2>1, <2>2, <2>3, <2>4 DEF ReadResult
<1> QED BY <1>1, <1>2, <1>3

\* m is c's, and is what came of the request that was served.
IsFor(c, m) == m.for = c /\ m.name = Asks(c)
Reports(c, m) ==
  LET R == Methods[Asks(c)].result
  IN /\ served.for = c /\ served.name = Asks(c)
     /\ served.outcome \in Outcomes(R) \ {"throw"}
     /\ m.fields = WriteResult(R, served.outcome)

TalkInv ==
  /\ Service
  /\ request \in [Caller -> Calls \cup {None}]
  /\ \A c \in Caller : pc[c] \in {"connect", "ping", "request"} => request[c] \in Calls
  /\ \A c \in Caller : pc[c] # "idle" => answer[c] = "none"
  /\ \A c \in sent : up # <<>> => IsFor(c, Head(up))
  /\ \A c \in sent : down # <<>> =>
       /\ IsFor(c, Head(down)) /\ Head(down).type \in {"exception", "reply"}
       /\ pc[c] = "request" /\ Head(down).type = "reply" => Reports(c, Head(down))

\* Nobody talks initially.
LEMMA InitTalkInv == InitThrift => TalkInv
  BY DEF InitThrift, Init, TalkInv, Service

\* The interface does not change under a call.
LEMMA SameService ==
  ASSUME service' = service
  PROVE  Calls' = Calls /\ Methods' = Methods /\ (Service => Service')
  BY DEF Calls, Api, Methods, Service

\* No step breaks the invariant of the talk.
LEMMA StepTalkInv == WireInv /\ TalkInv /\ [NextThrift]_tvars => TalkInv'
<1> SUFFICES ASSUME WireInv, TalkInv, [NextThrift]_tvars PROVE TalkInv'
  OBVIOUS
<1>w. WireInv'
  BY StepWireInv
<1>t. /\ pc \in [Caller -> {"idle", "lock", "connect", "ping", "request"}]
      /\ answer \in [Caller -> {"none", "true", "false", "failed"}]
      /\ request \in [Caller -> Calls \cup {None}]
      /\ sent \subseteq Caller /\ \A c \in sent : holder = c
  BY DEF WireInv, IInv, TypeOK, TalkInv, SentByHolder
<1>n. ASSUME sent' = {}, service' = service,
             request' \in [Caller -> Calls \cup {None}],
             \A c \in Caller : pc'[c] \in {"connect", "ping", "request"} => request'[c] \in Calls,
             \A c \in Caller : pc'[c] # "idle" => answer'[c] = "none"
      PROVE  TalkInv'
  BY <1>n, SameService DEF TalkInv
<1>1. ASSUME NEW c \in Caller, CallStub(c) PROVE TalkInv'
  <2>1. /\ pc[c] = "idle" /\ pc' = [pc EXCEPT ![c] = "lock"]
        /\ answer' = [answer EXCEPT ![c] = "none"]
        /\ service' = service /\ request' = request /\ sent' = sent /\ up' = up
        /\ down' = down /\ served' = served
    BY <1>1 DEF CallStub, Call, Goto, wire
  <2>2. \A d \in sent : d # c
    BY <2>1 DEF WireInv, SentByHolder, Busy
  <2>3. \A d \in sent : pc'[d] = pc[d] /\ Asks(d)' = Asks(d)
    BY <1>t, <2>1, <2>2 DEF Asks
  <2> QED BY <1>t, <2>1, <2>2, <2>3, SameService DEF TalkInv, IsFor, Reports
<1>2. ASSUME NEW c \in Caller, Begin(c) PROVE TalkInv'
  <2>1. /\ holder = None /\ pc[c] = "lock" /\ pc' = [pc EXCEPT ![c] = "connect"]
        /\ answer' = answer /\ service' = service /\ sent' = sent
    BY <1>2 DEF Begin, Lock, Goto, wire
  <2>2. PICK call \in Calls : request' = [request EXCEPT ![c] = call]
    BY <1>2 DEF Begin
  <2>3. sent' = {}
    BY <1>t, <2>1, NoneAssumption
  <2> QED BY <1>n, <1>t, <2>1, <2>2, <2>3 DEF TalkInv
<1>3. ASSUME NEW c \in Caller, Dial(c) PROVE TalkInv'
  <2>1. pc[c] = "connect" /\ sent' = sent /\ service' = service
    BY <1>3 DEF Dial, Connect, wire
  <2>2. sent' = {}
    BY <1>t, <2>1 DEF WireInv, IInv, HolderInside, SentByHolder, Busy
  <2>3. CASE link = "closed" /\ ~browser
    <3>1. pc' = [pc EXCEPT ![c] = "idle"] /\ answer' = [answer EXCEPT ![c] = "failed"]
      BY <1>3, <2>3 DEF Dial, Connect, Leave, Goto
    <3>2. request' = [request EXCEPT ![c] = None]
      BY <1>3, <1>t, <3>1 DEF Dial
    <3> QED BY <1>n, <1>t, <2>1, <2>2, <3>1, <3>2 DEF TalkInv
  <2>4. CASE ~(link = "closed" /\ ~browser)
    <3>1. pc' = [pc EXCEPT ![c] = "ping"] /\ answer' = answer
      BY <1>3, <2>4 DEF Dial, Connect, Goto
    <3>2. request' = request
      BY <1>3, <1>t, <3>1 DEF Dial
    <3> QED BY <1>n, <1>t, <2>1, <2>2, <3>1, <3>2 DEF TalkInv
  <2> QED BY <2>3, <2>4
<1>4. ASSUME NEW c \in Caller, Send(c) PROVE TalkInv'
  <2>1. /\ Busy(c) /\ c \notin sent /\ up' = Append(up, send(c))
        /\ sent' = sent \cup {c} /\ down' = down /\ pc' = pc /\ answer' = answer
        /\ service' = service /\ request' = request /\ served' = served
    BY <1>4 DEF Send, vars
  <2>2. sent = {} /\ up = <<>> /\ down = <<>>
    BY <1>t, <2>1 DEF Busy, WireInv, IInv, HolderInside, OneMessage
  <2>3. Head(up') = send(c)
    BY <2>1, <2>2, OneMessageOnly
  <2>4. IsFor(c, send(c)) /\ Asks(c)' = Asks(c)
    BY <2>1 DEF send, Message, IsFor, Asks
  <2> QED BY <1>t, <2>1, <2>2, <2>3, <2>4, SameService DEF TalkInv, IsFor
<1>5. ASSUME NEW c \in Caller, Receive(c) PROVE TalkInv'
  <2>1. c \in sent /\ down # <<>> /\ sent = {c} /\ Busy(c)
    BY <1>5, <1>t DEF Receive, Readable
  <2>2. IsFor(c, Head(down))
    BY <2>1 DEF TalkInv
  <2>3. CASE recv(c, Head(down)) = "raise"
    <3>1. Fails(c) /\ Closed(c)
      BY <1>5, <2>3 DEF Receive
    <3>2. /\ pc' = [pc EXCEPT ![c] = "idle"] /\ sent' = {} /\ service' = service
          /\ answer' = [answer EXCEPT ![c] = "failed"]
          /\ request' = [request EXCEPT ![c] = None]
      BY <2>1, <3>1 DEF Fails, Raise, Broken, Leave, Goto, Closed
    <3> QED BY <1>n, <1>t, <3>2 DEF TalkInv
  <2>4. CASE recv(c, Head(down)) # "raise"
    <3>2. sent' = {} /\ service' = service
      BY <1>5, <2>1, <2>4 DEF Receive
    <3>3. Ping(c) \/ Answer(c)
      BY <1>5, <2>4 DEF Receive
    <3>4. CASE Ping(c)
      <4>1. pc[c] = "ping" /\ pc' = [pc EXCEPT ![c] = "request"] /\ answer' = answer
        BY <3>4 DEF Ping, Goto
      <4>2. request' = request
        BY <1>5, <1>t, <2>4, <4>1 DEF Receive
      <4> QED BY <1>n, <1>t, <3>2, <4>1, <4>2 DEF TalkInv
    <3>5. CASE Answer(c)
      <4>1. PICK a \in {"true", "false"} : Leave(c, a)
        BY <3>5 DEF Answer
      <4>2. pc' = [pc EXCEPT ![c] = "idle"] /\ answer' = [answer EXCEPT ![c] = a]
        BY <4>1 DEF Leave, Goto
      <4>3. request' = [request EXCEPT ![c] = None]
        BY <1>5, <1>t, <2>4, <4>2 DEF Receive
      <4> QED BY <1>n, <1>t, <3>2, <4>2, <4>3 DEF TalkInv
    <3> QED BY <3>3, <3>4, <3>5
  <2> QED BY <2>3, <2>4
<1>6. ASSUME NEW c \in Caller, Breaks(c) PROVE TalkInv'
  <2>1. /\ pc[c] \in {"ping", "request"} /\ pc' = [pc EXCEPT ![c] = "idle"]
        /\ answer' = [answer EXCEPT ![c] = "failed"] /\ Closed(c)
    BY <1>6 DEF Breaks, Broken, Leave, Goto
  <2>2. sent' = {} /\ service' = service /\ request' = [request EXCEPT ![c] = None]
    BY <1>t, <2>1 DEF Closed, WireInv, IInv, HolderInside
  <2> QED BY <1>n, <1>t, <2>1, <2>2 DEF TalkInv
<1>7. CASE Serve
  <2>1. /\ up # <<>> /\ up' = Tail(up) /\ sent' = sent /\ request' = request
        /\ service' = service /\ pc' = pc /\ answer' = answer
    BY <1>7, ServeParts DEF Run, vars
  <2>2. up' = <<>> /\ down = <<>>
    BY <2>1 DEF WireInv, OneMessage
  <2>3. ASSUME NEW c \in sent
        PROVE  /\ IsFor(c, Head(down')) /\ Head(down').type \in {"exception", "reply"}
               /\ pc[c] = "request" /\ Head(down').type = "reply" => Reports(c, Head(down))'
    <3> DEFINE m == Head(up)
    <3>1. c \in Caller /\ IsFor(c, m) /\ Busy(c)
      BY <1>t, <2>1, <2>3 DEF TalkInv, WireInv, SentByHolder
    <3>2. Asks(c)' = Asks(c) /\ Methods' = Methods
      BY <2>1, SameService DEF Asks
    <3>3. CASE old /\ m.name \in Newer
      <4>1. down' = Append(down, Message(m.for, m.name, "exception", {}))
        BY <1>7, <3>3 DEF Serve
      <4>2. Head(down') = Message(m.for, m.name, "exception", {})
        BY <2>2, <4>1, OneMessageOnly
      <4> QED BY <3>1, <4>2 DEF Message, IsFor
    <3>4. CASE ~(old /\ m.name \in Newer)
      <4>1. PICK outcome \in Outcomes(Methods[m.name].result) :
              /\ down' = Append(down, process(m, outcome))
              /\ IF m.name = "ping" THEN UNCHANGED <<vars, served>>
                 ELSE served' = [for |-> m.for, name |-> m.name, outcome |-> outcome,
                                 old |-> old,
                                 input |-> ReadArgs(Known(Methods[m.name].args, old), m.fields)]
        BY <1>7, <3>4 DEF Serve
      <4>2. Head(down') = process(m, outcome)
        BY <2>2, <4>1, OneMessageOnly
      <4>3. CASE outcome = "throw"
        BY <3>1, <4>2, <4>3 DEF process, Message, IsFor
      <4>4. CASE outcome # "throw"
        <5>1. Head(down') = Message(m.for, m.name, "reply",
                                    WriteResult(Methods[m.name].result, outcome))
          BY <4>2, <4>4 DEF process
        <5>2. ASSUME pc[c] = "request" PROVE Reports(c, Head(down))'
          <6>1. m.name = Asks(c) /\ m.name # "ping"
            BY <3>1, <5>2, CallsAnswer DEF IsFor, Asks, TalkInv
          <6>2. served'.for = c /\ served'.name = Asks(c) /\ served'.outcome = outcome
            BY <3>1, <4>1, <6>1 DEF IsFor
          <6>3. Head(down').fields = WriteResult(Methods[Asks(c)].result, outcome)
            BY <5>1, <6>1 DEF Message
          <6> QED BY <3>2, <4>1, <4>4, <6>1, <6>2, <6>3 DEF Reports
        <5> QED BY <3>1, <5>1, <5>2 DEF Message, IsFor
      <4> QED BY <4>3, <4>4
    <3> QED BY <3>3, <3>4
  <2>4. \A c \in sent : IsFor(c, Head(down))' <=> IsFor(c, Head(down'))
    BY <2>1 DEF IsFor, Asks
  <2> QED BY <1>t, <2>1, <2>2, <2>3, <2>4, SameService DEF TalkInv
<1>8. CASE PeerStops
  BY <1>8, <1>t, SameService
     DEF PeerStops, BrowserStops, TalkInv, IsFor, Reports, Asks
<1>9. CASE PeerStarts
  BY <1>9, <1>t, SameService
     DEF PeerStarts, BrowserStarts, wire, TalkInv, IsFor, Reports, Asks
<1>10. CASE UNCHANGED tvars
  BY <1>10, <1>t, SameService
     DEF tvars, vars, wire, TalkInv, IsFor, Reports, Asks
<1> QED BY <1>1, <1>2, <1>3, <1>4, <1>5, <1>6, <1>7, <1>8, <1>9, <1>10
        DEF NextThrift, StepsThrift

-----------------------------------------------------------------------------
\* recv_M returns what the reply reports.
LEMMA RecvReports ==
  ASSUME TalkInv, NEW c \in Caller, pc[c] = "request", NEW m, IsFor(c, m),
         m.type = "reply", Reports(c, m)
  PROVE  recv(c, m) = IF served.outcome \in {"true", "text"} THEN "true" ELSE "false"
<1> DEFINE R == Methods[Asks(c)].result
<1>1. R \in Results
  BY CallsAnswer DEF TalkInv, Asks
<1>2. /\ served.outcome \in {"true", "false", "text", "err"}
      /\ ReadResult(R, m.fields) = served.outcome
  BY <1>1, ResultArrives DEF Reports
<1>3. recv(c, m) =
        CASE ReadResult(R, m.fields) \in {"true", "text", "void"} -> "true"
          [] ReadResult(R, m.fields) \in {"false", "err"} -> "false"
          [] OTHER -> "raise"
  BY DEF recv, IsFor
<1> HIDE DEF R
<1> QED BY <1>2, <1>3

\* What a call gets for an answer is what was served for it.
LEMMA StepAnswers ==
  ASSUME WireInv, TalkInv, NextThrift, NEW c \in Caller,
         pc[c] = "request", answer'[c] \in {"true", "false"}
  PROVE  /\ served.for = c /\ served.name = request[c].row.method
         /\ answer'[c] = IF served.outcome \in {"true", "text"} THEN "true" ELSE "false"
<1>t. /\ answer \in [Caller -> {"none", "true", "false", "failed"}]
      /\ answer[c] = "none" /\ answer' # answer
  BY DEF WireInv, IInv, TypeOK, TalkInv
<1>1. ASSUME NEW d \in Caller, CallStub(d) \/ Begin(d) \/ Dial(d) \/ Send(d) \/ Breaks(d)
      PROVE  FALSE
  <2>1. answer' = answer \/ answer' = [answer EXCEPT ![d] = "none"]
          \/ answer' = [answer EXCEPT ![d] = "failed"]
    BY <1>1 DEF CallStub, Call, Begin, Lock, Dial, Connect, Send, vars, Breaks, Broken, Leave
  <2> QED BY <1>t, <2>1
<1>2. CASE Serve \/ PeerStops \/ PeerStarts
  <2>1. answer' = answer
    BY <1>2, ServeParts DEF Run, vars, PeerStops, BrowserStops, PeerStarts, BrowserStarts
  <2> QED BY <1>t, <2>1
<1>3. ASSUME NEW d \in Caller, Receive(d)
      PROVE  /\ served.for = c /\ served.name = request[c].row.method
             /\ answer'[c] = IF served.outcome \in {"true", "text"} THEN "true" ELSE "false"
  <2>1. d \in sent /\ down # <<>>
    BY <1>3 DEF Receive, Readable
  <2>2. IsFor(d, Head(down)) /\ Head(down).type \in {"exception", "reply"}
    BY <2>1 DEF TalkInv
  <2>3. CASE recv(d, Head(down)) = "raise"
    <3>1. answer' = [answer EXCEPT ![d] = "failed"]
      BY <1>3, <2>3 DEF Receive, Fails, Raise, Broken, Leave
    <3> QED BY <1>t, <3>1
  <2>4. CASE recv(d, Head(down)) # "raise"
    <3>2. Ping(d) \/ (Answer(d) /\ answer'[d] = recv(d, Head(down)))
      BY <1>3, <2>4 DEF Receive
    <3>3. Answer(d) /\ answer'[d] = recv(d, Head(down))
      BY <1>t, <3>2 DEF Ping
    <3>4. c = d
      BY <1>t, <3>3 DEF Answer, Leave
    <3>5. Head(down).type = "reply"
      BY <2>2, <2>4 DEF recv
    <3>6. Reports(c, Head(down))
      BY <2>1, <3>4, <3>5 DEF TalkInv
    <3>7. served.for = c /\ served.name = request[c].row.method
      BY <3>6 DEF Reports, Asks
    <3> QED BY <2>2, <3>3, <3>4, <3>5, <3>6, <3>7, RecvReports
  <2> QED BY <2>3, <2>4
<1> QED BY <1>1, <1>2, <1>3 DEF NextThrift, StepsThrift

\* The invariant of the talk holds.
LEMMA TalkInvariant == FairThrift => []TalkInv
  BY InitTalkInv, StepTalkInv, WireInvariant, PTL DEF FairThrift

\* A call returns what the peer made of this very request, although nobody looks
\* at the sequence numbers, whatever was lost, refused or answered before.
THEOREM AnswersAreForCalls == FairThrift => AnswerIsForCall
<1>1. WireInv /\ TalkInv /\ [NextThrift]_tvars =>
        [\A c \in Caller : pc[c] = "request" /\ answer'[c] \in {"true", "false"}
           => /\ served.for = c /\ served.name = request[c].row.method
              /\ answer'[c] = IF served.outcome \in {"true", "text"} THEN "true" ELSE "false"
        ]_tvars
  BY StepAnswers
<1> QED BY <1>1, WireInvariant, TalkInvariant, PTL DEF FairThrift, AnswerIsForCall

\* ThriftCall's behaviours are BrowserRpc's, and so keep what was proved of them.
THEOREM ThriftIsRpc == FairThrift => Spec
<1>1. InitThrift => Init
  BY DEF InitThrift
<1>2. WireInv /\ [NextThrift]_tvars => [Next]_vars
  BY StepIsRpc DEF WireInv
<1> QED BY <1>1, <1>2, WireInvariant, PTL DEF FairThrift, Spec

\* With messages that are lost and peers that are older, a client still keeps
\* RemoteCall's promise: at most one request is run at a time, and true is only
\* answered for one that was.
THEOREM ThriftImplementsRemoteCall == FairThrift => ImplementsRemoteCall
  BY ThriftIsRpc, RpcImplementsRemoteCall, PTL

-----------------------------------------------------------------------------
(* What the handler gets for a request.                                    *)

\* The struct a method takes has the fields the client's function sets, in the
\* same order and each once.
Fits(fields, A) ==
  \A a \in DOMAIN A :
    /\ a = 1 /\ DOMAIN A[a] = DOMAIN fields
    /\ \A i \in DOMAIN fields : A[a][i].name = fields[i]
    /\ \A i, j \in DOMAIN fields : fields[i] = fields[j] => i = j

\* What was put into a struct is what the peer reads, an empty value included, for
\* the fields K that it knows of the fields S.
LEMMA StructArrives ==
  ASSUME NEW S, NEW K, NEW value,
         DOMAIN K \subseteq DOMAIN S, \A i \in DOMAIN K : K[i] = S[i],
         \A i, j \in DOMAIN S : S[i].name = S[j].name => i = j,
         NEW i \in DOMAIN K
  PROVE  Read(K, Write(S, value))[S[i].name] = Get(value, S[i].name)
<1> DEFINE name == S[i].name
           fields == Write(S, value)
           Is(f) == \E k \in DOMAIN K : f.id = k /\ f.type = K[k].type /\ K[k].name = name
<1>1. name \in Names(K)
  BY DEF Names
<1>2. Read(K, fields)[name] =
        IF \E f \in fields, k \in DOMAIN K :
             f.id = k /\ f.type = K[k].type /\ K[k].name = name
        THEN (CHOOSE f \in fields : \E k \in DOMAIN K :
                f.id = k /\ f.type = K[k].type /\ K[k].name = name).value
        ELSE ""
  BY <1>1 DEF Read
<1>3. ASSUME NEW f \in fields, Is(f) PROVE f.value = Get(value, name)
  BY <1>3 DEF Write
<1>4. CASE \E f \in fields : Is(f)
  BY <1>2, <1>3, <1>4
<1>5. CASE ~\E f \in fields : Is(f)
  <2>1. name \notin DOMAIN value
    <3> SUFFICES ASSUME name \in DOMAIN value PROVE FALSE
      OBVIOUS
    <3> DEFINE f == [id |-> i, type |-> S[i].type, value |-> Get(value, name)]
    <3>1. f \in fields
      BY DEF Write
    <3>2. Is(f)
      OBVIOUS
    <3> QED BY <1>5, <3>1, <3>2
  <2> QED BY <1>2, <1>5, <2>1 DEF Get
<1> QED BY <1>4, <1>5

\* The stub sends each argument in the field it is for.
LEMMA InputFits ==
  ASSUME NEW call, NEW i \in DOMAIN call.row.fields,
         \A j, k \in DOMAIN call.row.fields :
           call.row.fields[j] = call.row.fields[k] => j = k
  PROVE  Get(Input(call), call.row.fields[i]) = Argument(call, i)
<1> DEFINE fields == call.row.fields
           filled == {j \in DOMAIN fields : Argument(call, j) # ""}
           names == {fields[j] : j \in filled}
<1>1. Input(call) = [name \in names |->
                       Argument(call, CHOOSE j \in filled : fields[j] = name)]
  BY DEF Input
<1>2. CASE Argument(call, i) # ""
  <2>1. i \in filled /\ fields[i] \in names
    BY <1>2
  <2>2. (CHOOSE j \in filled : fields[j] = fields[i]) = i
    BY <2>1
  <2> HIDE DEF names, filled
  <2> QED BY <1>1, <2>1, <2>2 DEF Get
<1>3. CASE Argument(call, i) = ""
  <2>1. fields[i] \notin names
    BY <1>3
  <2> HIDE DEF names, filled
  <2> QED BY <1>1, <1>3, <2>1 DEF Get
<1> QED BY <1>2, <1>3

\* The struct of a method goes over the wire whole, as far as the peer knows it.
LEMMA RequestArrives ==
  ASSUME NEW A, NEW call, Fits(call.row.fields, A), NEW older,
         NEW a \in DOMAIN A, NEW i \in DOMAIN Known(A, older)[a]
  PROVE  ReadArgs(Known(A, older), WriteArgs(A, Input(call)))[A[a][i].name] = Argument(call, i)
<1> DEFINE K == Known(A, older)
           input == Input(call)
           m == [id |-> 1, type |-> "struct", value |-> Write(A[1], input)]
<1>1. a = 1 /\ DOMAIN A = {1} /\ i \in DOMAIN A[1]
  <2>1. a = 1 /\ \A b \in DOMAIN A : b = 1
    BY DEF Fits
  <2>2. DOMAIN Known(A, older)[a] \subseteq DOMAIN A[a]
    BY DEF Known
  <2> QED BY <2>1, <2>2
<1>2. WriteArgs(A, input) = {m}
  BY <1>1 DEF WriteArgs
<1>3. /\ DOMAIN K = {1} /\ DOMAIN K[1] \subseteq DOMAIN A[1]
      /\ \A j \in DOMAIN K[1] : K[1][j] = A[1][j]
  BY <1>1 DEF Known
<1>4. K # NoArgs
  <2>1. DOMAIN NoArgs = {}
    BY DEF NoArgs
  <2> QED BY <1>3, <2>1
<1>5. m.id = 1 /\ m.type = "struct" /\ m.value = Write(A[1], input)
  OBVIOUS
<1>6. i \in DOMAIN K[1]
  BY <1>1
<1> HIDE DEF K, m, input
<1>7. ReadArgs(K, {m}) = Read(K[1], Write(A[1], input))
  <2>1. \E f \in {m} : K # NoArgs /\ f.id = 1 /\ f.type = "struct"
    BY <1>4, <1>5
  <2>2. (CHOOSE f \in {m} : f.id = 1) = m
    BY <1>5
  <2> QED BY <1>5, <2>1, <2>2 DEF ReadArgs
<1>8. \A j, k \in DOMAIN A[1] : A[1][j].name = A[1][k].name => j = k
  BY <1>1 DEF Fits
<1>9. Read(K[1], Write(A[1], input))[A[1][i].name] = Get(input, A[1][i].name)
  BY <1>3, <1>6, <1>8, StructArrives
<1>10. Get(input, A[1][i].name) = Argument(call, i)
  BY <1>1, InputFits DEF Fits, input
<1> QED BY <1>1, <1>2, <1>7, <1>9, <1>10 DEF K, input

\* A struct of strings fits the client's function that names its fields.
LEMMA StringsFit ==
  ASSUME NEW names, \A i, j \in DOMAIN names : names[i] = names[j] => i = j
  PROVE  /\ Fits(names, Cef!Args(Cef!Strings(names)))
         /\ Fits(names, Vdr!Args(Vdr!Strings(names)))
         /\ Fits(names, Transcoder!Args(Transcoder!Strings(names)))
<1>1. ASSUME NEW T, DOMAIN T = DOMAIN names, \A i \in DOMAIN names : T[i].name = names[i]
      PROVE  Fits(names, <<T>>)
  BY <1>1 DEF Fits
<1> QED
  BY <1>1 DEF Cef!Args, Cef!Strings, Cef!Field, Vdr!Args, Vdr!Strings, Vdr!Field,
     Transcoder!Args, Transcoder!Strings, Transcoder!Field

\* So do the structs of the browser's methods.
LEMMA BrowserFits == \A r \in BrowserApi : Fits(r.fields, Cef!processMap[r.method].args)
<1> SUFFICES ASSUME NEW r \in BrowserApi PROVE Fits(r.fields, Cef!processMap[r.method].args)
  OBVIOUS
<1> USE DEF Same, Row, Cef!processMap, Cef!Method
<1>1. CASE r = Same("LoadUrl", <<"url">>)
  BY <1>1, StringsFit DEF Cef!LoadUrl_args, Cef!LoadUrlType
<1>2. CASE r = Same("RedButton", <<"channelId">>)
  BY <1>2, StringsFit DEF Cef!RedButton_args, Cef!RedButtonType
<1>3. CASE r = Same("ReloadOSD", <<>>)
  BY <1>3 DEF Cef!ReloadOSD_args, Cef!NoArgs, Fits
<1>4. CASE r = Same("StartApplication", <<"channelId", "appId", "appCookie", "appReferrer",
                                          "appUserAgent", "url">>)
  <2> DEFINE T == Cef!StartApplicationType
  <2>1. /\ DOMAIN T = 1..6 /\ DOMAIN r.fields = 1..6
        /\ \A i \in 1..6 : T[i].name = r.fields[i]
        /\ \A i, j \in 1..6 : r.fields[i] = r.fields[j] => i = j
    BY <1>4 DEF Cef!StartApplicationType, Cef!Field, Cef!Optional
  <2>2. Cef!processMap[r.method].args = <<T>>
    BY <1>4 DEF Cef!StartApplication_args, Cef!Args
  <2> HIDE DEF T
  <2> QED BY <2>1, <2>2 DEF Fits
<1>5. CASE r = Same("ProcessKey", <<"key">>)
  BY <1>5, StringsFit DEF Cef!ProcessKey_args, Cef!ProcessKeyType
<1>6. CASE r = Same("StreamError", <<"reason">>)
  BY <1>6, StringsFit DEF Cef!StreamError_args, Cef!StreamErrorType
<1>7. CASE r = Same("InsertHbbtv", <<"hbbtv">>)
  BY <1>7, StringsFit DEF Cef!InsertHbbtv_args, Cef!InsertHbbtvType
<1>8. CASE r = Same("InsertChannel", <<"channel">>)
  BY <1>8, StringsFit DEF Cef!InsertChannel_args, Cef!InsertChannelType
<1>9. CASE r = Same("StopVideo", <<"reason">>)
  BY <1>9, StringsFit DEF Cef!StopVideo_args, Cef!StopVideoType
<1> QED
  BY <1>1, <1>2, <1>3, <1>4, <1>5, <1>6, <1>7, <1>8, <1>9 DEF BrowserApi

\* The structs of the plugin's methods fit.
LEMMA VdrFits == \A r \in VdrApi : Fits(r.fields, Vdr!processMap[r.method].args)
<1> SUFFICES ASSUME NEW r \in VdrApi PROVE Fits(r.fields, Vdr!processMap[r.method].args)
  OBVIOUS
<1> USE DEF Same, Row, Vdr!processMap, Vdr!Method
<1>1. CASE r = Same("ProcessOsdUpdate", <<"disp_width", "disp_height", "x", "y",
                      "width", "height", "data">>)
  <2> DEFINE T == Vdr!ProcessOsdUpdateType
  <2>1. /\ DOMAIN T = 1..7 /\ DOMAIN r.fields = 1..7
        /\ \A i \in 1..7 : T[i].name = r.fields[i]
        /\ \A i, j \in 1..7 : r.fields[i] = r.fields[j] => i = j
    BY <1>1 DEF Vdr!ProcessOsdUpdateType, Vdr!Field
  <2>2. Vdr!processMap[r.method].args = <<T>>
    BY <1>1 DEF Vdr!ProcessOsdUpdate_args, Vdr!Args
  <2> HIDE DEF T
  <2> QED BY <2>1, <2>2 DEF Fits
<1>2. CASE r = Row("ProcessOsdUpdateQOI", <<"disp_width", "disp_height", "x", "y",
                      "imageQoi">>, <<"render_width", "render_height", "x", "y",
                      "image_data">>)
  <2> DEFINE T == Vdr!ProcessOsdUpdateQOIType
  <2>1. /\ DOMAIN T = 1..5 /\ DOMAIN r.fields = 1..5
        /\ \A i \in 1..5 : T[i].name = r.fields[i]
        /\ \A i, j \in 1..5 : r.fields[i] = r.fields[j] => i = j
    BY <1>2 DEF Vdr!ProcessOsdUpdateQOIType, Vdr!Field
  <2>2. Vdr!processMap[r.method].args = <<T>>
    BY <1>2 DEF Vdr!ProcessOsdUpdateQOI_args, Vdr!Args
  <2> HIDE DEF T
  <2> QED BY <2>1, <2>2 DEF Fits
<1>3. CASE r = Row("ProcessTSPacket", <<"packets">>, <<"ts">>)
  <2> DEFINE T == Vdr!ProcessTSPacketType
  <2>1. /\ DOMAIN T = 1..1 /\ DOMAIN r.fields = 1..1
        /\ \A i \in 1..1 : T[i].name = r.fields[i]
        /\ \A i, j \in 1..1 : r.fields[i] = r.fields[j] => i = j
    BY <1>3 DEF Vdr!ProcessTSPacketType, Vdr!Field
  <2>2. Vdr!processMap[r.method].args = <<T>>
    BY <1>3 DEF Vdr!ProcessTSPacket_args, Vdr!Args
  <2> HIDE DEF T
  <2> QED BY <2>1, <2>2 DEF Fits
<1>4. CASE r = Same("StartVideo", <<"videoInfo">>)
  BY <1>4, StringsFit DEF Vdr!StartVideo_args, Vdr!StartVideoType
<1>5. CASE r = Same("StopVideo", <<>>)
  BY <1>5 DEF Vdr!StopVideo_args, Vdr!NoArgs, Fits
<1>6. CASE r = Same("PauseVideo", <<>>)
  BY <1>6 DEF Vdr!PauseVideo_args, Vdr!NoArgs, Fits
<1>7. CASE r = Same("ResumeVideo", <<>>)
  BY <1>7 DEF Vdr!ResumeVideo_args, Vdr!NoArgs, Fits
<1>8. CASE r = Same("ResetVideo", <<"videoInfo">>)
  BY <1>8, StringsFit DEF Vdr!ResetVideo_args, Vdr!ResetVideoType
<1>9. CASE r = Same("Seeked", <<>>)
  BY <1>9 DEF Vdr!Seeked_args, Vdr!NoArgs, Fits
<1>10. CASE r = Same("VideoSize", <<"x", "y", "w", "h">>)
  <2> DEFINE T == Vdr!VideoSizeType
  <2>1. /\ DOMAIN T = 1..4 /\ DOMAIN r.fields = 1..4
        /\ \A i \in 1..4 : T[i].name = r.fields[i]
        /\ \A i, j \in 1..4 : r.fields[i] = r.fields[j] => i = j
    BY <1>10 DEF Vdr!VideoSizeType, Vdr!Field
  <2>2. Vdr!processMap[r.method].args = <<T>>
    BY <1>10 DEF Vdr!VideoSize_args, Vdr!Args
  <2> HIDE DEF T
  <2> QED BY <2>1, <2>2 DEF Fits
<1>11. CASE r = Same("VideoFullscreen", <<>>)
  BY <1>11 DEF Vdr!VideoFullscreen_args, Vdr!NoArgs, Fits
<1>12. CASE r = Row("SelectAudioTrack", <<"nr">>, <<"audioTrack">>)
  BY <1>12, StringsFit DEF Vdr!SelectAudioTrack_args, Vdr!SelectAudioTrackType
<1>13. CASE r = Same("IsWebActive", <<>>)
  BY <1>13 DEF Vdr!IsWebActive_args, Vdr!NoArgs, Fits
<1> QED
  BY <1>1, <1>2, <1>3, <1>4, <1>5, <1>6, <1>7, <1>8, <1>9, <1>10, <1>11, <1>12, <1>13 DEF VdrApi

\* The structs of the transcoder's methods fit.
LEMMA TranscoderFits == \A r \in TranscoderApi : Fits(r.fields, Transcoder!processMap[r.method].args)
<1> SUFFICES ASSUME NEW r \in TranscoderApi PROVE Fits(r.fields, Transcoder!processMap[r.method].args)
  OBVIOUS
<1> USE DEF Same, Row, Transcoder!processMap, Transcoder!Method
<1>1. CASE r = Same("Probe", <<"url", "cookies", "referer", "userAgent",
                      "responseIp", "responsePort", "vdrIp", "vdrPort", "postfix">>)
  BY <1>1, StringsFit DEF Transcoder!Probe_args, Transcoder!ProbeType
<1>2. CASE r = Same("StreamUrl", <<"url", "cookies", "referer", "userAgent",
                      "responseIp", "responsePort", "vdrIp", "vdrPort",
                      "mpdStart">>)
  BY <1>2, StringsFit DEF Transcoder!StreamUrl_args, Transcoder!StreamUrlType
<1>3. CASE r = Same("Pause", <<"streamId">>)
  BY <1>3, StringsFit DEF Transcoder!Pause_args, Transcoder!PauseType
<1>4. CASE r = Same("SeekTo", <<"streamId", "seekTo">>)
  BY <1>4, StringsFit DEF Transcoder!SeekTo_args, Transcoder!SeekToType
<1>5. CASE r = Same("Resume", <<"streamId", "position">>)
  BY <1>5, StringsFit DEF Transcoder!Resume_args, Transcoder!ResumeType
<1>6. CASE r = Same("Stop", <<"streamId", "reason">>)
  BY <1>6, StringsFit DEF Transcoder!Stop_args, Transcoder!StopType
<1>7. CASE r = Same("AudioInfo", <<"streamId">>)
  BY <1>7, StringsFit DEF Transcoder!AudioInfo_args, Transcoder!AudioInfoType
<1>8. CASE r = Same("GetVideo", <<"filename">>)
  BY <1>8, StringsFit DEF Transcoder!GetVideo_args, Transcoder!VideoType
<1> QED
  BY <1>1, <1>2, <1>3, <1>4, <1>5, <1>6, <1>7, <1>8 DEF TranscoderApi

\* What a client's function sets are the fields of the method it calls.
LEMMA CallFits ==
  ASSUME Service, NEW call \in Calls
  PROVE  Fits(call.row.fields, Methods[call.row.method].args)
<1>1. call.row \in Api
  BY DEF Calls
<1>2. CASE service = "CefBrowser"
  BY <1>1, <1>2, BrowserFits, ClientsCall, CefResults DEF Api, Methods
<1>3. CASE service = "VdrPluginWeb"
  BY <1>1, <1>3, VdrFits, ClientsCall, VdrResults DEF Api, Methods
<1>4. CASE service = "RemoteTranscoder"
  BY <1>1, <1>4, TranscoderFits, ClientsCall, TranscoderResults DEF Api, Methods
<1> QED BY <1>2, <1>3, <1>4 DEF Service

\* What goes to the peer is the caller's request, and what was run is read from it.
Delivered(c) ==
  LET A == Methods[request[c].row.method].args
  IN served.input = ReadArgs(Known(A, served.old), WriteArgs(A, Input(request[c])))

ArgsInv ==
  /\ \A c \in sent : up # <<>> => Head(up) = send(c)
  /\ \A c \in Caller : ran /\ pc[c] = "request" => Delivered(c)

\* What a caller sends depends on its own request only.
LEMMA SameRequest ==
  ASSUME NEW c, service' = service, request'[c] = request[c], pc'[c] = pc[c]
  PROVE  send(c)' = send(c) /\ (served' = served => Delivered(c)' = Delivered(c))
<1>1. Methods' = Methods /\ Asks(c)' = Asks(c)
  BY SameService DEF Asks
<1>2. Input(request[c])' = Input(request[c])
  BY DEF Input, Argument
<1>3. send(c)' = send(c)
  BY <1>1, <1>2 DEF send, Message
<1>4. ASSUME served' = served PROVE Delivered(c)' = Delivered(c)
  BY <1>1, <1>2, <1>4 DEF Delivered
<1> QED BY <1>3, <1>4

\* No step breaks it.
LEMMA StepArgsInv == WireInv /\ TalkInv /\ ArgsInv /\ [NextThrift]_tvars => ArgsInv'
<1> SUFFICES ASSUME WireInv, TalkInv, ArgsInv, [NextThrift]_tvars PROVE ArgsInv'
  OBVIOUS
<1>t. /\ pc \in [Caller -> {"idle", "lock", "connect", "ping", "request"}]
      /\ sent \subseteq Caller
      /\ \A c \in sent : holder = c /\ Busy(c)
      /\ \A c \in Caller : pc[c] \in {"connect", "ping", "request"} <=> holder = c
      /\ ran => holder # None /\ pc[holder] = "request"
  BY DEF WireInv, IInv, TypeOK, HolderInside, SentByHolder
<1>n. ASSUME sent' = {}, ~ran' PROVE ArgsInv'
  BY <1>n DEF ArgsInv
<1>k. ASSUME service' = service, request' = request, up' = up \/ up' = <<>>, sent' = sent,
             served' = served, ran' = ran, pc' = pc
      PROVE  ArgsInv'
  BY <1>k, SameRequest DEF ArgsInv
<1>1. ASSUME NEW c \in Caller, CallStub(c) PROVE ArgsInv'
  <2>1. /\ pc[c] = "idle" /\ pc' = [pc EXCEPT ![c] = "lock"] /\ ran' = ran
        /\ service' = service /\ request' = request /\ sent' = sent /\ up' = up
        /\ served' = served
    BY <1>1 DEF CallStub, Call, Goto, wire
  <2>2. \A d \in Caller : pc'[d] = "request" => pc[d] = "request"
    BY <1>t, <2>1
  <2>3. \A d \in sent : pc'[d] = pc[d]
    BY <1>t, <2>1 DEF Busy
  <2> QED BY <2>1, <2>2, <2>3, SameRequest DEF ArgsInv
<1>2. ASSUME NEW c \in Caller, Begin(c) \/ Dial(c) PROVE ArgsInv'
  <2>1. sent' = sent /\ (ran' = ran \/ ~ran')
    BY <1>2 DEF Begin, Lock, Dial, Connect, Leave, wire
  <2>2. holder = None \/ (holder = c /\ pc[c] = "connect")
    BY <1>t, <1>2 DEF Begin, Lock, Dial, Connect
  <2>3. sent = {} /\ ~ran
    BY <1>t, <2>2, NoneAssumption DEF Busy
  <2> QED BY <1>n, <2>1, <2>3
<1>3. ASSUME NEW c \in Caller, Send(c) PROVE ArgsInv'
  <2>1. /\ Busy(c) /\ c \notin sent /\ up' = Append(up, send(c)) /\ sent' = sent \cup {c}
        /\ pc' = pc /\ ran' = ran /\ service' = service /\ request' = request
        /\ served' = served
    BY <1>3 DEF Send, vars
  <2>2. sent = {} /\ up = <<>>
    BY <1>t, <2>1 DEF Busy, WireInv, OneMessage
  <2>3. Head(up') = send(c)
    BY <2>1, <2>2, OneMessageOnly
  <2> QED BY <2>1, <2>2, <2>3, SameRequest DEF ArgsInv
<1>4. ASSUME NEW c \in Caller, Receive(c) PROVE ArgsInv'
  <2>1. c \in sent /\ sent = {c} /\ down # <<>>
    BY <1>4, <1>t DEF Receive, Readable
  <2>2. IsFor(c, Head(down))
    BY <2>1 DEF TalkInv
  <2>3. CASE recv(c, Head(down)) = "raise"
    BY <1>4, <1>n, <2>1, <2>3 DEF Receive, Fails, Raise, Broken, Leave, Closed
  <2>4. CASE recv(c, Head(down)) # "raise"
    <3>2. sent' = {}
      BY <1>4, <2>1, <2>4 DEF Receive
    <3>3. Ping(c) \/ Answer(c)
      BY <1>4, <2>4 DEF Receive
    <3>4. ~ran'
      BY <1>t, <2>1, <3>3 DEF Ping, Answer, Leave
    <3> QED BY <1>n, <3>2, <3>4
  <2> QED BY <2>3, <2>4
<1>5. ASSUME NEW c \in Caller, Breaks(c) PROVE ArgsInv'
  <2>1. sent' = sent \ {c} /\ ~ran' /\ pc[c] \in {"ping", "request"}
    BY <1>5 DEF Breaks, Broken, Leave, Closed
  <2>2. sent' = {}
    BY <1>t, <2>1
  <2> QED BY <1>n, <2>1, <2>2
<1>6. CASE Serve
  <2> DEFINE m == Head(up)
             A == Methods[m.name].args
  <2>1. /\ up # <<>> /\ up' = Tail(up) /\ sent' = sent /\ request' = request
        /\ service' = service /\ pc' = pc /\ holder' = holder
    BY <1>6, ServeParts DEF Run, vars
  <2>2. up' = <<>>
    BY <2>1 DEF WireInv, OneMessage
  <2>3. CASE UNCHANGED <<vars, served>>
    BY <1>k, <2>1, <2>2, <2>3 DEF vars
  <2>4. CASE ~UNCHANGED <<vars, served>>
    <3>1. /\ m.name # "ping"
          /\ \E c \in sent : Run(c)
          /\ served'.input = ReadArgs(Known(A, old), m.fields) /\ served'.old = old
      <4>1. ~(old /\ m.name \in Newer)
        BY <1>6, <2>4 DEF Serve
      <4>2. PICK outcome \in Outcomes(Methods[m.name].result) :
              IF m.name = "ping" THEN UNCHANGED <<vars, served>>
              ELSE /\ \E c \in sent : Run(c)
                   /\ served' = [for |-> m.for, name |-> m.name, outcome |-> outcome,
                                 old |-> old, input |-> ReadArgs(Known(A, old), m.fields)]
        BY <1>6, <4>1 DEF Serve
      <4> QED BY <2>4, <4>2
    <3>2. ASSUME NEW c \in Caller, pc[c] = "request" PROVE Delivered(c)'
      <4>1. c \in sent
        BY <1>t, <3>1, <3>2 DEF Busy
      <4>2. m = send(c)
        BY <2>1, <4>1 DEF ArgsInv
      <4>3. m.name = request[c].row.method /\ m.fields = WriteArgs(A, Input(request[c]))
        BY <3>2, <4>2 DEF send, Message, Asks
      <4>4. Methods' = Methods /\ Input(request[c])' = Input(request[c])
        BY <2>1, SameService DEF Input, Argument
      <4> HIDE DEF m
      <4> QED BY <2>1, <3>1, <4>3, <4>4 DEF Delivered
    <3> QED BY <2>1, <2>2, <3>2 DEF ArgsInv
  <2> QED BY <2>3, <2>4
<1>7. CASE PeerStops \/ PeerStarts
  BY <1>7, <1>k DEF PeerStops, BrowserStops, PeerStarts, BrowserStarts, wire
<1>8. CASE UNCHANGED tvars
  BY <1>8, <1>k DEF tvars, vars, wire
<1> QED BY <1>1, <1>2, <1>3, <1>4, <1>5, <1>6, <1>7, <1>8 DEF NextThrift, StepsThrift

\* The handler gets the caller's arguments as the interface orders them, an empty
\* url included, however many fields the peer's version of the struct has.
THEOREM ArgumentsDoArrive == FairThrift => []ArgumentsArrive
<1>1. InitThrift => ArgsInv
  BY DEF InitThrift, Init, ArgsInv
<1>2. TalkInv /\ ArgsInv => ArgumentsArrive
  <2> SUFFICES ASSUME TalkInv, ArgsInv, NEW c \in Caller, ran, pc[c] = "request",
                      NEW a \in DOMAIN Methods[request[c].row.method].args,
                      NEW i \in DOMAIN Known(Methods[request[c].row.method].args, served.old)[a]
               PROVE  served.input[Methods[request[c].row.method].args[a][i].name]
                        = Argument(request[c], i)
    BY DEF ArgumentsArrive
  <2> DEFINE A == Methods[request[c].row.method].args
  <2>1. Fits(request[c].row.fields, A)
    BY CallFits DEF TalkInv
  <2>2. served.input = ReadArgs(Known(A, served.old), WriteArgs(A, Input(request[c])))
    BY DEF ArgsInv, Delivered
  <2> HIDE DEF A
  <2>3. a \in DOMAIN A /\ i \in DOMAIN Known(A, served.old)[a]
    BY DEF A
  <2>4. served.input[A[a][i].name] = Argument(request[c], i)
    BY <2>1, <2>2, <2>3, RequestArrives
  <2> QED BY <2>4 DEF A
<1> QED
  BY <1>1, <1>2, StepArgsInv, WireInvariant, TalkInvariant, PTL DEF FairThrift
=============================================================================
