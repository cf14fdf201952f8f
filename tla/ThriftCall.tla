----------------------------- MODULE ThriftCall -----------------------------
(***************************************************************************)
(* BrowserRpc with what goes over the connection: the three clients of     *)
(* thrift-services/src-client, the messages their generated stubs send and *)
(* wait for, and the processor at the other end.  Each step is a step of   *)
(* BrowserRpc or leaves its variables alone.  The peer may be of an older  *)
(* version, with fewer methods and without the optional fields.            *)
(***************************************************************************)
EXTENDS BrowserRpc, ThriftStruct

CONSTANT Newer   \* the methods that an older peer does not have

VARIABLES
  service,  \* whose client and server
  old,      \* the peer is older
  request,  \* what each caller asks for
  sent,     \* the callers that have sent and not received yet
  up, down, \* the messages on their way to the peer, and back
  served    \* history: the request the peer ran, and what came of it

wire  == <<sent, up, down, served>>
tvars == <<vars, service, old, request, wire>>

Cef == INSTANCE CefBrowser
Vdr == INSTANCE VdrPluginWeb
Transcoder == INSTANCE RemoteTranscoder

-----------------------------------------------------------------------------
(* The clients' functions: the method, and the field each parameter sets.  *)

Row(method, params, fields) == [method |-> method, params |-> params, fields |-> fields]
Same(method, params) == Row(method, params, params)

BrowserApi ==
  {Same("LoadUrl", <<"url">>), Same("RedButton", <<"channelId">>),
   Same("ReloadOSD", <<>>),
   Same("StartApplication", <<"channelId", "appId", "appCookie", "appReferrer",
                              "appUserAgent", "url">>),
   Same("ProcessKey", <<"key">>), Same("StreamError", <<"reason">>),
   Same("InsertHbbtv", <<"hbbtv">>), Same("InsertChannel", <<"channel">>),
   Same("StopVideo", <<"reason">>)}

VdrApi ==
  {Same("ProcessOsdUpdate", <<"disp_width", "disp_height", "x", "y", "width",
                              "height", "data">>),
   Row("ProcessOsdUpdateQOI", <<"disp_width", "disp_height", "x", "y", "imageQoi">>,
                       <<"render_width", "render_height", "x", "y", "image_data">>),
   Row("ProcessTSPacket", <<"packets">>, <<"ts">>),
   Same("StartVideo", <<"videoInfo">>), Same("StopVideo", <<>>),
   Same("PauseVideo", <<>>), Same("ResumeVideo", <<>>),
   Same("ResetVideo", <<"videoInfo">>), Same("Seeked", <<>>),
   Same("VideoSize", <<"x", "y", "w", "h">>), Same("VideoFullscreen", <<>>),
   Row("SelectAudioTrack", <<"nr">>, <<"audioTrack">>), Same("IsWebActive", <<>>)}

TranscoderApi ==
  {Same("Probe", <<"url", "cookies", "referer", "userAgent", "responseIp",
                   "responsePort", "vdrIp", "vdrPort", "postfix">>),
   Same("StreamUrl", <<"url", "cookies", "referer", "userAgent", "responseIp",
                       "responsePort", "vdrIp", "vdrPort", "mpdStart">>),
   Same("Pause", <<"streamId">>), Same("SeekTo", <<"streamId", "seekTo">>),
   Same("Resume", <<"streamId", "position">>), Same("Stop", <<"streamId", "reason">>),
   Same("AudioInfo", <<"streamId">>), Same("GetVideo", <<"filename">>)}

Api == CASE service = "CefBrowser"       -> BrowserApi
         [] service = "VdrPluginWeb"     -> VdrApi
         [] service = "RemoteTranscoder" -> TranscoderApi

\* CommonServiceProcessor has ping.
ping_args   == NoArgs
ping_result == Result("void")
Methods ==
  LET processMap == CASE service = "CefBrowser"       -> Cef!processMap
                      [] service = "VdrPluginWeb"     -> Vdr!processMap
                      [] service = "RemoteTranscoder" -> Transcoder!processMap
  IN [m \in {"ping"} \cup DOMAIN processMap |->
        IF m = "ping" THEN Method(ping_args, ping_result) ELSE processMap[m]]

\* A call: every argument its own value, or the last one empty.
Calls == UNION {{[row |-> r, empty |-> FALSE], [row |-> r, empty |-> r.params # <<>>]} : r \in Api}
Argument(call, i) == IF call.empty /\ i = Len(call.row.params) THEN ""
                     ELSE call.row.params[i]

\* Mutant: url is copied, but not marked as set.
InputNotMarked(call) ==
  LET struct == Methods[call.row.method].args
      filled == {i \in DOMAIN call.row.fields : ~struct[1][i].optional}
  IN [name \in {call.row.fields[i] : i \in filled} |->
        Argument(call, CHOOSE i \in filled : call.row.fields[i] = name)]

\* The struct that is passed to the stub; an empty url is not marked as set.
Input(call) ==
  LET filled == {i \in DOMAIN call.row.fields : Argument(call, i) # ""}
  IN [name \in {call.row.fields[i] : i \in filled} |->
        Argument(call, CHOOSE i \in filled : call.row.fields[i] = name)]

-----------------------------------------------------------------------------
(* Messages, with the caller they are for, which is history only.          *)

Message(c, name, type, fields) ==
  [for |-> c, name |-> name, type |-> type, fields |-> fields]

Asks(c) == IF pc[c] = "ping" THEN "ping" ELSE request[c].row.method

\* send_M; the sequence number is always 0.
send(c) == Message(c, Asks(c), "call",
                   WriteArgs(Methods[Asks(c)].args,
                             IF pc[c] = "ping" THEN <<>> ELSE Input(request[c])))

\* The struct as the peer knows it; the fields it knows keep their ids.
Known(args, older) ==
  [a \in DOMAIN args |->
     [i \in {i \in DOMAIN args[a] : older => ~args[a][i].optional} |-> args[a][i]]]

\* What the handler may do: answer, throw OperationFailed or something else.
Outcomes(R) == {"throw"} \cup CASE R.success = "bool"   -> {"true", "false", "err"}
                                [] R.success = "string" -> {"text", "err"}
                                [] R.success = "void"   -> {"void"}

\* process_M
process(m, outcome) ==
  IF outcome = "throw" THEN Message(m.for, m.name, "exception", {})
  ELSE Message(m.for, m.name, "reply", WriteResult(Methods[m.name].result, outcome))

\* Mutant: an OperationFailed in the reply is not looked for.
recvAnything(c, m) ==
  IF m.type = "exception" \/ m.name # Asks(c) THEN "raise"
  ELSE CASE ReadResult(Methods[Asks(c)].result, m.fields) \in {"true", "text", "void", "err"} -> "true"
         [] ReadResult(Methods[Asks(c)].result, m.fields) = "false" -> "false"
         [] OTHER -> "raise"

\* recv_M: the answer of the call; "raise" is an exception's.  Of a message of
\* another name the struct is skipped, and what follows it is read as the result
\* although it is the head of another message: that is not a struct.
recv(c, m) ==
  IF m.type = "exception" \/ m.name # Asks(c) THEN "raise"
  ELSE CASE ReadResult(Methods[Asks(c)].result, m.fields) \in {"true", "text", "void"} -> "true"
         [] ReadResult(Methods[Asks(c)].result, m.fields) \in {"false", "err"} -> "false"
         [] OTHER -> "raise"

\* All that recv_M reads before it returns has come.
Readable(c) ==
  /\ down # <<>>
  /\ Head(down).type = "exception" \/ Head(down).name = Asks(c) \/ Len(down) > 1

-----------------------------------------------------------------------------
Busy(c) == pc[c] \in {"ping", "request"}
Fails(c) == Raise(c) \/ Broken(c)

\* transport->close(): what is still on the wire is gone.
Closed(c) == /\ up' = <<>> /\ down' = <<>> /\ sent' = sent \ {c}
             /\ request' = [request EXCEPT ![c] = None] /\ served' = None
             /\ UNCHANGED <<service, old>>

CallStub(c) == Call(c) /\ UNCHANGED <<service, old, request, wire>>

\* The arguments are looked at only by who has the mutex.
Begin(c) == /\ Lock(c)
            /\ \E call \in Calls : request' = [request EXCEPT ![c] = call]
            /\ UNCHANGED <<service, old, wire>>

Dial(c) == /\ Connect(c)
           /\ request' = [request EXCEPT ![c] = IF pc'[c] = "idle" THEN None ELSE @]
           /\ UNCHANGED <<service, old, wire>>

Send(c) == /\ Busy(c) /\ c \notin sent /\ link = "open"
           /\ up' = Append(up, send(c)) /\ sent' = sent \cup {c}
           /\ UNCHANGED <<vars, service, old, request, down, served>>

\* dispatchCall, then process_M, or an exception for a method nobody has.
Serve ==
  /\ link = "open" /\ up # <<>>
  /\ LET m == Head(up) IN
     /\ up' = Tail(up)
     /\ IF old /\ m.name \in Newer
        THEN /\ down' = Append(down, Message(m.for, m.name, "exception", {}))
             /\ UNCHANGED <<vars, served>>
        ELSE \E outcome \in Outcomes(Methods[m.name].result) :
             /\ down' = Append(down, process(m, outcome))
             /\ IF m.name = "ping" THEN UNCHANGED <<vars, served>>
                ELSE /\ \E c \in sent : Run(c)
                     /\ served' = [for |-> m.for, name |-> m.name, outcome |-> outcome, old |-> old,
                          input |-> ReadArgs(Known(Methods[m.name].args, old), m.fields)]
  /\ UNCHANGED <<service, old, request, sent>>

\* Mutant: OperationFailed is thrown before the reply has been read.
ReceiveLeaves(c) ==
  /\ Busy(c) /\ c \in sent /\ Readable(c)
  /\ LET answered == recv(c, Head(down)) IN
     IF answered = "raise" THEN Fails(c) /\ Closed(c)
     ELSE /\ down' = IF answered = "false" THEN down ELSE Tail(down)
          /\ sent' = sent \ {c}
          /\ Ping(c) \/ (Answer(c) /\ answer'[c] = answered)
          /\ IF pc'[c] = "idle"
             THEN request' = [request EXCEPT ![c] = None] /\ served' = None
             ELSE UNCHANGED <<request, served>>
          /\ UNCHANGED <<service, old, up>>

\* The reply: ping goes on, a request returns, an exception closes.
Receive(c) ==
  /\ Busy(c) /\ c \in sent /\ Readable(c)
  /\ LET answered == recv(c, Head(down)) IN
     IF answered = "raise" THEN Fails(c) /\ Closed(c)
     ELSE /\ down' = Tail(down)
          /\ sent' = sent \ {c}
          /\ Ping(c) \/ (Answer(c) /\ answer'[c] = answered)
          /\ IF pc'[c] = "idle"
             THEN request' = [request EXCEPT ![c] = None] /\ served' = None
             ELSE UNCHANGED <<request, served>>
          /\ UNCHANGED <<service, old, up>>

Breaks(c) == Broken(c) /\ Closed(c)

\* What was not served is lost; what was answered may still be read, or not.
PeerStops == /\ BrowserStops
             /\ up' = <<>> /\ down' \in {down, <<>>}
             /\ UNCHANGED <<service, old, request, sent, served>>

PeerStarts == /\ BrowserStarts
              /\ old' \in BOOLEAN
              /\ UNCHANGED <<service, request, wire>>

-----------------------------------------------------------------------------
InitThrift == /\ Init
              /\ service \in {"CefBrowser", "VdrPluginWeb", "RemoteTranscoder"}
              /\ old \in BOOLEAN
              /\ request = [c \in Caller |-> None] /\ sent = {}
              /\ up = <<>> /\ down = <<>> /\ served = None

StepsThrift(c) == Begin(c) \/ Dial(c) \/ Send(c) \/ Receive(c) \/ Breaks(c)

NextThrift == \/ \E c \in Caller : CallStub(c) \/ StepsThrift(c)
              \/ Serve \/ PeerStops \/ PeerStarts

\* As in BrowserRpc; a peer that is up serves what reaches it.
FairThrift == /\ InitThrift /\ [][NextThrift]_tvars
              /\ \A c \in Caller : WF_tvars(StepsThrift(c)) /\ SF_tvars(Begin(c))
              /\ WF_tvars(Serve)
-----------------------------------------------------------------------------
\* What a call returns is what the peer made of this very request, although
\* sequence numbers are not used and a reply of the wrong name is not refused.
AnswerIsForCall ==
  [][\A c \in Caller : pc[c] = "request" /\ answer'[c] \in {"true", "false"}
       => /\ served.for = c /\ served.name = request[c].row.method
          /\ answer'[c] = IF served.outcome \in {"true", "text"} THEN "true" ELSE "false"
    ]_tvars

\* The handler gets the caller's arguments in the order the interface has them,
\* an empty url included, as far as it knows the fields.
ArgumentsArrive ==
  \A c \in Caller : ran /\ pc[c] = "request" =>
    LET method == Methods[request[c].row.method]
    IN \A a \in DOMAIN method.args : \A i \in DOMAIN Known(method.args, served.old)[a] :
         served.input[method.args[a][i].name] = Argument(request[c], i)

\* Between calls an open connection carries nothing: no failure leaves a reply
\* behind that the next caller would take for its own.
WireDrained == holder = None /\ link = "open" => up = <<>> /\ down = <<>> /\ sent = {}
=============================================================================
