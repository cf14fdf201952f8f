# vdr-plugin-web in TLA+

vdr-plugin-web shows HbbTV applications and their videos in VDR.  The plugin
itself (`src/*.cpp`) is the glue between three processes: VDR, a browser
(cefbrowser) that renders the pages, and a transcoder that delivers the video.
They call each other with Thrift.  This directory holds TLA+ models of the
plugin, TLC configurations that check them on small instances, and TLAPS proofs
of the safety properties for every size.

`PROJECT.json` lists the components, the runs, a mutant for every property (a
plausible bug in one definition that TLC must find), the source lines behind
every definition, the findings, the hazards and the theorems.

## The system

| component | state | operations | who calls it |
|---|---|---|---|
| Session (`web.cpp`, `webosdpage.cpp`, `dummyosd.h`) | `videoPlayer`, `videoInfo`, `nextOsdCommand`, the two page slots and `currentOsdMode`, `useDummyOsd` | StartVideo, StopVideo, ResetVideo, PauseVideo, ResumeVideo, Seeked, ProcessOsdUpdate, ProcessTSPacket; MainMenuAction; Service | Thrift server threads; VDR's main loop; other plugins |
| OSD page (`webosdpage.cpp`) | osd, pixmaps, volume pixmap, `pixmap_mutex` | Display, Hide, drawImage, scaleAndPaint, DrawVolume, ProcessKey, GetInfo | the same threads |
| Video player (`videocontrol.cpp`) | pause, `tsPlayed`, the static `buf`, `bufsize` | PlayPacket, Pause, Resume, ResetVideo, SetVideoSize | the same threads |
| Regular worker (`web.cpp`) | none of its own | deletes a player without a page, every half second | its own thread |
| Channel switch, volume (`status.cpp`) | device, `aitFilter`, sid, volume | ChannelSwitch, SetVolume | VDR |
| AIT filter (`ait.cpp`) | sid, PAT and PMT versions, PMT pid, next check, filtered pids | SetStatus, Trigger, Process | VDR's section handler |
| Browser client (`BrowserClient.cpp`) | send mutex, transport | LoadUrl, RedButton, ProcessKey, InsertHbbtv, StopVideo and so on | all of the above |
| Video geometry (`web.cpp`, `videocontrol.cpp`, `webosdpage.cpp`) | `lastVideoX` and so on; the device's scaling | VideoSize, VideoFullscreen, SetVideoSize, setVideoFullscreen, calcVideoPosition, scaleAndPaint | request handlers; the player's destructor and Activate |
| Picture codec (`qoi.h`) | the coder's tables and run | qoi_encode (browser), qoi_decode (plugin) | ProcessOsdUpdateQOI |
| Thrift stubs and processors (`src-gen`) | the connection's bytes | send_M, recv_M, process_M, read and write of every struct | the clients, the servers |
| The peers' clients (`VdrClient.cpp`, `TranscoderClient.cpp`) | as the browser client | one function per method | the browser and the transcoder; the browser |
| Start and stop (`web.cpp`) | server thread, worker, clients | Start, Stop | VDR |

The peers' clients are linked into other programs, but live in this repository.
mINI is vendored; QOI is vendored too, but it is half of the protocol with the
browser, and so are the generated stubs.

How they meet.  The browser asks for a video with StartVideo: the handler sets
`nextOsdCommand` to CLOSE and asks VDR's main loop, with cRemote::CallPlugin,
to call MainMenuAction; then it creates the player's page and the player and
launches the page as VDR's control.  StopVideo deletes the player, sets REOPEN
and calls the plugin again, so that the application's OSD comes back.  VDR may
delete any page meanwhile, because it owns them (menu, control); the
transcoder's packets and the OSD updates use whatever page or player is current
at that moment.  None of this state has a lock.

What is hard: four threads on unprotected pointers; objects that belong to VDR
and to the plugin at the same time; a command that is written in one thread,
announced through a flag that coalesces calls, and reset in another; a
transport that breaks at any step; packets cut across calls, with a buffer that
another thread clears; sections arriving around a channel switch; a mutex that
covers only part of a page's drawing; replies that are matched to requests by
nothing but their order.

What makes the components correct:

- Session: no page without an owner, no page lost; the global player and the
  device's player always exist; a command reaches the main loop; a stopped
  video gives the OSD back; a player without a page is reaped.
- Player: the device gets whole packets in order; copies stay in bounds;
  PlayPacket returns.
- Channel switch and AIT filter: no filter left on the device; applications
  are announced for the right channel; the scan goes on.
- Browser client: one call at a time, run at most once; calls return; a
  connection that broke is made again.
- OSD page: nobody paints on what was deleted; no osd is lost; the screen shows
  the browser's latest picture in the end; the volume bar goes away.
- Geometry and codec: the picture is what the browser drew, inside the display;
  the video stays inside its hole, and where the browser put it.
- Thrift: arguments arrive in their fields; a reply is taken for the call it
  answers, and none is left for the next one.
- Application launch: an application gets the parameters it was given.

## The modules

| module | what it is |
|---|---|
| `WebObjects` | the shared objects: slots, pages, players, VDR's menu, control and device, and what creating, deleting, launching and attaching does to them |
| `WebSession` | the handlers that run on them in four threads, the properties and the inductive invariant |
| `WebSessionSerial` | the same when handlers run one after the other |
| `StreamFormat` | WebSession with the history of the stream's format |
| `MCWebSession`, `MCStreamFormat` | symmetry for TLC |
| `WebSessionProofs` | theorems about WebSession |
| `TsPackets`, `TsPacketsProofs` | PlayPacket, with pause, resume and seek |
| `ChannelScan`, `ChannelScanProofs` | ChannelSwitch and the AIT filter |
| `RemoteCall` | what a caller may expect of a remote call (abstract) |
| `BrowserRpc`, `BrowserRpcProofs` | BrowserClient, which implements RemoteCall |
| `ThriftStruct` | structs as the generated code writes and reads them |
| `CefBrowser`, `VdrPluginWeb`, `RemoteTranscoder` | the three services: their structs, methods and processors |
| `ThriftCall`, `ThriftCallProofs` | BrowserRpc with what goes over the wire, for all three services and their clients |
| `OsdPage`, `OsdPageProofs` | the page's osd, pixmaps and mutex in two threads |
| `Qoi` | the picture's encoder and decoder |
| `Scaling` | the arithmetic of both scalings |
| `PictureProofs` | theorems about these two |
| `MCOsdPage` | those three for TLC |
| `VideoWindow`, `MCVideoWindow` | where the video is shown, on top of WebSessionSerial |
| `VideoWindowProofs` | theorems about both |
| `AppLaunch` | Service and MainMenuAction's use of its parameters |

### WebObjects and WebSession

A handler is cut where its accesses to shared state can be interleaved with
those of another thread: `pc[t]` is the place of thread `t`, `page[t]` and
`copy[t]` are its local `WebOSDPage*` and `VideoPlayer*`.  A test of a global and
the load of it into a register are one step, because the build does them with
one load; after a call that the compiler cannot look into, the global is read
again.  Places begin with the handler's initials: `sv_` StartVideo, `rv_`
ResetVideo, `stop_` stopVideo, `ts_` ProcessTSPacket, `w_` the worker, `m_`
MainMenuAction and VDR's main loop.  StartVideo and the rebuilding branch of
ResetVideo share `BuildPage`, `BuildPlayer` and `LaunchPage`.

A Page or Player is an address.  A deleted object's address stays in the
variables that hold it and may only be allocated again when no variable does;
so a finite set stands for any number of allocations, and stale pointers never
become valid again by chance.  Dereferencing or deleting a deleted object, or
dereferencing a null player, is undefined: `Fault(t)` ends the process and
records the thread.  So the configurations say `CHECK_DEADLOCK FALSE`: after a
fault the system has stopped.

VDR is external and modelled as the plugin relies on it.  Launch, Shutdown and
Attach are each one step, since cControl holds its mutex.  Launch deletes the
old control, even if it is the new one.  `MenuPage` is what VDR deletes with its
menu; menus that are not the plugin's count as `Null`.  The main loop handles
keys, calls Attach in every round, and takes a waiting plugin call, for which it
first deletes its menu.  A peer has one request at a time, because VdrClient
holds its send mutex around a call; therefore one handler per peer.  A channel
switch takes the player off the device and shuts the control down; VDR may also do
the latter alone (`ControlShutdown`).

Left out: the painting itself and Display's own calls (folded into
`BuildPlayer`; OsdPage has them), attaching a player that the device refuses,
and the parameters of Service (AppLaunch has them).  The constant `Events` chooses what peers and users do, so that a run
can concentrate on a question; the theorems hold for every choice.

### TsPackets

A byte is its position in the stream, and `delivered` is what the device
accepted.  The static buffer outlives the call, so that `bufsize` and `buf` are
shared with Resume, Seeked and ResetVideo, which the browser's thread runs at any
moment.  PlayPacket is cut there: `bufsize` is loaded once for the test and the
copy of the joined packet, and once more after PlayTs.  Chunks are empty or at
least one packet long, as the comment "at least one tspacket" says
(`videocontrol.cpp:100`); without that the copy of the joined packet would read
beyond the chunk.  The stream begins with a packet, and after a reset the
transcoder may begin a new one (`Anew`) or go on with the old one.  A reset before
PlayPacket has saved the rest of its chunk comes too late for that rest
(`TooLate`): it is saved after `bufsize` was cleared, and joined with the new stream.
The history variable `cut` remembers which kind of reset the last one was,
`disturbed` and `since` which packets may be torn: none but those after a reset
that the stream goes on after, or after a late one, until the stream begins anew
after a reset in time.  `calm` says that nothing may be lost.  DeviceClear and
`tsPlayed`, which only decides whether the device is cleared, are left out.

### ChannelScan

`service` is what each channel broadcasts: versions of PAT and PMT, the PMT's pid
and the AITs it names.  Process, SetStatus and Detach all run under the lock of
VDR's section handler, and so each is one step; a section is delivered only for
a pid that is filtered, while the filter is on.  `attached` is the channel the
filter was created for, `current` the one cDevice reports; the AIT constructor
announces with the latter.  A switch that fails makes no second call of
ChannelSwitch.  Names and URLs of an application are abstracted to its AIT.

### BrowserRpc and RemoteCall

The threads take the send mutex, connect unless the transport is open, ping, and
send the request.  The browser comes and goes; an open transport turns "broken"
without anybody noticing before something is sent.  An exception closes the
transport; the lock guard gives the mutex back on every way out.  `RemoteCall` is
the promise: a call is run at most once, one call at a time, and "true" only
comes from a run.  The refinement mapping is `Phase`: a caller is "called" while
it is inside, and "ran" once the browser has run its request.

### ThriftStruct, the three services, and ThriftCall

In the modules `CefBrowser`, `VdrPluginWeb` and `RemoteTranscoder` every definition
stands for generated code: `<X>Type` for the struct X, with its fields in order,
their types and whether they are optional (a field's id is its place); `<M>_args`
and `<M>_result` for the argument and result classes of method M; `processMap` for
the processor's dispatch.  `ThriftStruct` says what writing and reading make of a
struct: an optional field is written only if it is marked as set, a reader keeps
the fields whose id and type it knows and leaves the others at their defaults.  A
value is the name of the parameter it was given for, or "" for an empty one, so
that a swapped or lost argument shows.

`ThriftCall` extends `BrowserRpc`: a request is one row of the client's table (the
method, the parameters, the field each of them sets), `up` and `down` are the
messages under way, `served` remembers what the peer read.  `Send` and `Receive` are
the stub's two halves; `Receive` has every way out of it: the answer, the declared
exception, the refusal of an unknown method, a missing result, and a message of
another name: the stub skips its struct and reads the result from what follows,
which is the head of another message and no struct, so it waits for that
(`Readable`) and fails.  Closing the connection loses what is under way.
An `old` peer has neither the methods in `Newer` nor optional fields.  Each step is a
step of BrowserRpc or leaves its variables alone, so that BrowserRpc's properties,
its refinement of RemoteCall and its theorems hold of it.

### OsdPage

The main loop shows the page, passes keys and volume, and deletes it; the
browser's request thread displays it for a video and paints.  `pc` follows Display
from its test of `osd`, which is made before it takes `pixmap_mutex`, through the
deletion, the creation of the new osd without the mutex, the new pixmap, and the
request to paint again.  Either thread deletes the page, the browser's when
cControl::Launch replaces the control that it is.  A pixmap dies with its osd and is named by it; a pointer to
a deleted one stays as it is, and its address is not taken again.  `Meet` records
how far operations have overlapped, because the properties differ in that: with
paintings only, with others, with two Displays.  Redraw is the browser's, which
sends a picture whenever its page changes or ReloadOSD arrives; `missed` remembers a
ReloadOSD that failed.  `fast`, chosen at the start, is a build with
ENABLE_FAST_SCALE, where a painter that scales gives the mutex back before it
flushes the osd: the scope of either branch's lock ends there, whether the device
does the scaling or GraphicsMagick.  That VDR refuses an osd or a pixmap is left out.

### Qoi and Scaling

`Qoi` takes the encoder pixel by pixel and the decoder chunk by chunk, right behind
it; the two share only the bytes.  They do not keep the same tables: the decoder
also enters the pixel of a run.  The header and the final padding are left out.

`Scaling` is one dimension of scaleAndPaint and calcVideoPosition, which treat x and
width like y and height: the page rounds lengths and cuts off positions, the video
cuts off both.  The page multiplies doubles, the video integers.  A scale that is no
binary fraction is rounded, and so is its product with a length, which may then lie
a little below a whole number or a half that it should be (`Low`); the cut or rounded
result is one less.  `Cut` and `Round` leave it open whether that happens, so that they
have every result doubles can give.  `Exact` says for which scales it cannot happen, of
pages up to 4096 columns.  With DrawScaledImage the size is the device's matter; the
model has the size that the code computes.

`MCOsdPage` puts these two next to OsdPage.  They share no state with it, so that
every behaviour takes one of the three; this loses no interleaving that matters
and keeps their sizes from multiplying.

### VideoWindow

The window of the picture on top of `WebSessionSerial`: what the browser asked for
(`last`), what the device was told (`screen`).  A player that is deleted or replaced on
the device makes it full screen.  ResetVideo places the picture where it was, but
VDR attaches the new player only in a later round of the main loop, and the old
player's end makes the picture full screen again: what ResetVideo restored is lost
then.  Nothing in the code says otherwise, so the property says the picture stays
where it was put until a player comes or goes.

### AppLaunch

Service stores the parameters of another plugin in globals and has MainMenuAction
called, which passes them to StartApplication; for a request of the main page it has
it called before it stores them (`LaunchMain`, `StoreMain`).  VDR offers each service call to
every plugin, and a call that is not for this plugin clears the parameters of one
that waits.  A value is the plugin that gave it and its kind.

## The runs

| run | what it asks | distinct states |
|---|---|---|
| `session` | the session's safety with requests, menu, channel switches and the worker in every interleaving | 1.26 million |
| `packets` | two pointer and command properties with the transcoder's packets, whose handler may stop a video too | 2.65 million |
| `serial` | what can go wrong if handlers do not interleave at all, with all events of the system; the picture's place | 192 000 |
| `live` | orphaned players are reaped, commands consumed, the OSD reopened | 256 000 |
| `ts_packets` | packets whole and in order; nothing lost when nothing is disturbed | 888 000 |
| `channel_scan` | no filter left, the right channel, the scan goes on | 80 000 |
| `browser_rpc` | the connection is kept, RemoteCall implemented, every call returns, recovery; arguments arrive, answers are for their calls, nothing is left on the wire | 60 000 |
| `osd_page` | painters are safe, no osd lost, the latest picture arrives, the bar goes away; pictures survive their encoding; picture and video are inside | 150 000 |
| `packet_stop`, `close`, `format`, `launch` | the findings below | until the counterexample |

Bounds.  `session` has three page and four player addresses: the two slots and one
stale page, and the global, the device's and two copies held by threads; an
allocation always finds a free one there.  In `packets` and `live` addresses are
fewer, and an allocation may have to wait until one is given up; this only
removes behaviours in which more stale pointers exist at once.  One stream format
is enough except for `format` and `serial`.  `serial` has one window besides the full
screen, since a place is only compared with another.  `ts_packets` has packets of
3 bytes and chunks with every rest (0, 1, 2) and up to two packets and a rest, 17
bytes of stream, so that a partial packet is carried across several chunks, and
two retries.  `channel_scan` has two channels, two PMT pids and one AIT and lets
every table change once; the theorems cover the rest of the safety part.
`browser_rpc` has two callers: three make the liveness part too slow, a third one
would only wait for the mutex as the second does, and the theorems hold for any
number.  It takes each of the three services with each of its methods, and newer
and older peers, to which one method of each service (StopVideo, IsWebActive,
GetVideo) is unknown.

`osd_page` has four addresses for osds (one for each of the page's three pointers
and a new one) and two sizes, and `MayDisplay` ends the Displays of a behaviour once
two of them have overlapped: only PainterSafe promises anything beyond that.  Its
six colours need every kind of chunk: the initial pixel, the tables' initial entry,
neighbours by a small difference across the byte's wrap, by a larger one, another
alpha value, and two of the same hash; runs reach 62.  Its lengths are VDR's usual
displays (720, 1280, 1920 and 3840 columns, 576 lines) as ratios to the page's, and
1792 columns and 504 lines, where doubles miss whole numbers and halves; every place
and length up to the page's is tried, with every way the products may be rounded.

Findings.

- `packet_stop`: ProcessTSPacket without a player says "Stop streaming" and calls
  stopVideo, which does nothing without a player.
- `close`: MainMenuAction writes OPEN after waiting for the browser and so may
  overwrite the CLOSE of a StartVideo; the next call opens the OSD again.
- `format`: ResetVideo compares with a format that StartVideo does not set, and may
  say that the format does not change when it does.
- `launch`: MainMenuAction passes user agent, referrer and cookie in this order to
  StartApplication, which takes cookie, referrer and user agent.

Pages and players that are used after they were deleted are reachable in
`WebSession` when handlers interleave; no comment or document promises otherwise,
so they are hazards without a property.  `SerialFaultsInMainOnly` says
how far they are due to interleaving: with complete handlers only VDR's main loop
can still meet a deleted object.

Fairness.  A handler that has begun goes on (`WF` of each thread's `Continues`), the
worker wakes up (`WF` of `WorkerLook`), and the main loop takes a waiting call
although keys keep coming (`SF` of `TakeCall`, since each key disables it for a
moment).  Nothing makes a peer send requests.  In TsPackets only PlayPacket's own
steps are fair; the device may refuse for ever, and the retries bound that.  In
ChannelScan time goes by, and tables are broadcast over and over (`SF`, since the
filter is off at times); it assumes that a valid AIT comes again and again.  In
BrowserRpc and ThriftCall threads go on and get the mutex in the end (`SF` of `Lock`:
std::recursive_mutex gives no order, the scheduler lets nobody starve), and a browser
that is up answers: the socket has no timeout, so that the code itself gives no
bound.  `Recovers` also assumes that the browser stops raising exceptions.  In
OsdPage both threads go on (`SF`, for the mutex), an update that was received is
painted or refused, time goes by, and VDR calls ProcessKey again and again (it does
so without a key too), although a Display may be in its way.  Nothing makes the
browser draw, nor anybody show the page again.

## The proofs

All are proved for any values of the constants that meet the named assumptions
(null is no address and no kind of fault, pids of PMTs and AITs differ, packets are
not empty, chunks are empty or hold a packet, a pixel has four bytes, lengths are not
zero).  They cover every invariant that a run checks, and the two properties of steps
that hold without fairness (ImplementsRemoteCall, AnswerIsForCall).

- `WebSessionProofs`: TypeOK (the C++ types; no run checks it by itself), PlayersLive, NoStrandedCommand, PagesOwned and
  ControlRegistered.  They are not inductive as they stand, and `IInv` adds what
  they rest on.  `MainHolds`: the main loop has deleted its menu before it enters
  MainMenuAction, and so no other page is lost when it returns one.  `BrowserHolds`:
  the page a handler builds is a player page or gone, and its address is not
  used again meanwhile.  `CopiesRetired`: a player is no longer the global one when
  it is deleted, which keeps PlayersLive in every interleaving.  Each property has
  its lemma per thread, one case per action.
- `TsPacketsProofs`: the types, and the four promises about what the device gets.  For
  the types and CopiesInBounds `ChunkWhole` is added: until the joined packet is taken
  off, the chunk holds a whole packet, and so a bufsize cleared meanwhile takes off no
  more than there is.  For DeliveredInOrder, `OInv` puts in a row what was delivered,
  what is saved and the rest of the chunk; at the end of a chunk the saved bytes lie
  behind that rest.  For DeliveredWhole and DeliveredAll, `WInv` says for each place in
  PlayPacket up to which byte packets have been taken (`Due`: that byte begins a packet
  and, if all is calm, every packet before it was delivered) and that the saved bytes
  continue from there, unless packets may be torn; after a reset in time nothing is
  saved and only whole packets of the chunk are left to play, so that the promise holds
  again for what a stream that begins anew brings (`since`).  It rests on lemmas on sequences of packets, on how packets lie
  in a chunk, and on division with rest.  `PlayPacketEnds` is what PlayPacketReturns
  owes to the code: `StepsLeft` gets smaller with each step of PlayPacket and larger
  with nothing that happens meanwhile; the rest is that the thread goes on.
- `ChannelScanProofs`: the types, NoFilterLeft and AnnouncedForItsChannel.
  `AttachedCurrent` is added: an attached filter is that of the current channel,
  and none is attached during a switch.
- `BrowserRpcProofs`: ConnectionKept, and that BrowserRpc implements RemoteCall.
  `HolderInside` is added: the mutex holder is the one caller past the lock, and a
  request that was run is its.
- `ThriftCallProofs`: every behaviour of ThriftCall is one of BrowserRpc
  (`ThriftIsRpc`), and so the theorems on BrowserRpc hold of every service;
  WireDrained, AnswerIsForCall and ArgumentsArrive.  `WireInv` adds to BrowserRpc's
  invariant that only the mutex holder has sent something and that at most one message
  is under way; `TalkInv` that this message is the holder's, with the name and the
  result of the method it called; `ArgsInv` that it is what the stub writes for the
  request, and that the handler got what the peer reads from it.  That nothing is lost
  between writing and reading is a lemma on structs of any fields (`StructArrives`),
  and that each client's function fills the fields of its method, in order and each
  once, is shown method by method (`BrowserFits`, `VdrFits`, `TranscoderFits`).
- `OsdPageProofs`: the types, PainterSafe, NoOsdLost, OverlapSafe and PictureShown.
  `PixmapInv`: the mutex is held from the deletion of an osd until its pointer is
  cleared, and so the pixmap's pointer is never stale for who takes the mutex.
  `OwnerInv`: a lone Display has deleted the page's osd before it creates another.
  `OverlapInv`, as long as only paintings overlap with something: while the browser's
  handler displays, the main loop does nothing to the page, which has its osd except
  where a Display replaces it.
  `PictureInv`: a page without a pixmap is inside a Display that has yet to make one
  and to ask for the picture, and when no Display runs and the browser owes nothing,
  what is painted or about to be painted is its latest picture in the page's size.
- `VideoWindowProofs`: WebSessionSerial implements WebSession, and VideoWindow
  WebSessionSerial (each step is one of the other's), so that the session's invariant
  is at hand.  `SerialInv` adds what a handler knows when it is alone: the player it
  found or made is still the global one (`PlayerHeld`), its page is still in its slot
  and VDR's control is that slot's page (`PageHeld`, `ControlIsSlot`), and the control
  plays the global player but for the steps that replace it (`ControlPlays`).
  SerialFaultsInMainOnly and SerialControlPlaysGlobal follow.  `WindowInv`: a player
  that is still to be deleted (`Doomed`) has ended the promise about the picture's
  place, and without one and without a player the picture is full screen; from this
  PictureStaysPlaced and NoWindowLeft.
- `PictureProofs`: RoundTrip, for every set of colours.  `QoiInv` follows what the encoder
  has written and the decoder has not read (nothing, a run, a run and a chunk, a
  chunk); the two tables are `Alike` but for the initial pixel, which only the
  decoder may have entered, and the point of the proof is that the encoder never
  refers to its own entry there meanwhile.  PaintedInside and VideoFitsHole, for all
  sizes of page and display and every way to round the products (`OffBy`); they rest on
  bounds of divided products.

Only model-checked: everything under fairness (PlayerReaped, CommandConsumed,
StopReopensOsd, PlayPacketReturns, ScanGoesOn, CallsReturn, Recovers, BarGoesAway and
PictureArrives), because liveness is out of reach of the proof system here, and the
violations, which are counterexamples.  StreamFormat and AppLaunch have no theorem:
their runs end in a violation.

## Plan

Done, in this order: the session (most of the plugin's risk), its proofs, the
packets, the channel scan, the browser client; then the page with its picture,
the Thrift services, the video's window and the launch of applications, with
their proofs.  Next:

1. Proofs: the safety half of the other liveness properties, as PlayPacketEnds is for
   PlayPacket (who consumes a command, who reaps a player, who gives the mutex back).
2. `RpcLoop`: a request of the browser that calls the browser back (Display calls
   ReloadOSD), with the server's pool of workers and both send mutexes.  Property:
   no two peers wait for each other for ever.  OsdPage has the plugin's half.
3. `Lifecycle`: Start, Stop, the worker's condition variable, and the clients'
   deletion while threads still call them.
4. `tsPlayed` with DeviceClear, the audio tracks, and the summed up volume.

## Not modelled

- Configuration and command line: read once before the threads start.
- mINI (vendored), build files, patches, translations.
- Of the generated code ConcurrentClient, Multiface, Null and the servers'
  skeletons, which nothing uses; of QOI the header and the files.
- The recording of TS files (`-s`, for debugging) and what VDR does on its own.
- Hazards without a property: pages and players that are used after another thread
  deleted them, and a worker that reaps a player just made (reachable in the
  models, and nothing in the code or its documents promises otherwise); clients
  deleted by Stop under their callers; a file name replaced while it is used;
  packets a device refuses, which are lost without a promise; the order of VDR's
  own locks, which depends on code that is not here; a peer that never answers,
  for which the code gives no bound; parameters cleared by another plugin's call.
