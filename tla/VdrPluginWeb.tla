---------------------------- MODULE VdrPluginWeb ----------------------------
(***************************************************************************)
(* What the browser asks of the plugin: thrift-services/src-gen/           *)
(* VdrPluginWeb.cpp and pluginweb_types.cpp.                               *)
(***************************************************************************)
EXTENDS ThriftStruct

ProcessOsdUpdateType == <<Field("i32", "disp_width"),
                          Field("i32", "disp_height"), Field("i32", "x"),
                          Field("i32", "y"), Field("i32", "width"),
                          Field("i32", "height"), Field("string", "data")>>
ProcessOsdUpdateQOIType == <<Field("i32", "render_width"),
                             Field("i32", "render_height"), Field("i32", "x"),
                             Field("i32", "y"), Field("string", "image_data")>>
ProcessTSPacketType == <<Field("string", "ts")>>
StartVideoType == Strings(<<"videoInfo">>)
VideoSizeType == <<Field("i32", "x"), Field("i32", "y"), Field("i32", "w"),
                   Field("i32", "h")>>
ResetVideoType == Strings(<<"videoInfo">>)
SelectAudioTrackType == Strings(<<"audioTrack">>)

ProcessOsdUpdate_args   == Args(ProcessOsdUpdateType)
ProcessOsdUpdate_result == Result("bool")
ProcessOsdUpdateQOI_args   == Args(ProcessOsdUpdateQOIType)
ProcessOsdUpdateQOI_result == Result("bool")
ProcessTSPacket_args   == Args(ProcessTSPacketType)
ProcessTSPacket_result == Result("bool")
StartVideo_args   == Args(StartVideoType)
StartVideo_result == Result("bool")
StopVideo_args   == NoArgs
StopVideo_result == Result("bool")
PauseVideo_args   == NoArgs
PauseVideo_result == Result("bool")
ResumeVideo_args   == NoArgs
ResumeVideo_result == Result("bool")
Seeked_args   == NoArgs
Seeked_result == Result("bool")
VideoSize_args   == Args(VideoSizeType)
VideoSize_result == Result("bool")
VideoFullscreen_args   == NoArgs
VideoFullscreen_result == Result("bool")
ResetVideo_args   == Args(ResetVideoType)
ResetVideo_result == Result("bool")
SelectAudioTrack_args   == Args(SelectAudioTrackType)
SelectAudioTrack_result == Result("bool")
IsWebActive_args   == NoArgs
IsWebActive_result == Result("bool")

\* VdrPluginWebProcessor's processMap_, next to that of CommonService.
processMap ==
  [ProcessOsdUpdate |-> Method(ProcessOsdUpdate_args, ProcessOsdUpdate_result),
   ProcessOsdUpdateQOI |-> Method(ProcessOsdUpdateQOI_args, ProcessOsdUpdateQOI_result),
   ProcessTSPacket |-> Method(ProcessTSPacket_args, ProcessTSPacket_result),
   StartVideo |-> Method(StartVideo_args, StartVideo_result),
   StopVideo |-> Method(StopVideo_args, StopVideo_result),
   PauseVideo |-> Method(PauseVideo_args, PauseVideo_result),
   ResumeVideo |-> Method(ResumeVideo_args, ResumeVideo_result),
   Seeked |-> Method(Seeked_args, Seeked_result),
   VideoSize |-> Method(VideoSize_args, VideoSize_result),
   VideoFullscreen |-> Method(VideoFullscreen_args, VideoFullscreen_result),
   ResetVideo |-> Method(ResetVideo_args, ResetVideo_result),
   SelectAudioTrack |-> Method(SelectAudioTrack_args, SelectAudioTrack_result),
   IsWebActive |-> Method(IsWebActive_args, IsWebActive_result)]
=============================================================================
