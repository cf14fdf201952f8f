-------------------------- MODULE RemoteTranscoder --------------------------
(***************************************************************************)
(* What the browser asks of the transcoder: thrift-services/src-gen/       *)
(* RemoteTranscoder.cpp and remotetranscoder_types.cpp.                    *)
(***************************************************************************)
EXTENDS ThriftStruct

ProbeType == Strings(<<"url", "cookies", "referer", "userAgent", "responseIp",
                       "responsePort", "vdrIp", "vdrPort", "postfix">>)
StreamUrlType == Strings(<<"url", "cookies", "referer", "userAgent",
                           "responseIp", "responsePort", "vdrIp", "vdrPort",
                           "mpdStart">>)
PauseType == Strings(<<"streamId">>)
SeekToType == Strings(<<"streamId", "seekTo">>)
ResumeType == Strings(<<"streamId", "position">>)
StopType == Strings(<<"streamId", "reason">>)
AudioInfoType == Strings(<<"streamId">>)
VideoType == Strings(<<"filename">>)

Probe_args   == Args(ProbeType)
Probe_result == Result("string")
StreamUrl_args   == Args(StreamUrlType)
StreamUrl_result == Result("bool")
Pause_args   == Args(PauseType)
Pause_result == Result("bool")
SeekTo_args   == Args(SeekToType)
SeekTo_result == Result("bool")
Resume_args   == Args(ResumeType)
Resume_result == Result("bool")
Stop_args   == Args(StopType)
Stop_result == Result("bool")
AudioInfo_args   == Args(AudioInfoType)
AudioInfo_result == Result("string")
GetVideo_args   == Args(VideoType)
GetVideo_result == Result("string")

\* RemoteTranscoderProcessor's processMap_, next to that of CommonService.
processMap ==
  [Probe |-> Method(Probe_args, Probe_result),
   StreamUrl |-> Method(StreamUrl_args, StreamUrl_result),
   Pause |-> Method(Pause_args, Pause_result),
   SeekTo |-> Method(SeekTo_args, SeekTo_result),
   Resume |-> Method(Resume_args, Resume_result),
   Stop |-> Method(Stop_args, Stop_result),
   AudioInfo |-> Method(AudioInfo_args, AudioInfo_result),
   GetVideo |-> Method(GetVideo_args, GetVideo_result)]
=============================================================================
