----------------------------- MODULE CefBrowser -----------------------------
(***************************************************************************)
(* What the plugin asks of the browser: thrift-services/src-gen/           *)
(* CefBrowser.cpp and cefbrowser_types.cpp.                                *)
(***************************************************************************)
EXTENDS ThriftStruct

LoadUrlType == Strings(<<"url">>)
RedButtonType == Strings(<<"channelId">>)
StartApplicationType == <<Field("string", "channelId"),
                          Field("string", "appId"),
                          Field("string", "appCookie"),
                          Field("string", "appReferrer"),
                          Field("string", "appUserAgent"),
                          Optional("string", "url")>>
ProcessKeyType == Strings(<<"key">>)
StreamErrorType == Strings(<<"reason">>)
InsertHbbtvType == Strings(<<"hbbtv">>)
InsertChannelType == Strings(<<"channel">>)
StopVideoType == Strings(<<"reason">>)

LoadUrl_args   == Args(LoadUrlType)
LoadUrl_result == Result("bool")
RedButton_args   == Args(RedButtonType)
RedButton_result == Result("bool")
ReloadOSD_args   == NoArgs
ReloadOSD_result == Result("bool")
StartApplication_args   == Args(StartApplicationType)
StartApplication_result == Result("bool")
ProcessKey_args   == Args(ProcessKeyType)
ProcessKey_result == Result("bool")
StreamError_args   == Args(StreamErrorType)
StreamError_result == Result("bool")
InsertHbbtv_args   == Args(InsertHbbtvType)
InsertHbbtv_result == Result("bool")
InsertChannel_args   == Args(InsertChannelType)
InsertChannel_result == Result("bool")
StopVideo_args   == Args(StopVideoType)
StopVideo_result == Result("bool")

\* CefBrowserProcessor's processMap_, next to that of CommonService.
processMap ==
  [LoadUrl |-> Method(LoadUrl_args, LoadUrl_result),
   RedButton |-> Method(RedButton_args, RedButton_result),
   ReloadOSD |-> Method(ReloadOSD_args, ReloadOSD_result),
   StartApplication |-> Method(StartApplication_args, StartApplication_result),
   ProcessKey |-> Method(ProcessKey_args, ProcessKey_result),
   StreamError |-> Method(StreamError_args, StreamError_result),
   InsertHbbtv |-> Method(InsertHbbtv_args, InsertHbbtv_result),
   InsertChannel |-> Method(InsertChannel_args, InsertChannel_result),
   StopVideo |-> Method(StopVideo_args, StopVideo_result)]
=============================================================================
