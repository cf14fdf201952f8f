SPECIFICATION FairThrift
CONSTANTS
  Caller = {main, handler}
  None = None
  Newer = {"StopVideo", "IsWebActive", "GetVideo"}
INVARIANTS
  ConnectionKept
  ArgumentsArrive
  WireDrained
PROPERTIES
  ImplementsRemoteCall
  CallsReturn
  Recovers
  AnswerIsForCall
