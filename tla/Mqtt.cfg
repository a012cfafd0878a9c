SPECIFICATION Spec
CONSTANTS
  MaxCalls = 2
  Kinds = {"qos0", "qos1", "qos2", "subscribe", "unsubscribe"}
  MaxPacketId = 2
  Clean = TRUE
  SkipMode = FALSE
  Msgs = {1}
  MsgQos <- MCQos2
  TooBig = {}
  MaxBreaks = 1
  MaxReboots = 1
  MaxQueue = 3
INVARIANTS TypeOK AckIsOwn ConnectedIsInitiated PongIsRead
PROPERTIES CallsPromise
