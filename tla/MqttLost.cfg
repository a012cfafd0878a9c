SPECIFICATION Spec
CONSTANTS
  MaxCalls = 2
  Kinds = {"qos2"}
  MaxPacketId = 9
  Clean = FALSE
  SkipMode = FALSE
  Msgs = {}
  MsgQos <- MCNone
  TooBig = {}
  MaxBreaks = 0
  MaxReboots = 1
  MaxQueue = 3
INVARIANTS PublishedIsPerformed
