SPECIFICATION FairSpec
CONSTANTS
  MaxCalls = 2
  Kinds = {"qos2", "subscribe"}
  MaxPacketId = 9
  Clean = FALSE
  SkipMode = TRUE
  Msgs = {1, 2}
  MsgQos <- MCQos
  TooBig = {2}
  MaxBreaks = 1
  MaxReboots = 0
  MaxQueue = 3
INVARIANTS AckedIsHandled PublishedIsPerformed
PROPERTIES CallsReturn DeadIsNoticed
