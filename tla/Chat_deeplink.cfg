\* The page is opened on a channel of its own.
SPECIFICATION ChatSpec
CONSTANTS
  Channel = {"v", "w"}
  NoChannel = "no channel"
  First = "v"
  MaxNotes = 1
  MaxPicks = 0
  MaxBreaks = 0
  MaxStreams = 2
  DeepLink = {"no channel", "w"}
INVARIANTS LiveIsStreaming
CHECK_DEADLOCK FALSE
