SPECIFICATION ServiceSpec
CONSTANTS
  Last = 1
  Preserve = 1
  Bookmarkable = {0}
  front = front
  wide = wide
  Encoders = {front, wide}
  SegTicks = 2
  LongTicks = 3
  QueueMax = 2
  LastTick = 5
  Caller = Caller
  Writer = Writer
  Stranger = Stranger
  WaitingMax = 2
  MovesMax = 3
  Ssids = {home, hotspot}
  Numbers = {0, 1}
  NoSsid = NoSsid
  Workers = {worker}
  Settings = settings
  TapsMax = 1
  TurnsMax = 2
PROPERTIES
  BookmarkKept
CHECK_DEADLOCK FALSE
