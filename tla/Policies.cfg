SPECIFICATION PolicySpec
CONSTANTS
  SilenceLimit = 1
  CycleFrames = 2
  Temps = {80, 90, 110}
  Full = 5
  VisionStep = 1
  VisionAlert1 = 2
  VisionAlert2 = 1
  WheelAlert1 = 2
  WheelAlert2 = 1
  MaxTerminalAlerts = 1
  MaxTerminalTime = 2
  FallbackTime = 1
  DmInputs <- Frames
  DmUnits = 12
  Limits = {2, 4}
  Cruises = {2, 3, 4}
  Threshold = 3
  PcmLow = 3
  PcmHigh = 4
  HoldFrames = 1
  AskFrames = 2
  GuardFrames = 1
  Delays = {1, 2, 5}
  Nudgeless = 1
  OneSecond = 4
  LlMax = 2
  ChangeMax = 3
  LcInputs <- Lanes
INVARIANTS
  OnroadConsistent
  
  
PROPERTIES
  NoThermalBounce
  RedHolds
  Settles
  OnceUnasked
  
