SPECIFICATION ObservedSpec
CONSTANTS
  SoftDisableFrames = 3
  MismatchLimit = 2
  PcmCruise = TRUE
  AllowAlways = TRUE
  NoMainCruise = FALSE
  SteeringMode = "pause"
  Inputs <- PauseInputs
  Settings <- AnySettings
INVARIANTS
  TypeOK
  NoSteeringInReverse
  BrakeStopsSteering
  PauseNeverSticks
PROPERTIES
  EngagedTogether
