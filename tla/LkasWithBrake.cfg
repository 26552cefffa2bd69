SPECIFICATION ObservedSpec
CONSTANTS
  SoftDisableFrames = 3
  MismatchLimit = 2
  PcmCruise = FALSE
  AllowAlways = FALSE
  NoMainCruise = FALSE
  SteeringMode = "disengage"
  Inputs <- BrakeInputs
  Settings <- GasToggled
PROPERTIES
  LkasBlockedByBrake
