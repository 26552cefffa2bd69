SPECIFICATION FairSpec
CONSTANTS
  SoftDisableFrames = 3
  MismatchLimit = 2
  PcmCruise = TRUE
  AllowAlways = TRUE
  NoMainCruise = FALSE
  SteeringMode = "remainActive"
  Inputs <- FadeInputs
  Settings <- MainUnified
INVARIANTS
  SoftDisableBounded
  RefusalObeyed
PROPERTIES
  LossAnnounced
  SoftDisableEnds
