SPECIFICATION FairSpec
CONSTANTS
  Onroad = {card}
  Always = {ui}
  Restarted = {ui}
  Card = card
INVARIANTS
  NoOrphans
  RoundComplete
  EverythingDead
  
PROPERTIES
  DriveEnds
