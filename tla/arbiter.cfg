SPECIFICATION FairSpec
CONSTANTS
  anchor = anchor
  beacon = beacon
  webhook = webhook
  Source = {anchor, beacon, webhook}
  Pulse = {webhook}
  Nobody = Nobody
  Grace <- MixedGrace
  Cooldown = 3
  PauseFor = {0, 1, 3}
  Armed = TRUE
  Notch = TRUE
  LockOutcome = {"locks", "nothing"}
INVARIANT TypeOK
INVARIANT PausedMeansQuiet
INVARIANT CountdownOutsideCooldown
INVARIANT OwnerIsAbsent
INVARIANT NoAbsenceStranded
INVARIANT NotchFollowsCountdown
INVARIANT BackMeansForgotten
PROPERTY ImplementsPresence
 
PROPERTY OwnerKeepsItsWindow
