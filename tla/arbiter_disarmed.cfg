SPECIFICATION Spec
CONSTANTS
  anchor = anchor
  beacon = beacon
  webhook = webhook
  Source = {anchor, beacon, webhook}
  Pulse = {webhook}
  Nobody = Nobody
  Grace <- MixedGrace
  Cooldown = 3
  PauseFor = {0, 1, 3}
  Armed = FALSE
  Notch = TRUE
  LockOutcome = {"locks"}
INVARIANT DisarmedNeverLocks
