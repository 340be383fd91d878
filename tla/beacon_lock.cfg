SPECIFICATION FairLockSpec
CONSTANTS
  beacon = beacon
  Nobody = Nobody
  Never = Never
  NoAd = NoAd
  BeaconSource = beacon
  Source = {beacon}
  Pulse = {}
  Grace <- ShortGrace
  Cooldown = 2
  PauseFor = {}
  Armed = TRUE
  Notch = FALSE
  LockOutcome = {"locks"}
  RequireInEar = TRUE
  InEarMemory = 2
  DistanceOn = FALSE
  Hold = 1
  Silence = 0
  Ads <- WornNear
  ChannelCap = 2
  MaxChanges = 5
INVARIANT OneLockPerAbsence
INVARIANT ArmedIsNotHeld
PROPERTY WalkingOffLocks
