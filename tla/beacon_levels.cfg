SPECIFICATION Spec
CONSTANTS
  beacon = beacon
  Self = beacon
  Never = Never
  NoAd = NoAd
  Ads <- AllAds
  RequireInEar = TRUE
  InEarMemory = 2
  DistanceOn = TRUE
  Hold = 1
  Silence = 0
  ChannelCap = 1
PROPERTY AwayIsSaidOnce
