SPECIFICATION FairRadioSpec
CONSTANTS
  beacon = beacon
  Self = beacon
  Never = Never
  NoAd = NoAd
  Ads <- NearAds
  RequireInEar = TRUE
  InEarMemory = 9
  DistanceOn = FALSE
  Hold = 1
  Silence = 0
  ChannelCap = 1
  OwnDiscovery = TRUE
  Scan = 2
  Period = 4
  MaxGap = 2
INVARIANT RadioTypeOK
INVARIANT RadioIsGivenBack
INVARIANT BackIsTrue
PROPERTY EdgesAlternate
PROPERTY LossIsReported
PROPERTY SittingIsSeen
PROPERTY NeverBlindForGood
