SPECIFICATION FairDaemonSpec
CONSTANTS
  webhook = webhook
  vanish = vanish
  shell = shell
  bar = bar
  caller = caller
  Nobody = Nobody
  Source = {webhook}
  Pulse = {webhook}
  Grace <- ShortGrace
  Cooldown = 1
  PauseFor = {1}
  Armed = TRUE
  Notch = FALSE
  LockOutcome = {"locks"}
  Vanish = vanish
  WebhookSource = webhook
  Caller = {caller}
  Heads <- SomeHeads
  Client = {shell, bar}
  Commands = {"lock", "resume"}
  ChannelCap = 2
  MaxRequests = 2
  MaxCalls = 1
  MaxStarts = 2
INVARIANT DaemonTypeOK
INVARIANT StatusIsNotStale
PROPERTY EveryClientReturns
PROPERTY EveryCallEnds
PROPERTY ValidCallLocks
PROPERTY RequestedLockIsDone
PROPERTY RestartIsReachable
