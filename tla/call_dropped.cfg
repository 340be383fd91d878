SPECIFICATION LockSpec
CONSTANTS
  anchor = anchor
  webhook = webhook
  stick = stick
  usb1 = usb1
  NoDevice = NoDevice
  NoPort = NoPort
  Nobody = Nobody
  AnchorSource = anchor
  WebhookSource = webhook
  Source = {anchor, webhook}
  Pulse = {webhook}
  Grace <- ShortGrace
  Cooldown = 1
  PauseFor = {1}
  Armed = TRUE
  Notch = FALSE
  LockOutcome = {"locks"}
  Device = {stick}
  Model = {stick}
  Wanted = {stick}
  Port = {usb1}
  SocketOpens = {FALSE}
  InterfaceActions = {"add"}
  QueueCap = 1
  ChannelCap = 2
  MaxMoves = 2
  Commands = {"lock", "pause", "resume"}
  MaxRequests = 2
PROPERTY CallLocksAtOnce
