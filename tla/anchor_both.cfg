SPECIFICATION FairAnchorSpec
CONSTANTS
  anchor = anchor
  AnchorSource = anchor
  stick = stick
  twin = twin
  mouse = mouse
  usb1 = usb1
  usb2 = usb2
  NoDevice = NoDevice
  NoPort = NoPort
  Device = {stick, twin, mouse}
  Model = {stick, twin}
  Wanted = {stick}
  Port = {usb1, usb2}
  SocketOpens = {TRUE, FALSE}
  InterfaceActions = {"add", "remove"}
  QueueCap = 2
  ChannelCap = 2
  MaxMoves = 3
INVARIANT AnchorTypeOK
INVARIANT EdgesAddUp
INVARIANT StaleDevpathIsPassing
INVARIANT LatestSignalIsRight
INVARIANT OnePullOneReport
PROPERTY AbsentStaysSilent
PROPERTY FlagSettles
PROPERTY PollAloneSuffices
PROPERTY PollKeepsUntouchedAnchor
