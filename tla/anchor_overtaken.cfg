SPECIFICATION FairAnchorSpec
CONSTANTS
  anchor = anchor
  AnchorSource = anchor
  stick = stick
  twin = twin
  mouse = mouse
  usb1 = usb1
  usb2 = usb2
  NoDevice = NoDevice
  NoPort = NoPort
  Device = {stick}
  Model = {stick}
  Wanted = {stick}
  Port = {usb1}
  SocketOpens = {TRUE}
  InterfaceActions = {"add"}
  QueueCap = 2
  ChannelCap = 2
  MaxMoves = 3
PROPERTY ArbiterHearsInTheEnd
