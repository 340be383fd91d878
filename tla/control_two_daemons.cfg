SPECIFICATION Spec
CONSTANTS
  service = service
  byHand = byHand
  Daemon = {service, byHand}
INVARIANT BindReportsTheMistake
