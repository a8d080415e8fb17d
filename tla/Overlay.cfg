SPECIFICATION Spec
CONSTANTS
  MaxConns = 2
  MaxMounts = 2
  MaxEvents = 2
  MaxAlerts = 1
  MaxDrops = 1
  Seeds = 1
INVARIANTS StreamIsWhole RegistryIsLive ClosedStaysClosed
PROPERTIES EventsArrive Recovers
CHECK_DEADLOCK FALSE
