SPECIFICATION Spec
CONSTANTS
  Dispatcher = {socket, dbus}
  Main = main
  None = None
  battery = battery
  dc = dc
  quiet = quiet
  fast = fast
  smart = smart
  loose = loose
  gentle = gentle
  own = own
  ProfileId <- Profiles
  Adaptive <- AdaptiveProfiles
  CurveId <- Curves
  BuiltinCurve = {gentle}
  FixedCurve <- Fans
  Assigned <- Powers
  Default <- Defaults
  Source <- Sources
  Unknown = Unknown
  Charge = {low, full}
  FullCharge = full
  Bios = bios
  Manual = manual
  MaxCommands = 2
  MaxFaults = 1
  MaxChanges = 1
SYMMETRY Dispatchers
INVARIANTS TypeOK LimitsCoherent SomeoneRuns ProfileInForce
PROPERTIES GateHolds
CHECK_DEADLOCK FALSE
