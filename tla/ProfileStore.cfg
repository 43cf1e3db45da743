SPECIFICATION Spec
CONSTANTS
  battery = battery
  dcIn = dcIn
  PowerState = {battery, dcIn}
  Unassigned = Unassigned
  u1 = u1
  u2 = u2
  c1 = c1
  caseVariant = caseVariant
  dflt = dflt
  n1 = n1
  UserId = {u1, u2}
  UserCurve = {c1, caseVariant}
  BuiltinCurve = {dflt}
  BuiltinCase = {caseVariant}
  NoCurve = NoCurve
  NoProfile = NoProfile
  Name = {n1}
  ProfileSlug <- MCProfileSlug
  CurveSlug <- MCCurveSlug
  SlugTries = 2
  Offered <- MCOffered
  Dispatcher = {conn, dbus}
  Idle = Idle
  MaxFaults = 1
SYMMETRY Threads
INVARIANTS TypeOK AtMostOneDefault NoDanglingCurve ReloadFaithful
           RestartKeepsDefaults
