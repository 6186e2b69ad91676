SPECIFICATION CentreSpec
CONSTANTS
  e1 = e1
  e2 = e2
  a1 = a1
  a2 = a2
  o1 = o1
  r1 = r1
  None = None
  Events = {e1, e2}
  Alerts = {a1, a2}
  Orders = {o1}
  Registers = {r1}
  EventOf <- MCEventOf
  PlaceOf <- MCPlaceOf
  SkuOf <- MCSkuOf
  RegisterOf <- MCRegisterOf
  FirstRoster <- MCFirstRoster
  MaxCentreEvents = 3
CHECK_DEADLOCK FALSE
INVARIANTS CentreTypeOK ActedOnOwnEvent
PROPERTIES HeldNeverGoesBack CentreCatchesUp
