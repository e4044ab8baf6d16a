SPECIFICATION PersonaSpec
CONSTANTS
  PersonaId = {p1}
  ConsentId = {k1}
  MaxRevision = 1
  Body = {b1}
  Session = {session}
  Faults = {"write", "sync", "temp"}
PROPERTIES
  WithdrawnIsNeverReusable
CHECK_DEADLOCK FALSE
