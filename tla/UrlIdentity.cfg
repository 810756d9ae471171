\* Respellings and edits of a few URLs, one after another.
SPECIFICATION Spec
CONSTANTS
  h1 = h1
  Hosts = {h1}
  NoPort = NoPort
  Ports = {443, 8443}
  TrackingParams <- MCTracking
  Origins <- MCOrigins
  MaxEdits = 3
INVARIANTS
  OneIdentity
  FormReparses
  OnePassSettles
