\* What a second pass does to a URL of any spelling.
SPECIFICATION Spec
CONSTANTS
  h1 = h1
  Hosts = {h1}
  NoPort = NoPort
  Ports = {443, 8443}
  TrackingParams <- MCTracking
  Origins <- MCOrigins
  MaxEdits = 3
INVARIANTS
  Idempotent
