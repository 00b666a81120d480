SPECIFICATION HttpSpec
CONSTANTS
  r1 = r1
  r2 = r2
  r3 = r3
  r4 = r4
  HttpRequests <- MCFourRequests
  Principals <- MCPrincipals
  TicksPerSecond = 2
  RequestsPerSecond <- MCRates
  Burst <- MCBurst
  MaxTime = 3
  Credentials <- MCCredentials
  Exchanges <- MCCaptures
SYMMETRY MCFourSymmetry
PROPERTY RetryAfterHonoured
