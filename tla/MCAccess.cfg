SPECIFICATION Spec
CONSTANTS
  Emails = {owner, ada}
  Owner = owner
  Nobody = nobody
  Sessions = {s1, s2}
  Requests = {r1, r2}
  Invitations = {i1}
  PortalCodes = {p1}
  VerificationCodes = {v1}
  Client = client_id
  Nothing = nothing
  Ttl = 2
  Second = 2
  LoginLimit = 1
  RequestLimit = 1
  VerifyLimit = 1
  MaxRequests = 3
  MaxClock = 3
  MaxFaults = 1
SYMMETRY Symmetry
INVARIANTS
  TypeOK
  RevokedStaysRevoked
  ActiveIsListed
  LoginsExpire
  CredentialsOpenOnce
  AttemptsAreCapped
PROPERTIES
  OwnersAreNotRemoved
CHECK_DEADLOCK FALSE
