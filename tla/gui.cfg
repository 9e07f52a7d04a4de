\* Two providers in one IDA, two databases, reloads, failed starts and exit.
SPECIFICATION FairSpec
CONSTANTS
  Providers = {pa, pb}
  Databases = {d1, d2}
  Registrations = {r1, r2, r3}
  None = None
CHECK_DEADLOCK FALSE
INVARIANTS
  TypeOK
  OneRegistration
PROPERTIES
  RegistrationIsKept
  UnloadReleases
