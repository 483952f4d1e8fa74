SPECIFICATION FairSpec
CONSTANTS
  Clients <- SamePorts
  Server <- Self
  Names = {"a", "b"}
  NANVIX_PNAME_MAX = 3
  Stray = FALSE
  MaxBeats = 1
INVARIANTS
  EntriesCoherent
  LinksAreKept
  RegistrationsCounted
  ServerNeverPanics
PROPERTY
  ImplementsRegistry
  CallsReturn
