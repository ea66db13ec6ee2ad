\* Two threads race over the session; every stage of its initialisation may fail.
CONSTANTS
  t1 = t1
  t2 = t2
  none = none
  Threads = {t1, t2}
  NoThread = none
  Failures = {"dlopen", "initialization", "exports"}
SPECIFICATION FairSpec
INVARIANTS
  OwnerOnly
  HealthyNeverFaults
  SessionInv
PROPERTIES
  OneSession
  NoEntryAfterFinish
  CallersAreAnswered
  ImplementsContract
