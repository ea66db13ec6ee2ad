\* The failure of EXP-015: the library loads and initialises, an export is missing.
CONSTANTS
  t1 = t1
  t2 = t2
  none = none
  Threads = {t1, t2}
  NoThread = none
  Failures = {"exports"}
SPECIFICATION Spec
INVARIANT NoCallIntoDeadRuntime
