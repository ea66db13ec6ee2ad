\* The GTK thread and an nREPL worker, three dispatches in all, one crash.  The file holds
\* a 9 at first, so counters get wider and narrower.
CONSTANTS
  gtk = gtk
  nrepl = nrepl
  Threads = {gtk, nrepl}
  GtkThread = gtk
  Buttons <- MCButtons
  Calls <- MCCalls
  Stored <- MCStored
  MaxWidth = 1
  WriteFailures = {"open", "write"}
  MaxDispatches = 3
  MaxCrashes = 1
SPECIFICATION FairSpec
CHECK_DEADLOCK FALSE
INVARIANTS
  PersistedWasCommitted
  NoUpdateLostInSeries
  CompletedInSeriesIsPersisted
PROPERTY WindowCatchesUp
