----------------------------- MODULE MCGtkHost -----------------------------
(* The events of GtkHost's runs: buttons of the window, and calls from an  *)
(* nREPL worker, which may send any event that the reducer knows.          *)
EXTENDS GtkHost

MCButtons == {Event("counter/inc"), Event("counter/dec"), Event("platform/copy-counter")}

\* Linux stores what is requested, and has no notifications to request.
MCCalls ==
  {Event("counter/inc"), Requesting(Effect("storage/write", 5)),
   Requesting(Effect("notification/show", 5))}

MCStored == {Numeral(9)}

MCIncrements == {Event("counter/inc")}

MCNothingStored == {Empty}
=============================================================================
