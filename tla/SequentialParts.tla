--------------------------- MODULE SequentialParts ---------------------------
(***************************************************************************)
(* The parts of the repository that compute on one thread, each by itself: *)
(* the gallery's frames as geometry and input (GalleryInput), the Scheme   *)
(* values of the C probe (ChezValues) and the structs handed to Raylib     *)
(* (AggregateAbi).  They have no state in common and nothing to            *)
(* interleave, so a behaviour here is about one of them.                   *)
(***************************************************************************)
EXTENDS GalleryInput, ChezValues, AggregateAbi

VARIABLE subject

Subjects == {"gallery", "values", "structs"}

\* The parts a behaviour is not about stay in one initial state.
PartsInit ==
  /\ subject \in Subjects
  /\ Init /\ ChezInit /\ AbiInit
  /\ subject # "structs" => struct = "color"

PartsNext ==
  /\ UNCHANGED subject
  /\ \/ subject = "gallery" /\ Next /\ UNCHANGED <<chezVars, abiVars>>
     \/ subject = "values" /\ ChezNext /\ UNCHANGED <<vars, abiVars>>
     \/ subject = "structs" /\ AbiNext /\ UNCHANGED <<vars, chezVars>>

PartsSpec == PartsInit /\ [][PartsNext]_<<subject, vars, chezVars, abiVars>>
=============================================================================
