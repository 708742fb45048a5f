----------------------- MODULE MCRecordingConnection -----------------------
(***************************************************************************)
(* RecordingConnection on small instances.                                 *)
(***************************************************************************)
EXTENDS RecordingConnection

==============================================================================
