--------------------------- MODULE MCBatchSystem ---------------------------
(* Small instances of BatchSystem for TLC.                                  *)
EXTENDS BatchSystem

CONSTANTS b1, b2

(* Clients upload files to the second batch and declare them complete, even *)
(* if it belongs to a run.                                                  *)
FilesOfSecond == {<<b2, "upload">>, <<b2, "complete">>}
=============================================================================
