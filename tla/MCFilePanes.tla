---------------------------- MODULE MCFilePanes ----------------------------
(* The queue with the file browser's page on small instances.               *)
EXTENDS FilePanes

AllScenes == {"queue", "page", "cancel"}
PageOnly == {"page"}
=============================================================================
