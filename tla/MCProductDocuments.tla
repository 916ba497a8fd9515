------------------------ MODULE MCProductDocuments ------------------------
(* A default channel and another, two variants, one worker. *)
EXTENDS ProductDocuments

CONSTANTS v1, v2, default, other, w1
=============================================================================
