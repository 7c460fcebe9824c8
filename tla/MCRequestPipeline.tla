------------------------- MODULE MCRequestPipeline --------------------------
(* Small instance of RequestPipeline.                                      *)
EXTENDS RequestPipeline
=============================================================================
