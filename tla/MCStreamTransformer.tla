------------------------ MODULE MCStreamTransformer -------------------------
(* Small instance of StreamTransformer.                                    *)
EXTENDS StreamTransformer
=============================================================================
