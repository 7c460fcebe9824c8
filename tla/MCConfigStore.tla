--------------------------- MODULE MCConfigStore ----------------------------
(* Two concurrent writers; "bad" halves are rejected by validate_config,   *)
(* "raw" groups are normalized into valid ones.                            *)
EXTENDS ConfigStore, TLC

MCNormalize(g) == IF g = "raw" THEN "g1" ELSE g
Symmetry == Permutations(Writers)
=============================================================================
