---------------------------- MODULE MCRemoteSync ----------------------------
\* Two installations, the first with two callers (its window and HTTP).
EXTENDS RemoteSync, TLC

CONSTANTS w, h, b

MCHome == w :> "A" @@ h :> "A" @@ b :> "B"
MCInitialRemotes == {<< >>, <<Broken>>}
Symmetry == Permutations({w, h})
=============================================================================
