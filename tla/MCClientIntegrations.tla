----------------------- MODULE MCClientIntegrations -----------------------
\* Two callers and two directories; each kind of client starts from
\* each of these states of its files.
EXTENDS ClientIntegrations, TLC

OwnUrl == [group |-> None, v1 |-> TRUE]
UrlOnly == config(None, OwnUrl, None)

MCKinds == {"claude", "codex", "opencode", "openclaw"}
MCForms == [k \in MCKinds |-> {UrlOnly, IF k = "openclaw" THEN config("mine", OwnUrl, "new key")
                                        ELSE config(None, None, "new key")}]
doc(p, e, named) == [providers |-> p :> e, named |-> named]
old == EntryUrl("old")
Keyed == doc(Shared, entry(old, "key", "key"), TRUE)
Mine == doc("mine", entry(old, "key", None), FALSE)

filePair(p, q) == [primary |-> p, second |-> q]
FileSets == [
    claude |-> {None, filePair(Broken, Missing), filePair(Keyed, Missing)},
    opencode |-> {filePair(Broken, Missing), filePair(Keyed, Missing)},
    codex |-> {None, filePair(Keyed, Broken), filePair(Keyed, doc(Auth, entry(None, "key", None), FALSE))},
    openclaw |-> {filePair(Mine, Keyed), filePair(Missing, Mine)}]

OtherFiles(k) == IF k = "openclaw" THEN None ELSE filePair(Keyed, Missing)

MCInitialFiles == [k \in MCKinds |-> {"d1" :> f @@ "d2" :> OtherFiles(k) : f \in FileSets[k]}]

MCSources == {Broken, Mine}

Symmetry == Permutations(Callers)
=============================================================================
