CONSTANTS
    p1 = p1
    p2 = p2
    g1 = g1
    None = None
    Requests = {r1, r2}
    Savers = {s1}
    Groups = {g1}
    Providers = {p1, p2}
    MaxVersion = 2
    Bodies <- MCBodies
SPECIFICATION FairSpec
INVARIANTS UpToDateMeansCurrent StaleOnlyIfOvertaken
PROPERTIES IndexSettles
