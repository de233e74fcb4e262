SPECIFICATION Spec
CONSTANTS
    Calls = {c1, c2}
    Limit = 1
    Window = 2
    Served = {"login", "rank_candidates", "get_stats"}
SYMMETRY Symmetry
INVARIANTS AdmissionsAreBounded RetryAfterIsKept AuthorityIsCurrent
PROPERTIES TokensAreEarned
